---------------------------- MODULE FrameProofs ----------------------------
(***************************************************************************)
(* Theorems about Frame, for any number of terminals and displays and any  *)
(* fonts.                                                                  *)
(***************************************************************************)
EXTENDS Frame, FiniteSetTheorems, WellFoundedInduction, TLAPS

LEMMA Least ==
  ASSUME NEW S \in SUBSET Nat, S # {}
  PROVE  \E n \in S : \A m \in S : n <= m
  <1>1. PICK n \in S : \A m \in S : ~(<<m, n>> \in OpToRel(<, Nat))
    BY NatLessThanWellFounded, WFMin
  <1>2. \A m \in S : ~(m < n)
    BY <1>1 DEF OpToRel
  <1> QED
    BY <1>2

\* The sizes: a finite set of numbers has a greatest one.
LEMMA Greatest ==
  ASSUME NEW S \in SUBSET Nat, IsFiniteSet(S), S # {}
  PROVE  \E n \in S : \A m \in S : m <= n
  <1> DEFINE Bounded(T) == \E b \in Nat : \A m \in T : m <= b
             Bad == {k \in Nat : \E T \in SUBSET S : Cardinality(T) = k /\ ~Bounded(T)}
  <1>1. Bad = {}
    <2> SUFFICES ASSUME Bad # {} PROVE FALSE
      OBVIOUS
    <2>1. PICK k \in Bad : \A j \in Bad : k <= j
      BY Least
    <2>2. PICK T \in SUBSET S : Cardinality(T) = k /\ ~Bounded(T)
      BY <2>1
    <2>3. T # {}
      BY <2>2
    <2>4. PICK x \in T : TRUE
      BY <2>3
    <2>5. IsFiniteSet(T)
      BY FS_Subset
    <2>6. Cardinality(T \ {x}) = k - 1 /\ k - 1 \in Nat
      <3>1. Cardinality(T \ {x}) = Cardinality(T) - 1
        BY <2>5, FS_RemoveElement
      <3>2. Cardinality(T \ {x}) \in Nat
        BY <2>5, FS_Subset, FS_CardinalityType
      <3> QED
        BY <2>2, <3>1, <3>2
    <2>7. k - 1 \notin Bad
      BY <2>1, <2>6
    <2>8. PICK b \in Nat : \A m \in T \ {x} : m <= b
      BY <2>6, <2>7
    <2>9. \A m \in T : m <= b + x
      BY <2>8
    <2> QED
      BY <2>2, <2>9
  <1>2. PICK b \in Nat : \A m \in S : m <= b
    <2>1. Cardinality(S) \in Nat
      BY FS_CardinalityType
    <2> QED
      BY <1>1, <2>1
  <1> DEFINE Up == {b - m : m \in S}
  <1>3. Up \in SUBSET Nat /\ Up # {}
    BY <1>2
  <1>4. PICK u \in Up : \A v \in Up : u <= v
    BY <1>3, Least
  <1>5. PICK n \in S : u = b - n
    BY <1>4
  <1>6. \A m \in S : m <= n
    BY <1>2, <1>4, <1>5
  <1> QED
    BY <1>6

LEMMA MaxIs ==
  ASSUME NEW S \in SUBSET Nat, IsFiniteSet(S), S # {}
  PROVE  Max(S) \in S /\ \A m \in S : m <= Max(S)
  <1>1. \E n \in S : \A m \in S : n >= m
    BY Greatest
  <1>2. Max(S) \in S /\ \A m \in S : Max(S) >= m
    BY <1>1 DEF Max
  <1> QED
    BY <1>2

LEMMA MinIs ==
  ASSUME NEW S \in SUBSET Nat, S # {}
  PROVE  Min(S) \in S /\ \A m \in S : Min(S) <= m
  BY Least DEF Min

LEMMA CellFacts ==
  ASSUME Mode # {}
  PROVE  /\ MaxCols \in Nat \ {0}
         /\ \A m \in Mode, d \in Display : Fit[m][d] \in Cell
  <1> DEFINE F == UNION {Range(Fit[m]) : m \in Mode}
             g == [p \in Mode \X Display |-> Fit[p[1]][p[2]]]
  <1>0. MaxCols = Max(F)
    BY DEF MaxCols
  <1>1. \A x : x \in F <=> \E m \in Mode, d \in Display : x = Fit[m][d]
    BY FrameAssumption DEF Range
  <1> HIDE DEF F
  <1>2. F \in SUBSET (Nat \ {0}) /\ F # {}
    <2>1. \A m \in Mode, d \in Display : Fit[m][d] \in Nat \ {0}
      BY FrameAssumption
    <2>2. Lit \in Display
      BY FrameAssumption
    <2> QED
      BY <1>1, <2>1, <2>2
  <1>3. IsFiniteSet(F)
    <2>1. IsFiniteSet(Mode \X Display)
      BY FrameAssumption, FS_Product
    <2>2. \A p \in Mode \X Display : g[p] \in F
      BY <1>1
    <2>3. \A x \in F : \E p \in Mode \X Display : g[p] = x
      <3> SUFFICES ASSUME NEW x \in F PROVE \E p \in Mode \X Display : g[p] = x
        OBVIOUS
      <3>1. PICK m \in Mode, d \in Display : x = Fit[m][d]
        BY <1>1
      <3>2. <<m, d>> \in Mode \X Display /\ g[<<m, d>>] = x
        BY <3>1
      <3> QED
        BY <3>2
    <2>4. g \in Surjection(Mode \X Display, F)
      <3>1. g \in [Mode \X Display -> F]
        BY <2>2
      <3> HIDE DEF g
      <3> QED
        BY <2>3, <3>1 DEF Surjection
    <2> QED
      BY <2>1, <2>4, FS_Surjection
  <1>4. MaxCols \in F /\ \A m \in F : m <= MaxCols
    <2>1. F \in SUBSET Nat
      BY <1>2
    <2> QED
      BY <1>0, <1>2, <1>3, <2>1, MaxIs
  <1>5. \A m \in Mode, d \in Display : Fit[m][d] \in F
    BY <1>1
  <1>6. \A x \in F : x \in 1..MaxCols
    BY <1>2, <1>4
  <1>7. MaxCols \in Nat \ {0}
    BY <1>2, <1>4
  <1> QED
    BY <1>5, <1>6, <1>7 DEF Cell

(***************************************************************************)
(* A fold over a finite set, for any order in which the elements are taken *)
(* and any property of what has been done so far.                          *)
(***************************************************************************)
Picks(pick, S) == \A T \in SUBSET S : T # {} => pick[T] \in T

Folds(g, S, pick, base, op) ==
  \A T \in SUBSET S : g[T] = IF T = {} THEN base ELSE op[<<g[T \ {pick[T]}], pick[T]>>]

LEMMA FoldHas ==
  ASSUME NEW S, IsFiniteSet(S), NEW pick, Picks(pick, S),
         NEW A, NEW base, base \in A, NEW op, op \in [A \X S -> A]
  PROVE  \E g \in [SUBSET S -> A] : Folds(g, S, pick, base, op)
  <1> DEFINE Small(k) == {T \in SUBSET S : Cardinality(T) <= k}
             Step(g, T) == IF T = {} THEN base ELSE op[<<g[T \ {pick[T]}], pick[T]>>]
             Solves(g, k) == g \in [SUBSET S -> A] /\ \A T \in Small(k) : g[T] = Step(g, T)
             Bad == {k \in Nat : ~ \E g : Solves(g, k)}
  <1>1. \A T \in SUBSET S : IsFiniteSet(T) /\ Cardinality(T) \in Nat
    BY FS_Subset, FS_CardinalityType
  <1>2. \A T \in SUBSET S : T # {} =>
          /\ pick[T] \in T /\ T \ {pick[T]} \in SUBSET S
          /\ Cardinality(T \ {pick[T]}) = Cardinality(T) - 1
    BY <1>1, FS_RemoveElement DEF Picks
  <1>3. \A T \in SUBSET S : Cardinality(T) = 0 <=> T = {}
    BY <1>1, FS_EmptySet
  <1>4. Bad = {}
    <2> SUFFICES ASSUME Bad # {} PROVE FALSE
      OBVIOUS
    <2>1. PICK k \in Bad : \A j \in Bad : k <= j
      <3>1. Bad \in SUBSET Nat
        OBVIOUS
      <3> HIDE DEF Bad
      <3> QED
        BY <3>1, Least
    <2>2. k # 0
      <3>3. ~ \E g : Solves(g, k)
        BY <2>1
      <3>2. \A T \in Small(0) : T = {}
        BY <1>1, <1>3
      <3> DEFINE f == [T \in SUBSET S |-> base]
      <3>1. Solves(f, 0)
        BY <3>2
      <3> HIDE DEF f, Solves
      <3> QED
        BY <3>1, <3>3
    <2>3. PICK g : Solves(g, k - 1)
      <3>1. k - 1 \in Nat /\ ~(k <= k - 1)
        BY <2>2
      <3>2. k - 1 \notin Bad
        BY <2>1, <3>1
      <3> QED
        BY <3>1, <3>2
    <2> DEFINE h == [T \in SUBSET S |-> Step(g, T)]
    <2>4. h \in [SUBSET S -> A]
      <3>1. \A T \in SUBSET S : Step(g, T) \in A
        BY <1>2, <2>3
      <3> QED
        BY <3>1
    <2>5. \A T \in Small(k - 1) : h[T] = g[T]
      BY <2>3
    <2>6. \A T \in Small(k) : T # {} => T \ {pick[T]} \in Small(k - 1)
      BY <1>1, <1>2, <2>1
    <2>7. \A T \in Small(k) : h[T] = Step(h, T)
      BY <2>5, <2>6
    <2>8. Solves(h, k)
      BY <2>4, <2>7
    <2> QED
      BY <2>8
  <1>5. PICK g : Solves(g, Cardinality(S))
    BY <1>1, <1>4
  <1>6. \A T \in SUBSET S : T \in Small(Cardinality(S))
    BY FS_Subset
  <1>7. \A T \in SUBSET S : g[T] = Step(g, T)
    BY <1>5, <1>6
  <1>8. g \in [SUBSET S -> A]
    BY <1>5
  <1> QED
    BY <1>7, <1>8 DEF Folds

LEMMA FoldKeeps ==
  ASSUME NEW S, IsFiniteSet(S), NEW pick, \A T \in SUBSET S : T # {} => pick[T] \in T,
         NEW Q, NEW h,
         <<h[{}], {}>> \in Q,
         \A T \in SUBSET S :
           T # {} /\ <<h[T \ {pick[T]}], T \ {pick[T]}>> \in Q => <<h[T], T>> \in Q
  PROVE  <<h[S], S>> \in Q
  <1> DEFINE Bad == {k \in Nat : \E T \in SUBSET S : Cardinality(T) = k /\ <<h[T], T>> \notin Q}
  <1>1. \A T \in SUBSET S : IsFiniteSet(T) /\ Cardinality(T) \in Nat
    BY FS_Subset, FS_CardinalityType
  <1>2. Bad = {}
    <2> SUFFICES ASSUME Bad # {} PROVE FALSE
      OBVIOUS
    <2>1. PICK k \in Bad : \A j \in Bad : k <= j
      <3>1. Bad \in SUBSET Nat
        OBVIOUS
      <3> HIDE DEF Bad
      <3> QED
        BY <3>1, Least
    <2>2. PICK T \in SUBSET S : Cardinality(T) = k /\ <<h[T], T>> \notin Q
      BY <2>1
    <2>3. T # {}
      BY <2>2
    <2>4. pick[T] \in T /\ T \ {pick[T]} \in SUBSET S
      BY <2>3
    <2>5. Cardinality(T \ {pick[T]}) = k - 1 /\ k - 1 \in Nat
      <3>1. Cardinality(T \ {pick[T]}) = Cardinality(T) - 1
        BY <1>1, <2>4, FS_RemoveElement
      <3> QED
        BY <1>1, <2>2, <2>4, <3>1
    <2>6. k - 1 \notin Bad
      BY <2>1, <2>5
    <2>7. <<h[T \ {pick[T]}], T \ {pick[T]}>> \in Q
      BY <2>4, <2>5, <2>6
    <2> QED
      BY <2>2, <2>3, <2>7
  <1> QED
    BY <1>1, <1>2
-----------------------------------------------------------------------------
(***************************************************************************)
(* bbulk: what a frame leaves of each cell.                                *)
(***************************************************************************)
\* What the renderer keeps of a screen, and the frame.
Canvas == [cells : [Cell -> Cached], damaged : SUBSET Cell, wide : SUBSET Cell,
           redraw : 0..2, pix : [Cell -> Pixel]]

\* No glyph is two cells wide.
Narrow(s) == "wide" \notin use /\ s.wide = {}

\* The cell c of s is drawn as ch in d: a cell that shows it in both buffers is
\* left alone, and one that changed has to be drawn once more.
CellDrawn(s, d, ch, c) ==
  IF s.cells[c] = ch /\ c \notin s.damaged
  THEN d.cells[c] = ch /\ d.pix[c] = s.pix[c] /\ c \notin d.damaged
  ELSE d.cells[c] = ch /\ d.pix[c] = ch /\ (c \in d.damaged <=> s.cells[c] # ch)

CellSame(s, d, c) ==
  d.cells[c] = s.cells[c] /\ d.pix[c] = s.pix[c] /\ (c \in d.damaged <=> c \in s.damaged)

\* The cells of C are drawn, and no others.
CellsDrawn(s, d, row, w, C) ==
  /\ d \in Canvas /\ d.redraw = s.redraw
  /\ Narrow(s) => /\ d.wide = {}
                  /\ \A c \in C : CellDrawn(s, d, InRow(row, c, w), c)
                  /\ \A c \in Cell \ C : CellSame(s, d, c)

LEMMA SymbolFacts ==
  /\ Symbol \subseteq Cached /\ " " \in Symbol /\ "damaged" \in Cached /\ "overflow" \in Cached
  /\ Symbol \subseteq {" ", "x", "W"}
  /\ "wide" \notin use => Symbol = {" ", "x"}
  BY DEF Symbol, Cached

LEMMA DamageType ==
  ASSUME NEW s \in Canvas, NEW C \in SUBSET Cell
  PROVE  /\ DamageCells(s, C) \in Canvas
         /\ \A c \in Cell :
              DamageCells(s, C).cells[c] = IF c \in C THEN "damaged" ELSE s.cells[c]
         /\ DamageCells(s, C).damaged = s.damaged \cup C
         /\ DamageCells(s, C).wide = s.wide /\ DamageCells(s, C).redraw = s.redraw
         /\ DamageCells(s, C).pix = s.pix
  BY SymbolFacts DEF DamageCells, Canvas

LEMMA BlendType ==
  ASSUME NEW s \in Canvas, NEW C, NEW p \in Pixel
  PROVE  /\ Blend(s, C, p) \in Canvas
         /\ \A c \in Cell : Blend(s, C, p).pix[c] = IF c \in C THEN p ELSE s.pix[c]
         /\ Blend(s, C, p).cells = s.cells /\ Blend(s, C, p).damaged = s.damaged
         /\ Blend(s, C, p).wide = s.wide /\ Blend(s, C, p).redraw = s.redraw
  BY DEF Blend, Canvas

LEMMA DrawCellFacts ==
  ASSUME NEW s \in Canvas, NEW ch \in Symbol, NEW c \in Cell, NEW last \in BOOLEAN,
         MaxCols \in Nat, ~last => c + 1 \in Cell
  PROVE  /\ DrawCell(s, ch, c, last) \in Canvas
         /\ DrawCell(s, ch, c, last).redraw = s.redraw
         /\ Narrow(s) => /\ DrawCell(s, ch, c, last).wide = {}
                         /\ CellDrawn(s, DrawCell(s, ch, c, last), ch, c)
                         /\ \A e \in Cell \ {c} : CellSame(s, DrawCell(s, ch, c, last), e)
  <1> DEFINE changed == s.cells[c] # ch
             double  == ch = "W"
             spills  == double /\ ~last
             glyph   == IF double THEN Blend(Blend(s, {c}, "left"), IF spills THEN {c + 1} ELSE {}, "right")
                        ELSE Blend(s, {c}, ch)
             drawn   == [glyph EXCEPT !.damaged = IF changed THEN @ \cup {c} ELSE @ \ {c},
                                      !.cells[c] = ch,
                                      !.wide = IF double THEN @ \cup {c} ELSE @ \ {c}]
             over    == [s EXCEPT !.damaged = IF s.cells[c] = "overflow" THEN @ \ {c} ELSE @ \cup {c},
                                  !.cells[c] = "overflow"]
  <1>1. DrawCell(s, ch, c, last) =
          IF Overflows(s, ch, c) THEN over
          ELSE IF UpToDate(s, ch, c, last) THEN s
          ELSE IF changed /\ spills THEN DamageCells(drawn, {c + 1}) ELSE drawn
    BY DEF DrawCell
  <1>2. /\ glyph \in Canvas /\ glyph.redraw = s.redraw /\ glyph.cells = s.cells
        /\ glyph.damaged = s.damaged /\ glyph.wide = s.wide
        /\ ~double => \A e \in Cell : glyph.pix[e] = IF e \in {c} THEN ch ELSE s.pix[e]
    <2>1. CASE double
      <3> DEFINE one   == {c}
                 left  == Blend(s, one, "left")
                 other == IF spills THEN {c + 1} ELSE {}
      <3>1. "left" \in Pixel /\ "right" \in Pixel
        BY DEF Pixel
      <3>2. glyph = Blend(left, other, "right")
        BY <2>1
      <3> HIDE DEF glyph, one, other
      <3>3. /\ left \in Canvas /\ left.cells = s.cells /\ left.damaged = s.damaged
            /\ left.wide = s.wide /\ left.redraw = s.redraw
        BY <3>1, BlendType
      <3> HIDE DEF left
      <3> QED
        BY <2>1, <3>1, <3>2, <3>3, BlendType
    <2>2. CASE ~double
      <3>1. ch \in Pixel
        BY <2>2, SymbolFacts DEF Pixel
      <3>2. glyph = Blend(s, {c}, ch)
        BY <2>2
      <3> HIDE DEF glyph
      <3> QED
        BY <2>2, <3>1, <3>2, BlendType
    <2> QED
      BY <2>1, <2>2
  <1> HIDE DEF glyph
  <1>3. /\ drawn \in Canvas /\ drawn.redraw = s.redraw /\ drawn.pix = glyph.pix
        /\ drawn.cells = [s.cells EXCEPT ![c] = ch]
        /\ drawn.damaged = IF changed THEN s.damaged \cup {c} ELSE s.damaged \ {c}
        /\ drawn.wide = IF double THEN s.wide \cup {c} ELSE s.wide \ {c}
    BY <1>2, SymbolFacts DEF Canvas
  <1>4. over \in Canvas /\ over.redraw = s.redraw
    BY SymbolFacts DEF Canvas
  <1>5. spills => {c + 1} \in SUBSET Cell
    OBVIOUS
  <1> HIDE DEF drawn, over
  <1>6. DrawCell(s, ch, c, last) \in Canvas /\ DrawCell(s, ch, c, last).redraw = s.redraw
    <2> DEFINE next == {c + 1}
    <2>1. changed /\ spills =>
            DamageCells(drawn, next) \in Canvas /\ DamageCells(drawn, next).redraw = s.redraw
      BY <1>3, <1>5, DamageType
    <2> QED
      BY <1>1, <1>3, <1>4, <2>1
  <1>7. ASSUME Narrow(s)
        PROVE  /\ DrawCell(s, ch, c, last).wide = {}
               /\ CellDrawn(s, DrawCell(s, ch, c, last), ch, c)
               /\ \A e \in Cell \ {c} : CellSame(s, DrawCell(s, ch, c, last), e)
    <2>1. ~double /\ ~Overflows(s, ch, c) /\ s.wide = {}
      BY <1>7, SymbolFacts DEF Narrow, Overflows
    <2>2. DrawCell(s, ch, c, last) = IF UpToDate(s, ch, c, last) THEN s ELSE drawn
      BY <1>1, <2>1
    <2>3. UpToDate(s, ch, c, last) <=> s.cells[c] = ch /\ c \notin s.damaged
      BY <2>1 DEF UpToDate
    <2>4. s.cells \in [Cell -> Cached]
      BY DEF Canvas
    <2>5. drawn.cells[c] = ch /\ \A e \in Cell \ {c} : drawn.cells[e] = s.cells[e]
      BY <1>3, <2>4
    <2>6. drawn.pix[c] = ch /\ \A e \in Cell \ {c} : drawn.pix[e] = s.pix[e]
      BY <1>2, <1>3, <2>1
    <2>7. drawn.wide = {}
      BY <1>3, <2>1
    <2>8. CASE UpToDate(s, ch, c, last)
      BY <2>1, <2>2, <2>3, <2>8 DEF CellDrawn, CellSame
    <2>9. CASE ~UpToDate(s, ch, c, last)
      BY <1>3, <2>1, <2>2, <2>3, <2>5, <2>6, <2>7, <2>9 DEF CellDrawn, CellSame
    <2> QED
      BY <2>8, <2>9
  <1> QED
    BY <1>6, <1>7

LEMMA DrawFacts ==
  ASSUME NEW s \in Canvas, NEW row \in [Cell -> Symbol], NEW n \in 0..MaxCols, NEW w \in Cell,
         MaxCols \in Nat
  PROVE  CellsDrawn(s, Draw(s, row, n, w), row, w, 1..n)
  <1> DEFINE Loop(k, f) == f = [c \in 0..k |->
                                  IF c = 0 THEN s
                                  ELSE DrawCell(f[c - 1], InRow(row, c, w), c, c = n)]
             upto == CHOOSE f : Loop(n, f)
  <1>1. Draw(s, row, n, w) = upto[n]
    BY DEF Draw
  <1>2. \E f : Loop(n, f)
    <2> DEFINE Bad == {k \in Nat : ~ \E f : Loop(k, f)}
    <2> SUFFICES ASSUME Bad # {} PROVE FALSE
      OBVIOUS
    <2>1. PICK k \in Bad : \A j \in Bad : k <= j
      BY Least
    <2>2. Loop(0, [c \in 0..0 |-> s])
      OBVIOUS
    <2>3. k # 0
      BY <2>1, <2>2
    <2>4. PICK f : Loop(k - 1, f)
      <3>1. k - 1 \in Nat /\ ~(k <= k - 1)
        BY <2>1, <2>3
      <3>2. k - 1 \notin Bad
        BY <2>1, <3>1
      <3> QED
        BY <3>1, <3>2
    <2> DEFINE g == [c \in 0..k |-> IF c = k THEN DrawCell(f[k - 1], InRow(row, k, w), k, k = n)
                                    ELSE f[c]]
    <2>5. Loop(k, g)
      <3>1. k \in Nat \ {0}
        BY <2>1, <2>3
      <3>2. \A c \in 0..(k - 1) :
              f[c] = IF c = 0 THEN s ELSE DrawCell(f[c - 1], InRow(row, c, w), c, c = n)
        BY <2>4
      <3>3. \A c \in 0..k :
              g[c] = IF c = 0 THEN s ELSE DrawCell(g[c - 1], InRow(row, c, w), c, c = n)
        BY <3>1, <3>2
      <3> QED
        BY <3>3
    <2> QED
      BY <2>1, <2>5
  <1>3. Loop(n, upto)
    BY <1>2
  <1> HIDE DEF upto
  <1>4. \A c \in 0..n :
          upto[c] = IF c = 0 THEN s ELSE DrawCell(upto[c - 1], InRow(row, c, w), c, c = n)
    BY <1>3
  <1> DEFINE Good(k) == CellsDrawn(s, upto[k], row, w, 1..k)
  <1>5. Good(0)
    BY <1>4 DEF CellsDrawn, CellSame, Narrow
  <1>6. ASSUME NEW k \in 1..n, Good(k - 1) PROVE Good(k)
    <2> DEFINE a == upto[k - 1]
               d == upto[k]
               ch == InRow(row, k, w)
               last == k = n
    <2>1. k \in Cell /\ k - 1 \in 0..n /\ (~last => k + 1 \in Cell) /\ last \in BOOLEAN
      BY DEF Cell
    <2>2. d = DrawCell(a, ch, k, last)
      BY <1>4, <2>1
    <2>3. ch \in Symbol
      BY <2>1, SymbolFacts DEF InRow
    <2>4. a \in Canvas /\ a.redraw = s.redraw
      BY <1>6 DEF CellsDrawn, a
    <2> HIDE DEF a, d, ch, last
    <2>5. /\ d \in Canvas /\ d.redraw = a.redraw
          /\ Narrow(a) => /\ d.wide = {} /\ CellDrawn(a, d, ch, k)
                          /\ \A e \in Cell \ {k} : CellSame(a, d, e)
      BY <2>1, <2>2, <2>3, <2>4, DrawCellFacts
    <2>6. ASSUME Narrow(s)
          PROVE  /\ d.wide = {}
                 /\ \A c \in 1..k : CellDrawn(s, d, InRow(row, c, w), c)
                 /\ \A c \in Cell \ (1..k) : CellSame(s, d, c)
      <3>1. /\ a.wide = {}
            /\ \A c \in 1..(k - 1) : CellDrawn(s, a, InRow(row, c, w), c)
            /\ \A c \in Cell \ (1..(k - 1)) : CellSame(s, a, c)
        BY <1>6, <2>6 DEF CellsDrawn, a
      <3>2. /\ d.wide = {} /\ CellDrawn(a, d, ch, k)
            /\ \A e \in Cell \ {k} : CellSame(a, d, e)
        BY <2>5, <2>6, <3>1 DEF Narrow
      <3>3. CellSame(s, a, k)
        BY <2>1, <3>1
      <3>4. CellDrawn(s, d, ch, k)
        BY <3>2, <3>3 DEF CellDrawn, CellSame
      <3>5. \A c \in 1..(k - 1) : c \in Cell \ {k}
        BY <2>1 DEF Cell
      <3>6. ASSUME NEW c \in 1..k PROVE CellDrawn(s, d, InRow(row, c, w), c)
        <4>1. CASE c = k
          BY <3>4, <4>1 DEF ch
        <4>2. CASE c \in 1..(k - 1)
          <5>1. CellDrawn(s, a, InRow(row, c, w), c) /\ CellSame(a, d, c)
            BY <3>1, <3>2, <3>5, <4>2
          <5> QED
            BY <5>1 DEF CellDrawn, CellSame
        <4> QED
          BY <4>1, <4>2
      <3>7. ASSUME NEW c \in Cell \ (1..k) PROVE CellSame(s, d, c)
        <4>1. c \in Cell \ {k} /\ c \in Cell \ (1..(k - 1))
          OBVIOUS
        <4>2. CellSame(s, a, c) /\ CellSame(a, d, c)
          BY <3>1, <3>2, <4>1
        <4> QED
          BY <4>2 DEF CellSame
      <3> QED
        BY <3>2, <3>6, <3>7
    <2>7. d.redraw = s.redraw
      BY <2>4, <2>5
    <2> QED
      BY <2>5, <2>6, <2>7 DEF CellsDrawn, d
  <1>7. \A k \in 0..n : Good(k)
    <2> DEFINE Bad == {k \in 0..n : ~Good(k)}
    <2> HIDE DEF Good
    <2> SUFFICES ASSUME Bad # {} PROVE FALSE
      OBVIOUS
    <2>1. PICK k \in Bad : \A j \in Bad : k <= j
      <3>1. Bad \in SUBSET Nat
        OBVIOUS
      <3> HIDE DEF Bad
      <3> QED
        BY <3>1, Least
    <2>2. k \in 1..n /\ k - 1 \in 0..n /\ ~(k <= k - 1)
      BY <1>5, <2>1
    <2>3. Good(k - 1)
      BY <2>1, <2>2
    <2> QED
      BY <1>6, <2>1, <2>2, <2>3
  <1> QED
    BY <1>1, <1>7
-----------------------------------------------------------------------------
(***************************************************************************)
(* gltex: what the quads of a frame show.                                  *)
(***************************************************************************)
GlCanvas == [pix : [Cell -> Pixel], quads : Nat, overflow : BOOLEAN]

LEMMA GlBlend ==
  ASSUME NEW s \in GlCanvas, NEW C, NEW p \in Pixel
  PROVE  /\ Blend(s, C, p) \in GlCanvas
         /\ \A c \in Cell : Blend(s, C, p).pix[c] = IF c \in C THEN p ELSE s.pix[c]
         /\ Blend(s, C, p).quads = s.quads /\ Blend(s, C, p).overflow = s.overflow
  BY DEF Blend, GlCanvas

\* A quad more.
Quad(s, b) == [s EXCEPT !.overflow = b, !.quads = @ + 1]

LEMMA GlQuad ==
  ASSUME NEW s \in GlCanvas, NEW b \in BOOLEAN
  PROVE  /\ Quad(s, b) \in GlCanvas /\ Quad(s, b).quads = s.quads + 1 /\ Quad(s, b).pix = s.pix
         /\ Quad(s, b).overflow = b
  <1> DEFINE d == Quad(s, b)
  <1>0. d = [s EXCEPT !.overflow = b, !.quads = @ + 1]
    BY DEF Quad
  <1> HIDE DEF d
  <1>1. d.quads = s.quads + 1 /\ s.quads \in Nat
    BY <1>0 DEF GlCanvas
  <1>2. d.pix = s.pix /\ s.pix \in [Cell -> Pixel]
    BY <1>0 DEF GlCanvas
  <1>3. d.overflow = b
    BY <1>0 DEF GlCanvas
  <1>4. d = [pix |-> d.pix, quads |-> d.quads, overflow |-> d.overflow]
    BY <1>0 DEF GlCanvas
  <1> QED
    BY <1>1, <1>2, <1>3, <1>4 DEF GlCanvas, d

\* The cell c of s is drawn as ch in d, if there is room for its quad.
GlCellDrawn(s, d, ch, c, room) ==
  /\ d \in GlCanvas /\ d.quads <= s.quads + 1
  /\ ("wide" \notin use /\ ~s.overflow /\ s.quads < room) =>
       (~d.overflow /\ d.pix[c] = ch /\ \A e \in Cell \ {c} : d.pix[e] = s.pix[e])

LEMMA GlCellFacts ==
  ASSUME NEW s \in GlCanvas, NEW ch \in Symbol, NEW c \in Cell, NEW room \in Nat
  PROVE  GlCellDrawn(s, GlCell(s, ch, c, room), ch, c, room)
  <1> DEFINE one   == {c}
             next  == {c + 1}
             left  == Blend(s, one, "left")
             both  == Blend(left, next, "right")
             glyph == IF ch = "W" THEN both ELSE Blend(s, one, ch)
             drawn == [glyph EXCEPT !.overflow = ch = "W", !.quads = @ + 1]
             d     == GlCell(s, ch, c, room)
  <1>1. d = IF c > 1 /\ s.overflow /\ ch = " " THEN [s EXCEPT !.overflow = FALSE]
            ELSE IF s.quads >= room THEN s ELSE drawn
    BY DEF GlCell
  <1>2. "left" \in Pixel /\ "right" \in Pixel /\ (ch # "W" => ch \in Pixel)
    BY SymbolFacts DEF Pixel
  <1> HIDE DEF one, next
  <1>3. left \in GlCanvas /\ left.quads = s.quads
    BY <1>2, GlBlend
  <1> HIDE DEF left
  <1>4. both \in GlCanvas /\ both.quads = s.quads
    BY <1>2, <1>3, GlBlend
  <1> HIDE DEF both
  <1>5. /\ glyph \in GlCanvas /\ glyph.quads = s.quads
        /\ ch # "W" => \A e \in Cell : glyph.pix[e] = IF e \in one THEN ch ELSE s.pix[e]
    BY <1>2, <1>4, GlBlend
  <1> HIDE DEF glyph
  <1>6. /\ drawn \in GlCanvas /\ drawn.quads = s.quads + 1 /\ drawn.pix = glyph.pix
        /\ ch # "W" => ~drawn.overflow
    <2>1. (ch = "W") \in BOOLEAN
      OBVIOUS
    <2> DEFINE b == ch = "W"
    <2>2. drawn = Quad(glyph, b)
      BY DEF Quad
    <2> HIDE DEF b
    <2>3. b \in BOOLEAN
      BY <2>1 DEF b
    <2> HIDE DEF drawn
    <2>4. glyph \in GlCanvas
      BY <1>5
    <2>5. /\ drawn \in GlCanvas /\ drawn.quads = glyph.quads + 1 /\ drawn.pix = glyph.pix
          /\ drawn.overflow = b
      BY <2>2, <2>3, <2>4, GlQuad
    <2> QED
      BY <1>5, <2>5 DEF b
  <1> HIDE DEF drawn
  <1>7. d \in GlCanvas /\ d.quads <= s.quads + 1
    <2>1. CASE c > 1 /\ s.overflow /\ ch = " "
      <3>1. d = [s EXCEPT !.overflow = FALSE]
        BY <1>1, <2>1
      <3>2. s.quads \in Nat /\ s.pix \in [Cell -> Pixel]
        BY DEF GlCanvas
      <3>3. s = [pix |-> s.pix, quads |-> s.quads, overflow |-> s.overflow]
        BY DEF GlCanvas
      <3>4. d = [pix |-> s.pix, quads |-> s.quads, overflow |-> FALSE]
        BY <3>1, <3>3
      <3> HIDE DEF d
      <3>5. d.quads = s.quads
        BY <3>4
      <3>6. d \in GlCanvas
        BY <3>2, <3>4 DEF GlCanvas
      <3> QED
        BY <3>2, <3>5, <3>6
    <2>2. CASE ~(c > 1 /\ s.overflow /\ ch = " ")
      <3>1. d = s \/ d = drawn
        BY <1>1, <2>2
      <3>2. s.quads \in Nat
        BY DEF GlCanvas
      <3> QED
        BY <1>6, <3>1, <3>2
    <2> QED
      BY <2>1, <2>2
  <1>8. ASSUME "wide" \notin use, ~s.overflow, s.quads < room
        PROVE  ~d.overflow /\ d.pix[c] = ch /\ \A e \in Cell \ {c} : d.pix[e] = s.pix[e]
    <2>1. s.quads \in Nat
      BY DEF GlCanvas
    <2>2. ch # "W"
      BY <1>8, SymbolFacts
    <2>3. ~(s.quads >= room)
      BY <1>8, <2>1
    <2>4. d = drawn
      BY <1>1, <1>8, <2>3, Zenon
    <2> QED
      BY <1>5, <1>6, <2>2, <2>4 DEF one
  <1> QED
    BY <1>7, <1>8 DEF GlCellDrawn

\* A row of n cells is drawn onto s, if there is room for its quads.
GlRowDrawn(s, d, row, n, w, room) ==
  /\ d \in GlCanvas /\ d.quads <= s.quads + n
  /\ ("wide" \notin use /\ ~s.overflow /\ s.quads + n <= room) =>
       \A c \in 1..n : d.pix[c] = InRow(row, c, w)

LEMMA GlDrawFacts ==
  ASSUME NEW s \in GlCanvas, NEW row \in [Cell -> Symbol], NEW n \in 0..MaxCols, NEW w \in Cell,
         NEW room \in Nat, MaxCols \in Nat
  PROVE  GlRowDrawn(s, GlDraw(s, row, n, w, room), row, n, w, room)
  <1> DEFINE Loop(k, f) == f = [c \in 0..k |->
                                  IF c = 0 THEN s ELSE GlCell(f[c - 1], InRow(row, c, w), c, room)]
             upto == CHOOSE f : Loop(n, f)
  <1>1. GlDraw(s, row, n, w, room) = upto[n]
    BY DEF GlDraw
  <1>0. n \in Nat
    OBVIOUS
  <1>2. \E f : Loop(n, f)
    <2> DEFINE Bad == {k \in Nat : ~ \E f : Loop(k, f)}
    <2> SUFFICES ASSUME Bad # {} PROVE FALSE
      BY <1>0
    <2>1. PICK k \in Bad : \A j \in Bad : k <= j
      BY Least
    <2>2. Loop(0, [c \in 0..0 |-> s])
      OBVIOUS
    <2>3. k # 0
      BY <2>1, <2>2
    <2>4. PICK f : Loop(k - 1, f)
      <3>1. k - 1 \in Nat /\ ~(k <= k - 1)
        BY <2>1, <2>3
      <3>2. k - 1 \notin Bad
        BY <2>1, <3>1
      <3> QED
        BY <3>1, <3>2
    <2> DEFINE g == [c \in 0..k |-> IF c = k THEN GlCell(f[k - 1], InRow(row, k, w), k, room)
                                    ELSE f[c]]
    <2>5. Loop(k, g)
      <3>1. k \in Nat \ {0}
        BY <2>1, <2>3
      <3>2. \A c \in 0..(k - 1) :
              f[c] = IF c = 0 THEN s ELSE GlCell(f[c - 1], InRow(row, c, w), c, room)
        BY <2>4
      <3>3. \A c \in 0..k :
              g[c] = IF c = 0 THEN s ELSE GlCell(g[c - 1], InRow(row, c, w), c, room)
        BY <3>1, <3>2
      <3> QED
        BY <3>3
    <2> QED
      BY <2>1, <2>5
  <1>3. Loop(n, upto)
    BY <1>2
  <1> HIDE DEF upto
  <1>4. \A c \in 0..n :
          upto[c] = IF c = 0 THEN s ELSE GlCell(upto[c - 1], InRow(row, c, w), c, room)
    BY <1>3
  <1> DEFINE Good(k) ==
        /\ upto[k] \in GlCanvas /\ upto[k].quads <= s.quads + k
        /\ ("wide" \notin use /\ ~s.overflow /\ s.quads + n <= room) =>
             (~upto[k].overflow /\ \A c \in 1..k : upto[k].pix[c] = InRow(row, c, w))
  <1>5. Good(0)
    BY <1>4 DEF GlCanvas
  <1>6. ASSUME NEW k \in 1..n, Good(k - 1) PROVE Good(k)
    <2> DEFINE a == upto[k - 1]
               d == upto[k]
               ch == InRow(row, k, w)
    <2>1. k \in Cell /\ k - 1 \in 0..n
      BY DEF Cell
    <2>2. d = GlCell(a, ch, k, room)
      BY <1>4, <2>1
    <2>3. ch \in Symbol
      BY <2>1, SymbolFacts DEF InRow
    <2>4. a \in GlCanvas /\ a.quads <= s.quads + (k - 1) /\ a.quads \in Nat /\ s.quads \in Nat
      BY <1>6 DEF GlCanvas
    <2> HIDE DEF a, d, ch
    <2>5. GlCellDrawn(a, d, ch, k, room)
      BY <2>1, <2>2, <2>3, <2>4, GlCellFacts
    <2>6. d.quads <= s.quads + k
      <3>1. d.quads \in Nat
        BY <2>5 DEF GlCellDrawn, GlCanvas
      <3>2. d.quads <= a.quads + 1
        BY <2>5 DEF GlCellDrawn
      <3> QED
        BY <2>4, <3>1, <3>2
    <2>7. ASSUME "wide" \notin use, ~s.overflow, s.quads + n <= room
          PROVE  ~d.overflow /\ \A c \in 1..k : d.pix[c] = InRow(row, c, w)
      <3>1. ~a.overflow /\ \A c \in 1..(k - 1) : a.pix[c] = InRow(row, c, w)
        BY <1>6, <2>7 DEF a
      <3>2. a.quads < room
        BY <2>4, <2>7
      <3>3. /\ ~d.overflow /\ d.pix[k] = ch
            /\ \A e \in Cell \ {k} : d.pix[e] = a.pix[e]
        BY <2>5, <2>7, <3>1, <3>2 DEF GlCellDrawn
      <3>4. \A c \in 1..k : c = k \/ (c \in 1..(k - 1) /\ c \in Cell \ {k})
        BY <2>1 DEF Cell
      <3> QED
        BY <3>1, <3>3, <3>4 DEF ch
    <2> QED
      BY <2>5, <2>6, <2>7 DEF d, GlCellDrawn
  <1>7. \A k \in 0..n : Good(k)
    <2> DEFINE Bad == {k \in 0..n : ~Good(k)}
    <2> HIDE DEF Good
    <2> SUFFICES ASSUME Bad # {} PROVE FALSE
      OBVIOUS
    <2>1. PICK k \in Bad : \A j \in Bad : k <= j
      <3>1. Bad \in SUBSET Nat
        OBVIOUS
      <3> HIDE DEF Bad
      <3> QED
        BY <3>1, Least
    <2>2. k \in 1..n /\ k - 1 \in 0..n /\ ~(k <= k - 1)
      BY <1>5, <2>1
    <2>3. Good(k - 1)
      BY <2>1, <2>2
    <2> QED
      BY <1>6, <2>1, <2>2, <2>3
  <1>8. Good(n)
    BY <1>7
  <1> QED
    BY <1>1, <1>8 DEF GlRowDrawn

-----------------------------------------------------------------------------
(***************************************************************************)
(* The record that the handlers thread: its fields, and which of them a    *)
(* call changes.                                                           *)
(***************************************************************************)
Flag    == BOOLEAN
Cursors == [active : Flag, visible : Flag, at : 0..MaxCols, origin : Origin]
Planes  == Origin \X (0..MaxCols)
Blobs   == {NoBlob} \cup SUBSET Cell
Pixels  == [Cell -> Pixel]

State ==
  [awake : SUBSET Terminal, mode : [Terminal -> Mode], plugged : SUBSET Display,
   width : [Terminal -> Cell], cols : [Terminal -> [Display -> 0..MaxCols]],
   text : [Terminal -> [Cell -> Symbol]], pointer : [Terminal -> 0..MaxCols],
   swapping : SUBSET Terminal, pending : SUBSET Terminal,
   cells : [Terminal -> [Cell -> Cached]], damaged : [Terminal -> SUBSET Cell],
   wide : [Terminal -> SUBSET Cell], known : [Terminal -> Flag], redraw : [Terminal -> 0..2],
   buf : [{0, 1} -> Pixels], front : {0, 1}, scanned : {0, 1}, glass : Pixels,
   vsync : Flag, need : Flag, blob : Blobs,
   open : SUBSET Terminal, cursor : Cursors, plane : Planes]

Field ==
  {"awake", "mode", "plugged", "width", "cols", "text", "pointer", "swapping", "pending",
   "cells", "damaged", "wide", "known", "redraw", "buf", "front", "scanned", "glass",
   "vsync", "need", "blob", "open", "cursor", "plane"}

\* A call that was given r returns q; it changes no field outside F.
Changes(r, q, F) == q \in State /\ \A f \in Field \ F : q[f] = r[f]

LEMMA ChangesBoth ==
  ASSUME NEW r, NEW q, NEW s, NEW F, NEW G, NEW H, Changes(r, q, F), Changes(q, s, G),
         F \subseteq H, G \subseteq H
  PROVE  Changes(r, s, H)
  BY DEF Changes

LEMMA ChangesNothing ==
  ASSUME NEW r \in State, NEW F
  PROVE  Changes(r, r, F)
  BY DEF Changes

LEMMA FlagFacts == TRUE \in Flag /\ FALSE \in Flag
  BY DEF Flag

LEMMA OriginFacts ==
  ASSUME MaxCols \in Nat \ {0}
  PROVE  /\ Corner \in Origin /\ Hidden \in Planes /\ Foreign \in Planes
         /\ \A m \in Mode, n \in 0..MaxCols : Border(m, n) \in Origin
         /\ \A o \in Origin, n \in 0..MaxCols : <<o, n>> \in Planes
         /\ NoBlob \in Blobs
  <1>1. 0 \in 0..MaxCols /\ 1 \in 0..MaxCols
    OBVIOUS
  <1>2. Corner \in Origin /\ \A m \in Mode, n \in 0..MaxCols : Border(m, n) \in Origin
    BY DEF Origin
  <1>3. Hidden \in Planes /\ Foreign \in Planes
    BY <1>1, <1>2 DEF Hidden, Foreign, Planes
  <1> QED
    BY <1>2, <1>3 DEF Planes, Blobs

(***************************************************************************)
(* The cursor.                                                             *)
(***************************************************************************)
LEMMA OffsetFacts ==
  ASSUME NEW r \in State, NEW t \in Terminal, Lit \in Display, MaxCols \in Nat \ {0}
  PROVE  /\ Changes(r, SetCursorOffset(r, t), {"cursor"})
         /\ SetCursorOffset(r, t).cursor =
              [r.cursor EXCEPT !.origin = Border(r.mode[t], r.cols[t][Lit])]
  <1> DEFINE o == Border(r.mode[t], r.cols[t][Lit])
             c == [r.cursor EXCEPT !.origin = o]
             q == [r EXCEPT !.cursor = c]
  <1>1. q = SetCursorOffset(r, t)
    BY DEF SetCursorOffset
  <1>2. o \in Origin
    BY OriginFacts DEF State
  <1> HIDE DEF o
  <1>3. c \in Cursors
    <2>1. r.cursor \in Cursors
      BY DEF State
    <2> QED
      BY <1>2, <2>1 DEF Cursors
  <1> HIDE DEF c
  <1>4. Changes(r, q, {"cursor"}) /\ q.cursor = c
    BY <1>3 DEF Changes, State, Field
  <1> QED
    BY <1>1, <1>4 DEF c, o

LEMMA ShowFacts ==
  ASSUME NEW r \in State, NEW p \in 0..MaxCols
  PROVE  /\ Changes(r, HwCursorShow(r, p), {"cursor"})
         /\ HwCursorShow(r, p).cursor =
              IF HardwareCursor /\ r.cursor.active
              THEN [r.cursor EXCEPT !.visible = TRUE, !.at = p] ELSE r.cursor
  <1> DEFINE c == [r.cursor EXCEPT !.visible = TRUE, !.at = p]
             q == [r EXCEPT !.cursor = c]
  <1>1. HwCursorShow(r, p) = IF HardwareCursor /\ r.cursor.active THEN q ELSE r
    <2>1. q = [r EXCEPT !.cursor.visible = TRUE, !.cursor.at = p]
      BY DEF State
    <2> HIDE DEF q
    <2> QED
      BY <2>1 DEF HwCursorShow, ShowCursor
  <1>3. c \in Cursors
    <2>1. r.cursor \in Cursors
      BY DEF State
    <2> QED
      BY <2>1, FlagFacts DEF Cursors
  <1> HIDE DEF c
  <1>4. Changes(r, q, {"cursor"}) /\ q.cursor = c
    BY <1>3 DEF Changes, State, Field
  <1> HIDE DEF q
  <1> QED
    BY <1>1, <1>4, ChangesNothing DEF c

LEMMA HideFacts ==
  ASSUME NEW r \in State
  PROVE  /\ Changes(r, HideCursor(r), {"cursor"})
         /\ HideCursor(r).cursor = [r.cursor EXCEPT !.visible = FALSE]
  <1> DEFINE c == [r.cursor EXCEPT !.visible = FALSE]
             q == [r EXCEPT !.cursor = c]
  <1>1. q = HideCursor(r)
    BY DEF HideCursor
  <1>3. c \in Cursors
    <2>1. r.cursor \in Cursors
      BY DEF State
    <2> QED
      BY <2>1, FlagFacts DEF Cursors
  <1> HIDE DEF c
  <1>4. Changes(r, q, {"cursor"}) /\ q.cursor = c
    BY <1>3 DEF Changes, State, Field
  <1> QED
    BY <1>1, <1>4 DEF c

LEMMA DestroyFacts ==
  ASSUME NEW r \in State
  PROVE  Changes(r, DestroyCursor(r), {"cursor"})
  <1> DEFINE h == HideCursor(r)
             c == [h.cursor EXCEPT !.active = FALSE]
             q == [h EXCEPT !.cursor = c]
  <1>1. q = DestroyCursor(r)
    BY DEF DestroyCursor
  <1>2. Changes(r, h, {"cursor"})
    BY HideFacts
  <1> HIDE DEF h
  <1>3. h \in State
    BY <1>2 DEF Changes
  <1>4. c \in Cursors
    <2>1. h.cursor \in Cursors
      BY <1>3 DEF State
    <2> QED
      BY <2>1, FlagFacts DEF Cursors
  <1> HIDE DEF c
  <1>5. Changes(h, q, {"cursor"})
    BY <1>3, <1>4 DEF Changes, State, Field
  <1> QED
    BY <1>1, <1>2, <1>5, ChangesBoth

LEMMA RefreshFacts ==
  ASSUME NEW r \in State, MaxCols \in Nat \ {0}
  PROVE  Changes(r, RefreshHwCursor(r), {"cursor"})
  <1> DEFINE h == DestroyCursor(r)
             c == [h.cursor EXCEPT !.active = TRUE, !.visible = FALSE, !.origin = Corner]
             q == [h EXCEPT !.cursor = c]
  <1>1. Changes(r, h, {"cursor"})
    BY DestroyFacts
  <1>2. RefreshHwCursor(r) = IF HardwareCursor THEN SetupCursor(h) ELSE r
    BY DEF RefreshHwCursor, SetupHwCursor
  <1> HIDE DEF h
  <1>3. h \in State
    BY <1>1 DEF Changes
  <1>4. SetupCursor(h) = q
    BY <1>3 DEF SetupCursor, State
  <1>5. c \in Cursors
    <2>1. h.cursor \in Cursors
      BY <1>3 DEF State
    <2> QED
      BY <2>1, FlagFacts, OriginFacts DEF Cursors
  <1> HIDE DEF c
  <1>6. Changes(h, q, {"cursor"})
    BY <1>3, <1>5 DEF Changes, State, Field
  <1>7. Changes(r, q, {"cursor"})
    BY <1>1, <1>6, ChangesBoth
  <1> QED
    BY <1>2, <1>4, <1>7, ChangesNothing

\* What a commit puts on the cursor plane.
Shows(c) == IF c.active /\ c.visible THEN <<c.origin, c.at>> ELSE Hidden

LEMMA CommitFacts ==
  ASSUME NEW r \in State, MaxCols \in Nat \ {0}
  PROVE  /\ Changes(r, CommitCursor(r), {"plane"})
         /\ CommitCursor(r).plane = IF HardwareCursor THEN Shows(r.cursor) ELSE r.plane
  <1> DEFINE p == Shows(r.cursor)
             q == [r EXCEPT !.plane = p]
  <1>1. CommitCursor(r) = IF HardwareCursor THEN q ELSE r
    BY DEF CommitCursor, Shows
  <1>2. p \in Planes
    <2>1. r.cursor.origin \in Origin /\ r.cursor.at \in 0..MaxCols
      BY DEF State, Cursors
    <2> QED
      BY <2>1, OriginFacts DEF Shows
  <1> HIDE DEF p
  <1>3. Changes(r, q, {"plane"}) /\ q.plane = p
    BY <1>2 DEF Changes, State, Field
  <1> HIDE DEF q
  <1> QED
    BY <1>1, <1>3, ChangesNothing DEF p

LEMMA ClearFacts ==
  ASSUME NEW r \in State, MaxCols \in Nat \ {0}
  PROVE  Changes(r, ClearCursor(r), {"plane"}) /\ ClearCursor(r).plane = Hidden
  <1> DEFINE p == Hidden
             q == [r EXCEPT !.plane = p]
  <1>1. q = ClearCursor(r)
    BY DEF ClearCursor
  <1>2. p \in Planes
    BY OriginFacts
  <1> HIDE DEF p
  <1>3. Changes(r, q, {"plane"}) /\ q.plane = p
    BY <1>2 DEF Changes, State, Field
  <1> QED
    BY <1>1, <1>3 DEF p

-----------------------------------------------------------------------------
(***************************************************************************)
(* A frame.                                                                *)
(***************************************************************************)
\* The row of a screen, as the console has it.
Row(r, t) == 1..r.cols[t][Lit]
Pointed(r, t) == Under(r.pointer[t], r.cols[t][Lit])
Shown(r, t, c) == IF c \in Pointed(r, t) THEN "pointer" ELSE r.text[t][c]

\* The screen of t on Lit draws the row of the console.
Fits(r, t) ==
  /\ r.cols[t][Lit] = r.width[t] /\ r.width[t] <= Fit[r.mode[t]][Lit]
  /\ "wide" \notin use /\ "rail" \notin use

LEMMA StateFacts ==
  ASSUME NEW r \in State, NEW t \in Terminal, MaxCols \in Nat \ {0}
  PROVE  /\ r.cols[t][Lit] \in 0..MaxCols /\ r.width[t] \in Cell /\ r.mode[t] \in Mode
         /\ r.text[t] \in [Cell -> Symbol] /\ r.pointer[t] \in 0..MaxCols
         /\ Row(r, t) \subseteq Cell /\ Pointed(r, t) \subseteq Row(r, t)
  <1>1. Lit \in Display
    BY FrameAssumption
  <1>2. r.cols[t][Lit] \in 0..MaxCols
    BY <1>1 DEF State
  <1>3. /\ r.width[t] \in Cell /\ r.mode[t] \in Mode
        /\ r.text[t] \in [Cell -> Symbol] /\ r.pointer[t] \in 0..MaxCols
    BY DEF State
  <1>4. Row(r, t) \subseteq Cell
    BY <1>2 DEF Row, Cell
  <1>5. Pointed(r, t) \subseteq Row(r, t)
    BY DEF Pointed, Under, Row
  <1> QED
    BY <1>2, <1>3, <1>4, <1>5

LEMMA GlFrameFacts ==
  ASSUME NEW r \in State, NEW t \in Terminal, MaxCols \in Nat \ {0}
  PROVE  /\ GlFrame(r, t) \in Pixels
         /\ Fits(r, t) => \A c \in Row(r, t) : GlFrame(r, t)[c] = Shown(r, t, c)
  <1> DEFINE n    == r.cols[t][Lit]
             w    == r.width[t]
             row  == r.text[t]
             p    == r.pointer[t]
             room == Room(r, t)
             d    == GlDraw(GlPrepare, row, n, w, room)
             under == Under(p, n)
             over == Blend(d, under, "pointer")
             e    == GlDrawPointer(d, p, n, room)
  <1>1. n \in 0..MaxCols /\ w \in Cell /\ row \in [Cell -> Symbol] /\ p \in 0..MaxCols /\ r.mode[t] \in Mode
    BY StateFacts
  <1>2. Fit[r.mode[t]][Lit] \in Nat /\ room = Fit[r.mode[t]][Lit] * 3 + 1 /\ room \in Nat
    BY <1>1, FrameAssumption DEF Room
  <1>3. /\ GlPrepare \in GlCanvas /\ GlPrepare.quads = 0 /\ ~GlPrepare.overflow
    <2>1. Blank("page") \in [Cell -> Pixel]
      BY DEF Blank, Pixel
    <2> QED
      BY <2>1 DEF GlPrepare, GlCanvas
  <1>4. GlFrame(r, t) = e.pix
    BY DEF GlFrame
  <1>5. e = IF d.quads + Rail(n) >= room THEN d ELSE over
    BY DEF GlDrawPointer
  <1> DEFINE page == GlPrepare
  <1>6. d = GlDraw(page, row, n, w, room)
    OBVIOUS
  <1> HIDE DEF page, d, e, n, w, row, p, room
  <1>7. /\ d \in GlCanvas /\ d.quads <= n
        /\ ("wide" \notin use /\ n <= room) => \A c \in 1..n : d.pix[c] = InRow(row, c, w)
    <2>1. page \in GlCanvas /\ page.quads = 0 /\ ~page.overflow
      BY <1>3 DEF page
    <2>2. GlRowDrawn(page, GlDraw(page, row, n, w, room), row, n, w, room)
      <3>1. MaxCols \in Nat /\ n \in 0..MaxCols /\ room \in Nat
        BY <1>1, <1>2
      <3>2. page \in GlCanvas /\ row \in [Cell -> Symbol] /\ w \in Cell
        BY <1>1, <2>1
      <3> QED
        BY <3>1, <3>2, GlDrawFacts
    <2>3. GlRowDrawn(page, d, row, n, w, room)
      BY <1>6, <2>2
    <2> QED
      BY <1>1, <2>1, <2>3 DEF GlRowDrawn
  <1> HIDE DEF under
  <1>8. /\ over \in GlCanvas
        /\ \A c \in Cell : over.pix[c] = IF c \in under THEN "pointer" ELSE d.pix[c]
    <2>1. "pointer" \in Pixel
      BY DEF Pixel
    <2> QED
      BY <1>7, <2>1, GlBlend
  <1> HIDE DEF over
  <1>9. e.pix \in Pixels
    BY <1>5, <1>7, <1>8 DEF GlCanvas, Pixels
  <1>10. ASSUME Fits(r, t), NEW c \in 1..n
         PROVE  e.pix[c] = IF c \in under THEN "pointer" ELSE row[c]
    <2>1. n = w /\ w <= Fit[r.mode[t]][Lit] /\ "wide" \notin use /\ Rail(n) = 0
      BY <1>10 DEF Fits, n, w, Rail
    <2>2. d.quads \in Nat
      BY <1>7 DEF GlCanvas
    <2>3. n <= room /\ ~(d.quads + Rail(n) >= room)
      BY <1>1, <1>2, <1>7, <2>1, <2>2
    <2>4. d.pix[c] = row[c]
      BY <1>1, <1>7, <2>1, <2>3 DEF InRow
    <2>5. c \in Cell
      BY <1>1 DEF Cell
    <2> QED
      BY <1>5, <1>8, <2>3, <2>4, <2>5
  <1> QED
    BY <1>4, <1>9, <1>10 DEF n, row, under, p, Row, Shown, Pointed

\* The next frame of bbulk is drawn from scratch.
Scratch(r, t) == ~r.known[t] \/ r.need \/ r.redraw[t] > 0

LEMMA RendererType ==
  ASSUME NEW r \in State, NEW t \in Terminal
  PROVE  /\ Renderer(r, t) \in Canvas /\ 1 - r.front \in {0, 1}
         /\ Renderer(r, t).cells = r.cells[t] /\ Renderer(r, t).damaged = r.damaged[t]
         /\ Renderer(r, t).wide = r.wide[t] /\ Renderer(r, t).redraw = r.redraw[t]
         /\ Renderer(r, t).pix = r.buf[1 - r.front]
  <1>1. 1 - r.front \in {0, 1}
    BY DEF State
  <1>2. /\ r.cells[t] \in [Cell -> Cached] /\ r.damaged[t] \in SUBSET Cell
        /\ r.wide[t] \in SUBSET Cell /\ r.redraw[t] \in 0..2
        /\ r.buf[1 - r.front] \in [Cell -> Pixel]
    BY <1>1 DEF State, Pixels
  <1> QED
    BY <1>1, <1>2 DEF Renderer, Canvas

LEMMA PrepareFacts ==
  ASSUME NEW r \in State, NEW t \in Terminal
  PROVE  /\ Prepare(r, t) \in Canvas /\ Prepare(r, t).wide = r.wide[t]
         /\ Prepare(r, t).redraw = (IF ~r.known[t] \/ r.need THEN 1
                                    ELSE IF r.redraw[t] > 0 THEN r.redraw[t] - 1 ELSE 0)
         /\ Scratch(r, t) => /\ \A c \in Cell : Prepare(r, t).cells[c] = "damaged"
                             /\ Prepare(r, t).damaged = Cell
         /\ ~Scratch(r, t) /\ r.blob = NoBlob => Prepare(r, t) = Renderer(r, t)
  <1> DEFINE s == Renderer(r, t)
             n == IF ~r.known[t] \/ r.need THEN 2 ELSE s.redraw
             page == [s EXCEPT !.pix = Blank("page"), !.redraw = n - 1]
             all == Cell
             p == Prepare(r, t)
  <1>1. p = IF n > 0 THEN DamageCells(page, all)
            ELSE IF r.blob # NoBlob THEN DamageCells(s, s.damaged) ELSE s
    BY DEF Prepare
  <1>2. /\ s \in Canvas /\ s.wide = r.wide[t] /\ s.redraw = r.redraw[t]
    BY RendererType
  <1>3. r.redraw[t] \in 0..2
    BY DEF State
  <1>4. n > 0 <=> Scratch(r, t)
    BY <1>2, <1>3 DEF Scratch
  <1>5. n > 0 => n - 1 \in 0..2
    BY <1>2, <1>3
  <1>6. n - 1 = (IF ~r.known[t] \/ r.need THEN 1 ELSE r.redraw[t] - 1)
    BY <1>2, <1>3
  <1> HIDE DEF s, n
  <1>7. n > 0 => page \in Canvas /\ page.wide = s.wide /\ page.redraw = n - 1
    <2>1. Blank("page") \in [Cell -> Pixel]
      BY DEF Blank, Pixel
    <2> QED
      BY <1>2, <1>5, <2>1 DEF Canvas
  <1>8. s.damaged \in SUBSET Cell
    BY <1>2 DEF Canvas
  <1> HIDE DEF page, all, p
  <1>9. CASE n > 0
    <2>1. all = Cell /\ all \in SUBSET Cell
      BY DEF all
    <2>2. p = DamageCells(page, all)
      BY <1>1, <1>9
    <2>3. /\ DamageCells(page, all) \in Canvas
          /\ \A c \in Cell :
               DamageCells(page, all).cells[c] = IF c \in all THEN "damaged" ELSE page.cells[c]
          /\ DamageCells(page, all).damaged = page.damaged \cup all
          /\ DamageCells(page, all).wide = page.wide /\ DamageCells(page, all).redraw = page.redraw
      BY <1>7, <1>9, <2>1, DamageType
    <2>4. page.damaged \in SUBSET Cell
      BY <1>7, <1>9 DEF Canvas
    <2>5. p.damaged = Cell /\ \A c \in Cell : p.cells[c] = "damaged"
      BY <2>1, <2>2, <2>3, <2>4
    <2>6. p \in Canvas /\ p.wide = r.wide[t] /\ p.redraw = n - 1
      BY <1>2, <1>7, <1>9, <2>2, <2>3
    <2>7. r.redraw[t] > 0 \/ ~r.known[t] \/ r.need
      BY <1>4, <1>9 DEF Scratch
    <2> QED
      BY <1>4, <1>6, <1>9, <2>5, <2>6, <2>7 DEF p
  <1>10. CASE ~(n > 0)
    <2>1. ~Scratch(r, t)
      BY <1>4, <1>10
    <2>2. r.known[t] /\ ~r.need /\ r.redraw[t] = 0
      BY <1>3, <2>1 DEF Scratch
    <2> DEFINE old == s.damaged
    <2>3. old \in SUBSET Cell
      BY <1>8
    <2>4. p = IF r.blob # NoBlob THEN DamageCells(s, old) ELSE s
      BY <1>1, <1>10
    <2> HIDE DEF old
    <2>5. /\ DamageCells(s, old) \in Canvas
          /\ DamageCells(s, old).wide = s.wide /\ DamageCells(s, old).redraw = s.redraw
      BY <1>2, <2>3, DamageType
    <2>6. p \in Canvas /\ p.wide = r.wide[t] /\ p.redraw = 0
      BY <1>2, <2>2, <2>4, <2>5
    <2> QED
      BY <2>1, <2>2, <2>4, <2>6 DEF p, s
  <1> QED
    BY <1>9, <1>10
\* The frame of bbulk.
Drawn(r, t) ==
  DrawPointer(Draw(Prepare(r, t), r.text[t], r.cols[t][Lit], r.width[t]),
              r.pointer[t], r.cols[t][Lit])

LEMMA DrawPointerFacts ==
  ASSUME NEW s \in Canvas, NEW p, NEW n, Under(p, n) \subseteq Cell
  PROVE  /\ DrawPointer(s, p, n) \in Canvas
         /\ DrawPointer(s, p, n).wide = s.wide /\ DrawPointer(s, p, n).redraw = s.redraw
         /\ DrawPointer(s, p, n).damaged = s.damaged \cup Under(p, n)
         /\ \A c \in Under(p, n) : /\ DrawPointer(s, p, n).pix[c] = "pointer"
                                   /\ DrawPointer(s, p, n).cells[c] = "damaged"
         /\ \A c \in Cell \ Under(p, n) : /\ DrawPointer(s, p, n).pix[c] = s.pix[c]
                                          /\ DrawPointer(s, p, n).cells[c] = s.cells[c]
  <1> DEFINE C == Under(p, n)
             m == DamageCells(s, C)
             q == Blend(m, C, "pointer")
  <1>1. DrawPointer(s, p, n) = q
    BY DEF DrawPointer
  <1> HIDE DEF C
  <1>2. C \in SUBSET Cell
    BY DEF C
  <1>3. /\ m \in Canvas /\ m.wide = s.wide /\ m.redraw = s.redraw /\ m.pix = s.pix
        /\ m.damaged = s.damaged \cup C
        /\ \A c \in Cell : m.cells[c] = IF c \in C THEN "damaged" ELSE s.cells[c]
    BY <1>2, DamageType
  <1> HIDE DEF m
  <1>4. "pointer" \in Pixel
    BY DEF Pixel
  <1>5. /\ q \in Canvas /\ q.cells = m.cells /\ q.damaged = m.damaged
        /\ q.wide = m.wide /\ q.redraw = m.redraw
        /\ \A c \in Cell : q.pix[c] = IF c \in C THEN "pointer" ELSE m.pix[c]
    BY <1>3, <1>4, BlendType
  <1> HIDE DEF q
  <1>6. /\ \A c \in C : q.pix[c] = "pointer" /\ q.cells[c] = "damaged"
        /\ \A c \in Cell \ C : q.pix[c] = s.pix[c] /\ q.cells[c] = s.cells[c]
    BY <1>2, <1>3, <1>5
  <1> QED
    BY <1>1, <1>3, <1>5, <1>6 DEF C

LEMMA DrawnFacts ==
  ASSUME NEW r \in State, NEW t \in Terminal, MaxCols \in Nat \ {0}
  PROVE  /\ Drawn(r, t) \in Canvas
         /\ Drawn(r, t).redraw = (IF ~r.known[t] \/ r.need THEN 1
                                  ELSE IF r.redraw[t] > 0 THEN r.redraw[t] - 1 ELSE 0)
         /\ Fits(r, t) /\ r.wide[t] = {} =>
              /\ Drawn(r, t).wide = {}
              /\ \A c \in Pointed(r, t) : /\ Drawn(r, t).pix[c] = "pointer"
                                          /\ Drawn(r, t).cells[c] = "damaged"
                                          /\ c \in Drawn(r, t).damaged
              /\ \A c \in Row(r, t) \ Pointed(r, t) :
                   /\ Drawn(r, t).cells[c] = r.text[t][c]
                   /\ Scratch(r, t) => /\ Drawn(r, t).pix[c] = r.text[t][c]
                                       /\ c \in Drawn(r, t).damaged
                   /\ ~Scratch(r, t) /\ r.blob = NoBlob =>
                        CellDrawn(Renderer(r, t), Drawn(r, t), r.text[t][c], c)
              /\ \A c \in Cell \ Row(r, t) :
                   Drawn(r, t).cells[c] \in {"damaged", Prepare(r, t).cells[c]}
  <1> DEFINE n == r.cols[t][Lit]
             w == r.width[t]
             row == r.text[t]
             p == r.pointer[t]
             a == Prepare(r, t)
             b == Draw(a, row, n, w)
             d == DrawPointer(b, p, n)
  <1>1. Drawn(r, t) = d
    BY DEF Drawn
  <1>2. n \in 0..MaxCols /\ w \in Cell /\ row \in [Cell -> Symbol] /\ MaxCols \in Nat
    BY StateFacts
  <1>3. Row(r, t) = 1..n /\ Pointed(r, t) = Under(p, n) /\ 1..n \subseteq Cell /\ Under(p, n) \subseteq 1..n
    BY StateFacts DEF Row, Pointed
  <1>4. a \in Canvas /\ a.wide = r.wide[t]
    BY PrepareFacts
  <1>5. a.redraw = (IF ~r.known[t] \/ r.need THEN 1
                    ELSE IF r.redraw[t] > 0 THEN r.redraw[t] - 1 ELSE 0)
    BY PrepareFacts
  <1>6. Scratch(r, t) => a.damaged = Cell /\ \A c \in Cell : a.cells[c] = "damaged"
    BY PrepareFacts
  <1>7. ~Scratch(r, t) /\ r.blob = NoBlob => a = Renderer(r, t)
    BY PrepareFacts
  <1> HIDE DEF a, n, w, row, p
  <1>8. CellsDrawn(a, b, row, w, 1..n)
    BY <1>2, <1>4, DrawFacts
  <1> HIDE DEF b
  <1>9. /\ d \in Canvas /\ d.wide = b.wide /\ d.redraw = b.redraw
        /\ d.damaged = b.damaged \cup Under(p, n)
        /\ \A c \in Under(p, n) : d.pix[c] = "pointer" /\ d.cells[c] = "damaged"
        /\ \A c \in Cell \ Under(p, n) : d.pix[c] = b.pix[c] /\ d.cells[c] = b.cells[c]
    <2>1. b \in Canvas
      BY <1>8 DEF CellsDrawn
    <2>2. Under(p, n) \subseteq Cell
      BY <1>3
    <2> QED
      BY <2>1, <2>2, DrawPointerFacts
  <1> HIDE DEF d
  <1>10. d.redraw = a.redraw
    BY <1>8, <1>9 DEF CellsDrawn
  <1>11. ASSUME Fits(r, t), r.wide[t] = {}
         PROVE  /\ d.wide = {}
                /\ \A c \in 1..n : CellDrawn(a, b, row[c], c)
                /\ \A c \in Cell \ (1..n) : CellSame(a, b, c)
    <2>1. Narrow(a) /\ n = w
      BY <1>4, <1>11 DEF Narrow, Fits, n, w
    <2>2. /\ b.wide = {} /\ \A c \in 1..n : CellDrawn(a, b, InRow(row, c, w), c)
          /\ \A c \in Cell \ (1..n) : CellSame(a, b, c)
      BY <1>8, <2>1 DEF CellsDrawn
    <2>3. \A c \in 1..n : InRow(row, c, w) = row[c]
      BY <1>2, <2>1 DEF InRow
    <2> QED
      BY <1>9, <2>2, <2>3
  <1>12. ASSUME Fits(r, t), r.wide[t] = {}, NEW c \in (1..n) \ Under(p, n)
         PROVE  /\ d.cells[c] = row[c]
                /\ Scratch(r, t) => d.pix[c] = row[c] /\ c \in d.damaged
                /\ ~Scratch(r, t) /\ r.blob = NoBlob => CellDrawn(Renderer(r, t), d, row[c], c)
    <2>1. c \in Cell \ Under(p, n) /\ CellDrawn(a, b, row[c], c)
      BY <1>3, <1>11, <1>12
    <2>2. d.pix[c] = b.pix[c] /\ d.cells[c] = b.cells[c] /\ (c \in d.damaged <=> c \in b.damaged)
      BY <1>9, <2>1
    <2>3. CellDrawn(a, d, row[c], c)
      BY <2>1, <2>2 DEF CellDrawn
    <2>4. d.cells[c] = row[c]
      BY <2>3 DEF CellDrawn
    <2>5. row[c] # "damaged"
      BY <1>2, <2>1, SymbolFacts
    <2>6. ASSUME Scratch(r, t) PROVE d.pix[c] = row[c] /\ c \in d.damaged
      BY <1>6, <2>1, <2>3, <2>5, <2>6 DEF CellDrawn
    <2> QED
      BY <1>7, <2>3, <2>4, <2>6
  <1>13. ASSUME Fits(r, t), r.wide[t] = {}, NEW c \in Cell \ (1..n)
         PROVE  d.cells[c] \in {"damaged", a.cells[c]}
    <2>1. c \in Cell \ Under(p, n) /\ CellSame(a, b, c)
      BY <1>3, <1>11, <1>13
    <2> QED
      BY <1>9, <2>1 DEF CellSame
  <1>14. \A c \in Under(p, n) : c \in d.damaged
    BY <1>9
  <1> QED
    BY <1>1, <1>3, <1>5, <1>9, <1>10, <1>11, <1>12, <1>13, <1>14 DEF row, a
Hurt(r, t) == Damage(r, Drawn(r, t), r.cols[t][Lit])

LEMMA HurtFacts ==
  ASSUME NEW r \in State, NEW t \in Terminal, MaxCols \in Nat \ {0}
  PROVE  /\ Hurt(r, t) \in Blobs
         /\ r.need /\ r.blob = NoBlob => Hurt(r, t) = NoBlob
         /\ r.blob = NoBlob => \/ Hurt(r, t) = NoBlob
                               \/ ~r.need /\ Hurt(r, t) = Drawn(r, t).damaged \cap Row(r, t)
  <1>1. Drawn(r, t).damaged \in SUBSET Cell
    BY DrawnFacts DEF Canvas
  <1>2. r.blob \in Blobs
    BY DEF State
  <1> QED
    BY <1>1, <1>2 DEF Hurt, Damage, Blobs, Row

RedrawField ==
  {"cells", "damaged", "wide", "redraw", "known", "buf", "blob", "pending", "swapping",
   "front", "vsync", "need", "glass", "plane"}

\* The screen of t was redrawn: what becomes of its flip and of the buffers.
Redrawn(r, q, t) ==
  /\ Changes(r, q, RedrawField)
  /\ t \notin r.awake => q = r
  /\ t \in r.awake =>
       /\ q.vsync = TRUE /\ q.pending = r.pending \ {t} /\ q.swapping = r.swapping \cup {t}
       /\ q.buf[r.front] = r.buf[r.front]
       /\ r.vsync => /\ q.front = r.front /\ q.need = r.need /\ q.glass = r.glass
                     /\ q.plane = r.plane
       /\ ~r.vsync => /\ q.need = FALSE
                      /\ q.plane = IF HardwareCursor THEN Shows(r.cursor) ELSE r.plane
       /\ gl => /\ q.buf = r.buf
                /\ ~r.vsync => q.glass = GlFrame(r, t)

\* What bbulk did.
BulkRedrawn(r, q, t) ==
  /\ \A u \in Terminal \ {t} : q.wide[u] = r.wide[u]
  /\ q.cells[t] = Drawn(r, t).cells /\ q.damaged[t] = Drawn(r, t).damaged
  /\ q.wide[t] = Drawn(r, t).wide /\ q.redraw[t] = Drawn(r, t).redraw /\ q.known[t] = TRUE
  /\ q.buf[1 - r.front] = Drawn(r, t).pix
  /\ r.vsync => q.blob = Hurt(r, t)
  /\ ~r.vsync => /\ q.blob = NoBlob /\ q.front = 1 - r.front
                 /\ \A c \in Cell : q.glass[c] = IF Hurt(r, t) = NoBlob \/ c \in Hurt(r, t)
                                                 THEN Drawn(r, t).pix[c] ELSE r.glass[c]

LEMMA GlRedrawFacts ==
  ASSUME NEW r \in State, NEW t \in Terminal, MaxCols \in Nat \ {0}, t \in r.awake, gl
  PROVE  Redrawn(r, GlRedraw(r, t), t)
  <1> DEFINE P == r.pending \ {t}
             S == r.swapping \cup {t}
             G == GlFrame(r, t)
             yes == TRUE
             no == FALSE
             drawn == [r EXCEPT !.pending = P, !.swapping = S]
             flip == [drawn EXCEPT !.vsync = yes, !.need = no, !.glass = G]
             q == GlRedraw(r, t)
  <1>1. q = IF r.vsync THEN drawn ELSE CommitCursor(flip)
    BY DEF GlRedraw
  <1>2. P \in SUBSET Terminal /\ S \in SUBSET Terminal /\ G \in Pixels /\ yes \in Flag /\ no \in Flag
    BY GlFrameFacts, FlagFacts DEF State
  <1> HIDE DEF P, S, G, yes, no
  <1>3. /\ Changes(r, drawn, {"pending", "swapping"})
        /\ drawn.pending = P /\ drawn.swapping = S
    BY <1>2 DEF Changes, State, Field
  <1> HIDE DEF drawn
  <1>4. drawn \in State
    BY <1>3 DEF Changes
  <1>5. /\ Changes(drawn, flip, {"vsync", "need", "glass"})
        /\ flip.vsync = yes /\ flip.need = no /\ flip.glass = G
    BY <1>2, <1>4 DEF Changes, State, Field
  <1> HIDE DEF flip
  <1>6. flip \in State
    BY <1>5 DEF Changes
  <1>7. /\ Changes(flip, CommitCursor(flip), {"plane"})
        /\ CommitCursor(flip).plane = IF HardwareCursor THEN Shows(flip.cursor) ELSE flip.plane
    BY <1>6, CommitFacts
  <1> HIDE DEF q
  <1>8. CASE r.vsync
    <2>1. q = drawn
      BY <1>1, <1>8
    <2>2. Changes(r, q, RedrawField)
      BY <1>3, <2>1 DEF Changes, RedrawField
    <2>3. /\ q.front = r.front /\ q.need = r.need /\ q.glass = r.glass
          /\ q.plane = r.plane /\ q.buf = r.buf /\ q.vsync = r.vsync
      BY <1>3, <2>1 DEF Changes, Field
    <2>4. r.vsync = TRUE
      BY <1>8 DEF State, Flag
    <2>5. q.vsync = TRUE /\ q.pending = r.pending \ {t} /\ q.swapping = r.swapping \cup {t}
      BY <1>3, <2>1, <2>3, <2>4 DEF P, S
    <2>6. q.buf[r.front] = r.buf[r.front]
      BY <2>3
    <2> QED
      BY <1>8, <2>2, <2>3, <2>5, <2>6 DEF Redrawn, q
  <1>9. CASE ~r.vsync
    <2>1. q = CommitCursor(flip)
      BY <1>1, <1>9
    <2>2. Changes(r, q, RedrawField)
      BY <1>3, <1>5, <1>7, <2>1 DEF Changes, RedrawField
    <2>3. /\ q.need = no /\ q.vsync = yes /\ q.pending = P /\ q.swapping = S
          /\ q.buf = r.buf /\ q.glass = G
      BY <1>3, <1>5, <1>7, <2>1 DEF Changes, Field
    <2>4. flip.cursor = r.cursor /\ flip.plane = r.plane
      BY <1>3, <1>5 DEF Changes, Field
    <2>5. q.vsync = TRUE /\ q.pending = r.pending \ {t} /\ q.swapping = r.swapping \cup {t}
      BY <2>3 DEF P, S, yes
    <2>6. q.buf[r.front] = r.buf[r.front] /\ q.need = FALSE /\ q.glass = GlFrame(r, t)
      BY <2>3 DEF G, no
    <2>7. q.plane = IF HardwareCursor THEN Shows(r.cursor) ELSE r.plane
      BY <1>7, <2>1, <2>4
    <2> QED
      BY <1>9, <2>2, <2>3, <2>5, <2>6, <2>7 DEF Redrawn, q
  <1> QED
    BY <1>8, <1>9
  
LEMMA BulkRedrawFacts ==
  ASSUME NEW r \in State, NEW t \in Terminal, MaxCols \in Nat \ {0}, t \in r.awake, ~gl
  PROVE  Redrawn(r, DoRedraw(r, t), t) /\ BulkRedrawn(r, DoRedraw(r, t), t)
  <1> DEFINE s == Drawn(r, t)
             hurt == Hurt(r, t)
             yes == TRUE
             no == FALSE
             C == [r.cells EXCEPT ![t] = s.cells]
             D == [r.damaged EXCEPT ![t] = s.damaged]
             W == [r.wide EXCEPT ![t] = s.wide]
             R == [r.redraw EXCEPT ![t] = s.redraw]
             K == [r.known EXCEPT ![t] = yes]
             B == [r.buf EXCEPT ![1 - r.front] = s.pix]
             P == r.pending \ {t}
             S == r.swapping \cup {t}
             drawn == [r EXCEPT !.cells = C, !.damaged = D, !.wide = W, !.redraw = R,
                                !.known = K, !.buf = B, !.blob = hurt,
                                !.pending = P, !.swapping = S]
             none == NoBlob
             f == 1 - r.front
             G == IF hurt = NoBlob THEN s.pix
                  ELSE [c \in Cell |-> IF c \in hurt THEN s.pix[c] ELSE r.glass[c]]
             flip == [drawn EXCEPT !.front = f, !.vsync = yes, !.need = no, !.blob = none,
                                   !.glass = G]
             q == DoRedraw(r, t)
  <1>1. s \in Canvas /\ hurt \in Blobs /\ 1 - r.front \in {0, 1}
    BY DrawnFacts, HurtFacts, RendererType
  <1>2. q = IF r.vsync THEN drawn ELSE CommitCursor(flip)
    <2> DEFINE old == [r EXCEPT !.cells[t] = s.cells, !.damaged[t] = s.damaged,
                         !.wide[t] = s.wide, !.redraw[t] = s.redraw, !.known[t] = TRUE,
                         !.buf[1 - r.front] = s.pix, !.blob = hurt,
                         !.pending = @ \ {t}, !.swapping = @ \cup {t}]
    <2>1. q = IF r.vsync THEN old
              ELSE CommitCursor([old EXCEPT
                     !.front = 1 - @, !.vsync = TRUE, !.need = FALSE, !.blob = NoBlob,
                     !.glass = IF hurt = NoBlob THEN s.pix
                               ELSE [c \in Cell |-> IF c \in hurt THEN s.pix[c] ELSE @[c]]])
      BY DEF DoRedraw, Drawn, Hurt
    <2>2. old = drawn
      BY DEF State
    <2> HIDE DEF old, s, hurt
    <2>3. old.front = r.front /\ old.glass = r.glass
      BY <2>2 DEF State
    <2> HIDE DEF drawn, q
    <2> QED
      BY <2>1, <2>2, <2>3
  <1>3. r.glass \in [Cell -> Pixel]
    BY DEF State, Pixels
  <1> HIDE DEF s, hurt
  <1>4. /\ s.cells \in [Cell -> Cached] /\ s.damaged \in SUBSET Cell /\ s.wide \in SUBSET Cell
        /\ s.redraw \in 0..2 /\ s.pix \in [Cell -> Pixel]
    BY <1>1 DEF Canvas
  <1>5. yes \in Flag /\ no \in Flag /\ none \in Blobs /\ G \in Pixels /\ f \in {0, 1}
    BY <1>1, <1>3, <1>4, FlagFacts, OriginFacts DEF Pixels
  <1>6. \A c \in Cell : G[c] = IF hurt = NoBlob \/ c \in hurt THEN s.pix[c] ELSE r.glass[c]
    BY <1>4
  <1> HIDE DEF yes, no, none, G
  <1>7. /\ C \in [Terminal -> [Cell -> Cached]] /\ D \in [Terminal -> SUBSET Cell]
        /\ W \in [Terminal -> SUBSET Cell] /\ R \in [Terminal -> 0..2]
        /\ K \in [Terminal -> Flag] /\ B \in [{0, 1} -> Pixels]
        /\ P \in SUBSET Terminal /\ S \in SUBSET Terminal
    <2>1. /\ C \in [Terminal -> [Cell -> Cached]] /\ D \in [Terminal -> SUBSET Cell]
          /\ W \in [Terminal -> SUBSET Cell] /\ R \in [Terminal -> 0..2]
      BY <1>4 DEF State
    <2>2. K \in [Terminal -> Flag] /\ P \in SUBSET Terminal /\ S \in SUBSET Terminal
      BY <1>5 DEF State
    <2>3. B \in [{0, 1} -> Pixels]
      BY <1>4 DEF State, Pixels
    <2> QED
      BY <2>1, <2>2, <2>3
  <1>8. /\ C[t] = s.cells /\ D[t] = s.damaged /\ W[t] = s.wide /\ R[t] = s.redraw /\ K[t] = yes
        /\ B[1 - r.front] = s.pix /\ B[r.front] = r.buf[r.front]
        /\ \A u \in Terminal \ {t} : W[u] = r.wide[u]
    <2>1. r.front # 1 - r.front
      BY DEF State
    <2>2. B[1 - r.front] = s.pix /\ B[r.front] = r.buf[r.front]
      BY <1>1, <2>1 DEF State
    <2> QED
      BY <2>2 DEF State
  <1> HIDE DEF C, D, W, R, K, B, P, S, f
  <1>9. /\ drawn \in State
        /\ Changes(r, drawn, RedrawField)
        /\ drawn.vsync = r.vsync /\ drawn.need = r.need /\ drawn.front = r.front
        /\ drawn.glass = r.glass /\ drawn.plane = r.plane /\ drawn.cursor = r.cursor
    <2>1. drawn \in State
      BY <1>1, <1>7 DEF State
    <2> QED
      BY <2>1 DEF State, Changes, Field, RedrawField
  <1>10. /\ drawn.cells = C /\ drawn.damaged = D /\ drawn.wide = W /\ drawn.redraw = R
         /\ drawn.known = K /\ drawn.buf = B /\ drawn.blob = hurt
         /\ drawn.pending = P /\ drawn.swapping = S
    BY DEF State
  <1> HIDE DEF drawn
  <1>11. /\ Changes(drawn, flip, {"front", "vsync", "need", "blob", "glass"})
         /\ flip.front = f /\ flip.vsync = yes /\ flip.need = no /\ flip.blob = none
         /\ flip.glass = G
    BY <1>5, <1>9 DEF Changes, State, Field
  <1> HIDE DEF flip
  <1>12. flip \in State
    BY <1>11 DEF Changes
  <1>13. /\ Changes(flip, CommitCursor(flip), {"plane"})
         /\ CommitCursor(flip).plane = IF HardwareCursor THEN Shows(flip.cursor) ELSE flip.plane
    BY <1>12, CommitFacts
  <1> HIDE DEF q
  <1>14. CASE r.vsync
    <2>1. q = drawn
      BY <1>2, <1>14
    <2>2. r.vsync = TRUE
      BY <1>14 DEF State, Flag
    <2>3. Redrawn(r, q, t)
      BY <1>8, <1>9, <1>10, <1>14, <2>1, <2>2 DEF Redrawn, P, S
    <2>4. BulkRedrawn(r, q, t)
      BY <1>8, <1>10, <1>14, <2>1 DEF BulkRedrawn, s, hurt, yes
    <2> QED
      BY <2>3, <2>4 DEF q
  <1>15. CASE ~r.vsync
    <2>1. q = CommitCursor(flip)
      BY <1>2, <1>15
    <2>2. Changes(r, q, RedrawField)
      <3>1. Changes(drawn, q, RedrawField)
        BY <1>11, <1>13, <2>1 DEF Changes, RedrawField
      <3> QED
        BY <1>9, <3>1, ChangesBoth
    <2>3. /\ q.front = f /\ q.vsync = yes /\ q.need = no /\ q.blob = none /\ q.glass = G
      BY <1>11, <1>13, <2>1 DEF Changes, Field
    <2>4. /\ q.cells = C /\ q.damaged = D /\ q.wide = W /\ q.redraw = R
          /\ q.known = K /\ q.buf = B /\ q.pending = P /\ q.swapping = S
      BY <1>10, <1>11, <1>13, <2>1 DEF Changes, Field
    <2>5. q.plane = IF HardwareCursor THEN Shows(r.cursor) ELSE r.plane
      <3>1. flip.cursor = r.cursor /\ flip.plane = r.plane
        BY <1>9, <1>11 DEF Changes, Field
      <3> QED
        BY <1>13, <2>1, <3>1
    <2>6. Redrawn(r, q, t)
      BY <1>8, <1>15, <2>2, <2>3, <2>4, <2>5 DEF Redrawn, P, S, yes, no
    <2>7. BulkRedrawn(r, q, t)
      BY <1>6, <1>8, <1>15, <2>3, <2>4 DEF BulkRedrawn, s, hurt, yes, none, f
    <2> QED
      BY <2>6, <2>7 DEF q
  <1> QED
    BY <1>14, <1>15

LEMMA DoRedrawFacts ==
  ASSUME NEW r \in State, NEW t \in Terminal, MaxCols \in Nat \ {0}
  PROVE  /\ Redrawn(r, DoRedraw(r, t), t)
         /\ t \in r.awake /\ ~gl => BulkRedrawn(r, DoRedraw(r, t), t)
  <1>1. CASE t \notin r.awake
    <2>1. DoRedraw(r, t) = r
      BY <1>1 DEF DoRedraw
    <2> QED
      BY <1>1, <2>1, ChangesNothing DEF Redrawn
  <1>2. CASE t \in r.awake /\ gl
    <2>1. DoRedraw(r, t) = GlRedraw(r, t)
      BY <1>2 DEF DoRedraw
    <2> QED
      BY <1>2, <2>1, GlRedrawFacts
  <1>3. CASE t \in r.awake /\ ~gl
    BY <1>3, BulkRedrawFacts
  <1> QED
    BY <1>1, <1>2, <1>3
\* redraw_all: nothing while the terminal sleeps, later while a flip is
\* outstanding, or now.
RedrawnAll(r, q, t) ==
  \/ t \notin r.awake /\ q = r
  \/ /\ t \in r.awake /\ t \in r.swapping
     /\ Changes(r, q, {"pending"}) /\ q.pending = r.pending \cup {t}
  \/ /\ t \in r.awake /\ t \notin r.swapping
     /\ Redrawn(r, q, t) /\ (~gl => BulkRedrawn(r, q, t))

LEMMA RedrawAllFacts ==
  ASSUME NEW r \in State, NEW t \in Terminal, MaxCols \in Nat \ {0}
  PROVE  /\ RedrawnAll(r, RedrawAll(r, t), t)
         /\ Changes(r, RedrawAll(r, t), RedrawField)
  <1> DEFINE P == r.pending \cup {t}
             later == [r EXCEPT !.pending = P]
             now == DoRedraw(r, t)
             q == RedrawAll(r, t)
  <1>1. q = IF t \notin r.awake THEN r ELSE IF t \in r.swapping THEN later ELSE now
    BY DEF RedrawAll
  <1>2. P \in SUBSET Terminal
    BY DEF State
  <1> HIDE DEF P
  <1>3. Changes(r, later, {"pending"}) /\ later.pending = P
    BY <1>2 DEF Changes, State, Field
  <1>4. Redrawn(r, now, t) /\ (t \in r.awake /\ ~gl => BulkRedrawn(r, now, t))
    BY DoRedrawFacts
  <1> HIDE DEF later, now, q
  <1>5. Changes(r, r, RedrawField)
    BY ChangesNothing
  <1>6. Changes(r, later, RedrawField)
    BY <1>3 DEF Changes, RedrawField
  <1>7. Changes(r, now, RedrawField)
    BY <1>4 DEF Redrawn
  <1> QED
    BY <1>1, <1>3, <1>4, <1>5, <1>6, <1>7 DEF RedrawnAll, P, q
-----------------------------------------------------------------------------
(***************************************************************************)
(* Sizes.                                                                  *)
(***************************************************************************)
SizeField == {"mode", "plugged", "width", "cols", "open"}

LEMMA SmallestFacts ==
  ASSUME NEW r \in State, NEW t \in Terminal, r.plugged # {}, MaxCols \in Nat \ {0}
  PROVE  /\ Smallest(r, t) \in Cell
         /\ \A d \in r.plugged : Smallest(r, t) <= Fit[r.mode[t]][d]
  <1> DEFINE S == {Fit[r.mode[t]][d] : d \in r.plugged}
             least == Min(S)
  <1>1. r.mode[t] \in Mode /\ r.plugged \subseteq Display
    BY DEF State
  <1>2. \A d \in r.plugged : Fit[r.mode[t]][d] \in Cell
    BY <1>1, CellFacts
  <1>3. S \in SUBSET Nat /\ S # {} /\ S \subseteq Cell
    BY <1>2 DEF Cell
  <1>4. Smallest(r, t) = least
    BY DEF Smallest
  <1>5. \A d \in r.plugged : Fit[r.mode[t]][d] \in S
    OBVIOUS
  <1> HIDE DEF S
  <1>6. least \in S /\ \A m \in S : least <= m
    BY <1>3, MinIs
  <1> QED
    BY <1>3, <1>4, <1>5, <1>6

LEMMA MisplacedFacts ==
  ASSUME NEW r \in State
  PROVE  /\ Changes(r, Misplaced(r), {"buf", "glass"})
         /\ gl => Misplaced(r).buf = r.buf
  <1> DEFINE B == [b \in {0, 1} |-> IF gl THEN r.buf[b] ELSE Blank("junk")]
             G == Blank("junk")
             q == [r EXCEPT !.buf = B, !.glass = G]
  <1>1. q = Misplaced(r)
    BY DEF Misplaced
  <1>2. G \in Pixels
    BY DEF Blank, Pixels, Pixel
  <1>3. r.buf \in [{0, 1} -> Pixels]
    BY DEF State
  <1>4. B \in [{0, 1} -> Pixels]
    BY <1>2, <1>3
  <1>5. gl => B = r.buf
    BY <1>3
  <1> HIDE DEF B, G
  <1>6. Changes(r, q, {"buf", "glass"}) /\ q.buf = B
    BY <1>2, <1>4 DEF Changes, State, Field
  <1> QED
    BY <1>1, <1>5, <1>6

\* The screens of t have the size in q, which was given r.
Resized(r, q, t, size) ==
  /\ Changes(r, q, {"buf", "glass", "cols", "redraw", "cursor"})
  /\ \A u \in Terminal \ {t} : q.cols[u] = r.cols[u]
  /\ \A d \in Display : q.cols[t][d] = IF d \in r.plugged /\ size <= Fit[r.mode[t]][d]
                                       THEN size ELSE r.cols[t][d]
  /\ q.redraw[t] = 2 /\ \A u \in Terminal \ {t} : q.redraw[u] = r.redraw[u]
  /\ gl => q.buf = r.buf
  /\ t \notin r.awake \/ r.cols[t][Lit] = size => q.buf = r.buf /\ q.glass = r.glass
  /\ q.cursor = [r.cursor EXCEPT !.origin = Border(r.mode[t], q.cols[t][Lit])]

LEMMA ResizeFacts ==
  ASSUME NEW r \in State, NEW t \in Terminal, NEW size \in Cell, MaxCols \in Nat \ {0}
  PROVE  Resized(r, Resize(r, t, size), t, size)
  <1> DEFINE kept == t \notin r.awake \/ r.cols[t][Lit] = size
             m == IF kept THEN r ELSE Misplaced(r)
             row == [d \in Display |-> IF d \in r.plugged /\ size <= Fit[r.mode[t]][d]
                                       THEN size ELSE r.cols[t][d]]
             C == [r.cols EXCEPT ![t] = row]
             R == [r.redraw EXCEPT ![t] = 2]
             n == [m EXCEPT !.cols = C, !.redraw = R]
             q == SetCursorOffset(n, t)
  <1>1. Lit \in Display /\ size \in 0..MaxCols
    BY FrameAssumption DEF Cell
  <1>2. /\ Changes(r, m, {"buf", "glass"}) /\ (gl => m.buf = r.buf)
        /\ kept => m.buf = r.buf /\ m.glass = r.glass
    BY MisplacedFacts, ChangesNothing
  <1> HIDE DEF kept
  <1>3. m.cols = r.cols /\ m.redraw = r.redraw /\ m \in State
    BY <1>2 DEF Changes, Field
  <1>4. m = IF t \in r.awake /\ r.cols[t][Lit] # size THEN Misplaced(r) ELSE r
    BY DEF kept
  <1> HIDE DEF m
  <1>5. row = TextResize(r, t, size, r.plugged)
    BY DEF TextResize
  <1>6. q = Resize(r, t, size)
    <2> DEFINE a == [m EXCEPT !.cols[t] = row]
    <2>1. Resize(r, t, size) = BbulkResize(a, t)
      BY <1>4, <1>5 DEF Resize
    <2>2. BbulkResize(a, t) = SetCursorOffset([a EXCEPT !.redraw[t] = 2], t)
      BY DEF BbulkResize
    <2> HIDE DEF row
    <2>3. [a EXCEPT !.redraw[t] = 2] = n
      BY <1>3 DEF State
    <2> QED
      BY <2>1, <2>2, <2>3
  <1>7. C \in [Terminal -> [Display -> 0..MaxCols]] /\ R \in [Terminal -> 0..2]
    <2>1. r.cols[t] \in [Display -> 0..MaxCols]
      BY DEF State
    <2>2. row \in [Display -> 0..MaxCols]
      BY <1>1, <2>1
    <2> HIDE DEF row
    <2> QED
      BY <2>2 DEF State
  <1>8. /\ C[t] = row /\ \A u \in Terminal \ {t} : C[u] = r.cols[u]
        /\ R[t] = 2 /\ \A u \in Terminal \ {t} : R[u] = r.redraw[u]
    <2> HIDE DEF row
    <2> QED
      BY DEF State
  <1> HIDE DEF C, R
  <1>9. Changes(m, n, {"cols", "redraw"}) /\ n.cols = C /\ n.redraw = R
    BY <1>3, <1>7 DEF Changes, State, Field
  <1> HIDE DEF n
  <1>10. n \in State
    BY <1>9 DEF Changes
  <1>11. /\ Changes(n, q, {"cursor"})
         /\ q.cursor = [n.cursor EXCEPT !.origin = Border(n.mode[t], n.cols[t][Lit])]
    BY <1>1, <1>10, OffsetFacts
  <1> HIDE DEF q
  <1>12. /\ q.cols = C /\ q.redraw = R /\ q.buf = m.buf /\ q.glass = m.glass
         /\ n.cursor = r.cursor /\ n.mode = r.mode /\ n.cols = C
    BY <1>2, <1>9, <1>11 DEF Changes, Field
  <1>13. Changes(r, q, {"buf", "glass", "cols", "redraw", "cursor"})
    BY <1>2, <1>9, <1>11 DEF Changes
  <1>14. \A d \in Display : q.cols[t][d] = IF d \in r.plugged /\ size <= Fit[r.mode[t]][d]
                                           THEN size ELSE r.cols[t][d]
    BY <1>8, <1>12
  <1>15. q.cursor = [r.cursor EXCEPT !.origin = Border(r.mode[t], q.cols[t][Lit])]
    BY <1>11, <1>12
  <1>16. kept => q.buf = r.buf /\ q.glass = r.glass
    BY <1>2, <1>12
  <1> HIDE DEF row
  <1>17. /\ \A u \in Terminal \ {t} : q.cols[u] = r.cols[u]
         /\ q.redraw[t] = 2 /\ \A u \in Terminal \ {t} : q.redraw[u] = r.redraw[u]
         /\ gl => q.buf = r.buf
    BY <1>2, <1>8, <1>12
  <1> QED
    BY <1>6, <1>13, <1>14, <1>15, <1>16, <1>17 DEF Resized, kept
\* The screens of an open terminal are as large as the terminal.
SizeOk(r, t) ==
  /\ r.width[t] = Smallest(r, t)
  /\ "turn" \notin use => \A d \in r.plugged : r.cols[t][d] = r.width[t]

LEMMA SizeSame ==
  ASSUME NEW r, NEW q, NEW F, Changes(r, q, F), F \cap SizeField = {}
  PROVE  /\ q.mode = r.mode /\ q.plugged = r.plugged /\ q.width = r.width
         /\ q.cols = r.cols /\ q.open = r.open
         /\ \A t : Smallest(q, t) = Smallest(r, t)
         /\ \A t : SizeOk(q, t) <=> SizeOk(r, t)
  <1>1. /\ q.mode = r.mode /\ q.plugged = r.plugged /\ q.width = r.width
        /\ q.cols = r.cols /\ q.open = r.open
    BY DEF Changes, SizeField, Field
  <1> QED
    BY <1>1 DEF Smallest, SizeOk

\* The terminal and its screens take on the size that fits; what is drawn then
\* is left open.
Sized(r, t) == Resize([r EXCEPT !.width[t] = Smallest(r, t)], t, Smallest(r, t))

LEMMA SizedFacts ==
  ASSUME NEW r \in State, NEW t \in Terminal, Lit \in r.plugged, MaxCols \in Nat \ {0}
  PROVE  /\ Changes(r, Sized(r, t), {"width", "buf", "glass", "cols", "redraw", "cursor"})
         /\ Sized(r, t).width[t] = Smallest(r, t)
         /\ \A d \in r.plugged : Sized(r, t).cols[t][d] = Smallest(r, t)
         /\ \A u \in Terminal \ {t} : /\ Sized(r, t).width[u] = r.width[u]
                                      /\ Sized(r, t).cols[u] = r.cols[u]
                                      /\ Sized(r, t).redraw[u] = r.redraw[u]
         /\ Sized(r, t).redraw[t] = 2
         /\ gl => Sized(r, t).buf = r.buf
         /\ t \notin r.awake \/ r.cols[t][Lit] = Smallest(r, t) =>
              Sized(r, t).buf = r.buf /\ Sized(r, t).glass = r.glass
         /\ Sized(r, t).cursor = [r.cursor EXCEPT !.origin = Border(r.mode[t], Smallest(r, t))]
         /\ SizeOk(Sized(r, t), t)
  <1> DEFINE n == Smallest(r, t)
             W == [r.width EXCEPT ![t] = n]
             x == [r EXCEPT !.width = W]
             q == Resize(x, t, n)
  <1>1. n \in Cell /\ \A d \in r.plugged : n <= Fit[r.mode[t]][d]
    BY SmallestFacts
  <1>2. Sized(r, t) = q
    BY DEF Sized
  <1> HIDE DEF n
  <1>3. W \in [Terminal -> Cell] /\ W[t] = n /\ \A u \in Terminal \ {t} : W[u] = r.width[u]
    BY <1>1 DEF State
  <1> HIDE DEF W
  <1>4. Changes(r, x, {"width"}) /\ x.width = W
    BY <1>3 DEF Changes, State, Field
  <1> HIDE DEF x
  <1>5. x \in State
    BY <1>4 DEF Changes
  <1>6. Resized(x, q, t, n)
    BY <1>1, <1>5, ResizeFacts
  <1> HIDE DEF q
  <1>7. /\ x.mode = r.mode /\ x.plugged = r.plugged /\ x.cols = r.cols /\ x.redraw = r.redraw
        /\ x.buf = r.buf /\ x.glass = r.glass /\ x.cursor = r.cursor /\ x.awake = r.awake
    BY <1>4 DEF Changes, Field
  <1>8. q.mode = x.mode /\ q.plugged = x.plugged /\ q.width = x.width
    BY <1>6 DEF Resized, Changes, Field
  <1>9. Changes(r, q, {"width", "buf", "glass", "cols", "redraw", "cursor"})
    BY <1>4, <1>6 DEF Resized, Changes
  <1>10. r.plugged \subseteq Display /\ Lit \in Display
    BY DEF State
  <1>11. \A d \in r.plugged : q.cols[t][d] = n
    BY <1>1, <1>6, <1>7, <1>10 DEF Resized
  <1>12. SizeOk(q, t)
    <2>1. Smallest(q, t) = n
      BY <1>7, <1>8 DEF Smallest, n
    <2> QED
      BY <1>3, <1>4, <1>7, <1>8, <1>11, <2>1 DEF SizeOk
  <1>13. /\ q.redraw[t] = 2
         /\ \A u \in Terminal \ {t} : /\ q.width[u] = r.width[u] /\ q.cols[u] = r.cols[u]
                                      /\ q.redraw[u] = r.redraw[u]
    BY <1>3, <1>4, <1>6, <1>7, <1>8 DEF Resized
  <1>14. /\ gl => q.buf = r.buf
         /\ t \notin r.awake \/ r.cols[t][Lit] = n => q.buf = r.buf /\ q.glass = r.glass
    BY <1>6, <1>7 DEF Resized
  <1>15. q.cursor = [r.cursor EXCEPT !.origin = Border(r.mode[t], n)]
    BY <1>6, <1>7, <1>11 DEF Resized
  <1> QED
    BY <1>2, <1>3, <1>4, <1>8, <1>9, <1>11, <1>12, <1>13, <1>14, <1>15 DEF n

\* The screens of the others are as they were.
OthersSame(r, q, t) ==
  \A u \in Terminal \ {t} : q.cols[u] = r.cols[u] /\ q.redraw[u] = r.redraw[u]

LEMMA SizedOthers ==
  ASSUME NEW r \in State, NEW t \in Terminal, Lit \in r.plugged, MaxCols \in Nat \ {0}
  PROVE  OthersSame(r, Sized(r, t), t)
  <1> DEFINE s == Sized(r, t)
  <1>1. \A u \in Terminal \ {t} : s.width[u] = r.width[u] /\ s.cols[u] = r.cols[u] /\ s.redraw[u] = r.redraw[u]
    BY SizedFacts
  <1> HIDE DEF s
  <1>2. OthersSame(r, s, t)
    BY <1>1 DEF OthersSame
  <1> QED
    BY <1>2 DEF s

LEMMA UpdateSizeFacts ==
  ASSUME NEW r \in State, NEW t \in Terminal, NEW old, Lit \in r.plugged, MaxCols \in Nat \ {0}
  PROVE  /\ Smallest(r, t) = old => UpdateSize(r, t, old) = r
         /\ Smallest(r, t) # old => UpdateSize(r, t, old) = RedrawAll(Sized(r, t), t)
  BY DEF UpdateSize, Sized

\* The screens of t are new.
ScreensSet(r, q, t) ==
  /\ Changes(r, q, {"cols", "buf", "glass", "cursor",
                    "cells", "damaged", "wide", "known", "redraw"})
  /\ \A u \in Terminal \ {t} : q.cols[u] = r.cols[u]
  /\ \A d \in r.plugged : q.cols[t][d] = Fit[r.mode[t]][d]
  /\ gl => q.buf = r.buf
  /\ ~gl => ~q.known[t] /\ q.wide[t] = {}

\* The screens on D are as large as their display allows.
WithCols(r, t, D) ==
  [r EXCEPT !.cols[t] = [d \in Display |-> IF d \in D THEN Fit[r.mode[t]][d] ELSE @[d]]]

LEMMA SetCols ==
  ASSUME NEW r \in State, NEW t \in Terminal, NEW D \in SUBSET Display, MaxCols \in Nat \ {0}
  PROVE  /\ Changes(r, WithCols(r, t, D), {"cols"})
         /\ \A u \in Terminal \ {t} : WithCols(r, t, D).cols[u] = r.cols[u]
         /\ \A d \in Display : WithCols(r, t, D).cols[t][d] = IF d \in D THEN Fit[r.mode[t]][d]
                                                               ELSE r.cols[t][d]
  <1> DEFINE row == [d \in Display |-> IF d \in D THEN Fit[r.mode[t]][d] ELSE r.cols[t][d]]
             C == [r.cols EXCEPT ![t] = row]
             x == [r EXCEPT !.cols = C]
  <1>1. row \in [Display -> 0..MaxCols]
    <2>1. r.cols[t] \in [Display -> 0..MaxCols] /\ r.mode[t] \in Mode
      BY DEF State
    <2>2. \A d \in Display : Fit[r.mode[t]][d] \in 0..MaxCols
      BY <2>1, CellFacts DEF Cell
    <2> QED
      BY <2>1, <2>2
  <1>2. WithCols(r, t, D) = x
    BY DEF State, WithCols
  <1>3. \A d \in Display : row[d] = IF d \in D THEN Fit[r.mode[t]][d] ELSE r.cols[t][d]
    OBVIOUS
  <1> HIDE DEF row
  <1>4. C \in [Terminal -> [Display -> 0..MaxCols]] /\ C[t] = row
        /\ \A u \in Terminal \ {t} : C[u] = r.cols[u]
    BY <1>1 DEF State
  <1> HIDE DEF C
  <1>5. Changes(r, x, {"cols"}) /\ x.cols = C
    BY <1>4 DEF Changes, State, Field
  <1> HIDE DEF x
  <1> QED
    BY <1>2, <1>3, <1>4, <1>5

LEMMA BbulkSetFacts ==
  ASSUME NEW r \in State, NEW t \in Terminal, MaxCols \in Nat \ {0}
  PROVE  /\ Changes(r, BbulkSet(r, t), {"buf", "glass", "cursor",
                                        "cells", "damaged", "wide", "known", "redraw"})
         /\ ~BbulkSet(r, t).known[t] /\ BbulkSet(r, t).wide[t] = {}
  <1> DEFINE m == Misplaced(r)
             o == SetCursorOffset(m, t)
             no == FALSE
             blank == Blank("damaged")
             none == {}
             all == Cell
             C == [o.cells EXCEPT ![t] = blank]
             D == [o.damaged EXCEPT ![t] = all]
             W == [o.wide EXCEPT ![t] = none]
             K == [o.known EXCEPT ![t] = no]
             R == [o.redraw EXCEPT ![t] = 0]
             q == [o EXCEPT !.cells = C, !.damaged = D, !.wide = W, !.known = K, !.redraw = R]
  <1>1. Lit \in Display
    BY FrameAssumption
  <1>2. Changes(r, m, {"buf", "glass"})
    BY MisplacedFacts
  <1>3. BbulkSet(r, t) = [o EXCEPT !.cells[t] = Blank("damaged"), !.damaged[t] = Cell,
                                   !.wide[t] = {}, !.known[t] = FALSE, !.redraw[t] = 0]
    BY DEF BbulkSet
  <1> HIDE DEF m
  <1>4. m \in State
    BY <1>2 DEF Changes
  <1>5. Changes(m, o, {"cursor"})
    BY <1>1, <1>4, OffsetFacts
  <1> HIDE DEF o
  <1>6. o \in State
    BY <1>5 DEF Changes
  <1>7. BbulkSet(r, t) = q
    BY <1>3, <1>6 DEF State
  <1>8. /\ no \in Flag /\ blank \in [Cell -> Cached] /\ none \in SUBSET Cell /\ all \in SUBSET Cell
    BY FlagFacts DEF Blank, Cached
  <1> HIDE DEF no, blank, none, all
  <1>9. /\ C \in [Terminal -> [Cell -> Cached]] /\ D \in [Terminal -> SUBSET Cell]
        /\ W \in [Terminal -> SUBSET Cell] /\ K \in [Terminal -> Flag]
        /\ R \in [Terminal -> 0..2] /\ K[t] = no /\ W[t] = none
    <2>1. C \in [Terminal -> [Cell -> Cached]] /\ D \in [Terminal -> SUBSET Cell]
      BY <1>6, <1>8 DEF State
    <2>2. W \in [Terminal -> SUBSET Cell] /\ W[t] = none /\ R \in [Terminal -> 0..2]
      BY <1>6, <1>8 DEF State
    <2>3. K \in [Terminal -> Flag] /\ K[t] = no
      BY <1>6, <1>8 DEF State
    <2> QED
      BY <2>1, <2>2, <2>3
  <1> HIDE DEF C, D, W, K, R
  <1>10. /\ Changes(o, q, {"cells", "damaged", "wide", "known", "redraw"})
         /\ q.known = K /\ q.wide = W
    BY <1>6, <1>9 DEF Changes, State, Field
  <1> HIDE DEF q
  <1>11. Changes(r, q, {"buf", "glass", "cursor", "cells", "damaged", "wide", "known", "redraw"})
    BY <1>2, <1>5, <1>10 DEF Changes
  <1>12. ~q.known[t] /\ q.wide[t] = {}
    BY <1>9, <1>10 DEF no, none
  <1> QED
    BY <1>7, <1>11, <1>12
LEMMA TextSetFacts ==
  ASSUME NEW r \in State, NEW t \in Terminal, NEW D \in SUBSET Display, MaxCols \in Nat \ {0}
  PROVE  /\ Lit \notin D => TextSet(r, t, D) = WithCols(r, t, D)
         /\ Lit \in D /\ D = r.plugged => ScreensSet(r, TextSet(r, t, D), t)
  <1> DEFINE x == WithCols(r, t, D)
             q == TextSet(r, t, D)
             g == GlSet(x, t)
             b == BbulkSet(x, t)
  <1>1. q = IF Lit \notin D THEN x ELSE IF gl THEN g ELSE b
    BY DEF TextSet, WithCols
  <1>2. /\ Changes(r, x, {"cols"})
        /\ \A u \in Terminal \ {t} : x.cols[u] = r.cols[u]
        /\ \A d \in Display : x.cols[t][d] = IF d \in D THEN Fit[r.mode[t]][d] ELSE r.cols[t][d]
    BY SetCols
  <1> HIDE DEF x
  <1>3. x \in State
    BY <1>2 DEF Changes
  <1>4. gl => Changes(x, g, {"buf", "glass", "cursor"}) /\ g.buf = x.buf
    <2> SUFFICES ASSUME gl PROVE Changes(x, g, {"buf", "glass", "cursor"}) /\ g.buf = x.buf
      OBVIOUS
    <2> DEFINE m == Misplaced(x)
    <2>1. Changes(x, m, {"buf", "glass"}) /\ m.buf = x.buf
      BY <1>3, MisplacedFacts
    <2>2. g = SetCursorOffset(m, t)
      BY DEF GlSet
    <2> HIDE DEF m
    <2>3. m \in State
      BY <2>1 DEF Changes
    <2>4. Lit \in Display
      BY FrameAssumption
    <2>5. Changes(m, g, {"cursor"})
      BY <2>2, <2>3, <2>4, OffsetFacts
    <2> HIDE DEF g
    <2>6. Changes(x, g, {"buf", "glass", "cursor"})
      BY <2>1, <2>5 DEF Changes
    <2>7. g.buf = m.buf
      BY <2>5 DEF Changes, Field
    <2> QED
      BY <2>1, <2>6, <2>7
  <1>5. /\ Changes(x, b, {"buf", "glass", "cursor",
                          "cells", "damaged", "wide", "known", "redraw"})
        /\ ~b.known[t] /\ b.wide[t] = {}
    BY <1>3, BbulkSetFacts
  <1> HIDE DEF q, g, b
  <1>6. ASSUME Lit \in D, D = r.plugged PROVE ScreensSet(r, q, t)
    <2>1. x.buf = r.buf
      BY <1>2 DEF Changes, Field
    <2>2. CASE gl
      <3>1. q = g
        BY <1>1, <1>6, <2>2
      <3>2. g.cols = x.cols
        BY <1>4, <2>2 DEF Changes, Field
      <3>3. Changes(r, g, {"cols", "buf", "glass", "cursor",
                           "cells", "damaged", "wide", "known", "redraw"})
        BY <1>2, <1>4, <2>2 DEF Changes
      <3> QED
        BY <1>2, <1>4, <1>6, <2>1, <2>2, <3>1, <3>2, <3>3 DEF ScreensSet
    <2>3. CASE ~gl
      <3>1. q = b
        BY <1>1, <1>6, <2>3
      <3>2. b.cols = x.cols
        BY <1>5 DEF Changes, Field
      <3>3. Changes(r, b, {"cols", "buf", "glass", "cursor",
                           "cells", "damaged", "wide", "known", "redraw"})
        BY <1>2, <1>5 DEF Changes
      <3> QED
        BY <1>2, <1>5, <1>6, <2>3, <3>1, <3>2, <3>3 DEF ScreensSet
    <2> QED
      BY <2>2, <2>3
  <1> QED
    BY <1>1, <1>6 DEF q, x

\* The screens of t have the font and orientation m.
Refitted(r, q, t, m) ==
  /\ Changes(r, q, {"mode", "cols", "buf", "glass", "cursor",
                    "cells", "damaged", "wide", "known", "redraw"})
  /\ q.mode[t] = m
  /\ \A u \in Terminal \ {t} : q.mode[u] = r.mode[u] /\ q.cols[u] = r.cols[u]
  /\ gl => q.buf = r.buf
  /\ ~gl => ~q.known[t] /\ q.wide[t] = {}

WithMode(r, t, m) == RefreshScreens([r EXCEPT !.mode[t] = m], t)

LEMMA WithModeFacts ==
  ASSUME NEW r \in State, NEW t \in Terminal, NEW m \in Mode, Lit \in r.plugged,
         MaxCols \in Nat \ {0}
  PROVE  Refitted(r, WithMode(r, t, m), t, m)
  <1> DEFINE M == [r.mode EXCEPT ![t] = m]
             x == [r EXCEPT !.mode = M]
             D == x.plugged
             s == TextSet(x, t, D)
             q == RefreshHwCursor(s)
  <1>1. WithMode(r, t, m) = q
    BY DEF WithMode, RefreshScreens
  <1>2. M \in [Terminal -> Mode] /\ M[t] = m /\ \A u \in Terminal \ {t} : M[u] = r.mode[u]
    BY DEF State
  <1> HIDE DEF M
  <1>3. Changes(r, x, {"mode"}) /\ x.mode = M
    BY <1>2 DEF Changes, State, Field
  <1> HIDE DEF x
  <1>4. x \in State /\ D = r.plugged /\ D \in SUBSET Display /\ x.cols = r.cols /\ x.buf = r.buf
    BY <1>3 DEF Changes, State, Field
  <1>5. D = x.plugged
    OBVIOUS
  <1> HIDE DEF D
  <1>6. ScreensSet(x, s, t)
    BY <1>4, <1>5, TextSetFacts
  <1> HIDE DEF s
  <1>7. s \in State
    BY <1>6 DEF ScreensSet, Changes
  <1>8. Changes(s, q, {"cursor"})
    BY <1>7, RefreshFacts
  <1> HIDE DEF q
  <1>9. q.mode = x.mode /\ q.cols = s.cols /\ q.buf = s.buf /\ q.known = s.known /\ q.wide = s.wide
    BY <1>6, <1>8 DEF ScreensSet, Changes, Field
  <1>10. Changes(r, q, {"mode", "cols", "buf", "glass", "cursor",
                        "cells", "damaged", "wide", "known", "redraw"})
    BY <1>3, <1>6, <1>8 DEF ScreensSet, Changes
  <1>11. /\ q.mode[t] = m
         /\ \A u \in Terminal \ {t} : q.mode[u] = r.mode[u] /\ q.cols[u] = r.cols[u]
    BY <1>2, <1>3, <1>4, <1>6, <1>9 DEF ScreensSet
  <1>12. /\ gl => q.buf = r.buf
         /\ ~gl => ~q.known[t] /\ q.wide[t] = {}
    BY <1>4, <1>6, <1>9 DEF ScreensSet
  <1> QED
    BY <1>1, <1>10, <1>11, <1>12 DEF Refitted

LEMMA FontFacts ==
  ASSUME NEW r \in State, NEW t \in Terminal, NEW m \in Mode, Lit \in r.plugged,
         MaxCols \in Nat \ {0}
  PROVE  FontSet(r, t, m) = RedrawAll(Sized(WithMode(r, t, m), t), t)
  <1> DEFINE q == WithMode(r, t, m)
  <1>1. q \in State /\ q.plugged = r.plugged
    BY WithModeFacts DEF Refitted, Changes, Field
  <1>2. FontSet(r, t, m) = UpdateSize(q, t, 0)
    BY DEF FontSet, WithMode
  <1> HIDE DEF q
  <1>3. Smallest(q, t) # 0
    BY <1>1, SmallestFacts DEF Cell
  <1>4. UpdateSize(q, t, 0) = RedrawAll(Sized(q, t), t)
    BY <1>1, <1>3, UpdateSizeFacts
  <1> QED
    BY <1>2, <1>4 DEF q

\* The other orientation.
Turned(m) == <<m[1], ~m[2]>>

LEMMA RotateFacts ==
  ASSUME NEW r \in State, NEW t \in Terminal
  PROVE  /\ Turned(r.mode[t]) \in Mode
         /\ RotateAll(r, t) = UpdateSize(WithMode(r, t, Turned(r.mode[t])), t, r.width[t])
  <1> DEFINE m == r.mode[t]
             n == Turned(m)
  <1>1. m \in Mode
    BY DEF State
  <1>2. m = <<m[1], m[2]>> /\ m[2] \in BOOLEAN /\ n \in Mode
    BY <1>1, FrameAssumption DEF Turned
  <1>3. [r EXCEPT !.mode[t][2] = ~@] = [r EXCEPT !.mode[t] = n]
    <2>1. [r EXCEPT !.mode[t][2] = ~@] = [r EXCEPT !.mode[t] = [m EXCEPT ![2] = ~m[2]]]
      BY DEF State
    <2>2. [m EXCEPT ![2] = ~m[2]] = n
      BY <1>2 DEF Turned
    <2> QED
      BY <2>1, <2>2
  <1> QED
    BY <1>2, <1>3 DEF RotateAll, WithMode
\* A display d came or went, and t follows in q: its screens in x have the
\* columns of r except on d, and if that does not change its size that is all.
Adjusted(r, x, q, t, d) ==
  /\ Changes(r, x, {"cols"})
  /\ \A u \in Terminal \ {t} : x.cols[u] = r.cols[u]
  /\ \A e \in Display \ {d} : x.cols[t][e] = r.cols[t][e]
  /\ \/ /\ Smallest(x, t) = r.width[t] /\ q = x
        /\ d \in r.plugged => x.cols[t][d] = r.width[t]
     \/ Smallest(x, t) # r.width[t] /\ q = RedrawAll(Sized(x, t), t)

LEMMA AddDisplayFacts ==
  ASSUME NEW r \in State, NEW t \in Terminal, NEW d \in Display, d # Lit, Lit \in r.plugged,
         d \in r.plugged, MaxCols \in Nat \ {0}
  PROVE  \E x : Adjusted(r, x, AddDisplay(r, t, d), t, d)
  <1> DEFINE D == {d}
             x == WithCols(r, t, D)
             u == UpdateSize(x, t, r.width[t])
             row == TextResize(u, t, u.width[t], D)
             C == [u.cols EXCEPT ![t] = row]
             q == [u EXCEPT !.cols = C]
             n == Smallest(x, t)
  <1>1. D \in SUBSET Display /\ Lit \notin D
    OBVIOUS
  <1>2. TextSet(r, t, D) = x
    BY <1>1, TextSetFacts
  <1>3. AddDisplay(r, t, d) = [u EXCEPT !.cols[t] = row]
    BY <1>2 DEF AddDisplay
  <1>4. /\ Changes(r, x, {"cols"})
        /\ \A v \in Terminal \ {t} : x.cols[v] = r.cols[v]
        /\ \A e \in Display : x.cols[t][e] = IF e \in D THEN Fit[r.mode[t]][e] ELSE r.cols[t][e]
    BY <1>1, SetCols
  <1> HIDE DEF x
  <1>5. x \in State /\ x.plugged = r.plugged /\ x.width = r.width /\ x.mode = r.mode
    BY <1>4 DEF Changes, Field
  <1>6. /\ n = r.width[t] => u = x
        /\ n # r.width[t] => u = RedrawAll(Sized(x, t), t)
    BY <1>5, UpdateSizeFacts
  <1>7. n \in Cell /\ n <= Fit[r.mode[t]][d]
    BY <1>5, SmallestFacts
  <1>8. \A e \in Display : row[e] = IF e = d /\ u.width[t] <= Fit[u.mode[t]][d]
                                    THEN u.width[t] ELSE u.cols[t][e]
    BY DEF TextResize
  <1>9. row = [e \in Display |-> row[e]]
    BY DEF TextResize
  <1> HIDE DEF u, n, row
  <1>10. CASE n = r.width[t]
    <2>1. u = x /\ u \in State
      BY <1>5, <1>6, <1>10
    <2>2. u.width[t] <= Fit[u.mode[t]][d] /\ u.width[t] = r.width[t] /\ r.width[t] \in 0..MaxCols
      BY <1>5, <1>7, <1>10, <2>1 DEF Cell
    <2>3. /\ row[d] = r.width[t]
          /\ \A e \in Display \ {d} : row[e] = r.cols[t][e]
      BY <1>4, <1>8, <2>1, <2>2
    <2>4. row \in [Display -> 0..MaxCols]
      <3>1. r.cols[t] \in [Display -> 0..MaxCols]
        BY DEF State
      <3> QED
        BY <1>9, <2>2, <2>3, <3>1
    <2>5. q = AddDisplay(r, t, d)
      BY <1>3, <2>1 DEF State
    <2>6. /\ C \in [Terminal -> [Display -> 0..MaxCols]] /\ C[t] = row
          /\ \A v \in Terminal \ {t} : C[v] = u.cols[v]
      BY <2>1, <2>4 DEF State
    <2> HIDE DEF C
    <2>7. Changes(u, q, {"cols"}) /\ q.cols = C
      BY <2>1, <2>6 DEF Changes, State, Field
    <2> HIDE DEF q
    <2>8. Changes(r, q, {"cols"})
      BY <1>4, <2>1, <2>7 DEF Changes
    <2>9. Smallest(q, t) = r.width[t]
      <3>1. q.mode = x.mode /\ q.plugged = x.plugged
        BY <2>1, <2>7 DEF Changes, Field
      <3> QED
        BY <1>10, <3>1 DEF Smallest, n
    <2>10. Adjusted(r, q, q, t, d)
      BY <1>4, <2>1, <2>3, <2>6, <2>7, <2>8, <2>9 DEF Adjusted
    <2> QED
      BY <2>5, <2>10
  <1>11. CASE n # r.width[t]
    <2> DEFINE s == Sized(x, t)
    <2>1. /\ Changes(x, s, {"width", "buf", "glass", "cols", "redraw", "cursor"})
          /\ s.width[t] = n /\ s.cols[t][d] = n
      <3>1. x \in State /\ Lit \in x.plugged /\ d \in x.plugged
        BY <1>5
      <3> HIDE DEF s
      <3>2. /\ Changes(x, Sized(x, t), {"width", "buf", "glass", "cols", "redraw", "cursor"})
            /\ Sized(x, t).width[t] = Smallest(x, t)
            /\ \A e \in x.plugged : Sized(x, t).cols[t][e] = Smallest(x, t)
        BY <3>1, SizedFacts
      <3> QED
        BY <3>1, <3>2 DEF n, s
    <2>2. u = RedrawAll(s, t)
      BY <1>6, <1>11
    <2> HIDE DEF s
    <2>3. s \in State
      BY <2>1 DEF Changes
    <2>4. Changes(s, u, RedrawField)
      BY <2>2, <2>3, RedrawAllFacts
    <2>5. u \in State /\ u.width[t] = n /\ u.cols[t][d] = n
      BY <2>1, <2>4 DEF Changes, Field, RedrawField
    <2>6. \A e \in Display : row[e] = u.cols[t][e]
      BY <1>8, <2>5
    <2>7. u.cols[t] \in [Display -> 0..MaxCols]
      BY <2>5 DEF State
    <2>8. row = u.cols[t]
      BY <1>9, <2>6, <2>7
    <2>9. [u EXCEPT !.cols[t] = row] = u
      BY <2>5, <2>8 DEF State
    <2>10. AddDisplay(r, t, d) = RedrawAll(Sized(x, t), t)
      BY <1>3, <2>2, <2>9 DEF s
    <2>11. Adjusted(r, x, AddDisplay(r, t, d), t, d)
      BY <1>4, <1>11, <2>10 DEF Adjusted, n
    <2> QED
      BY <2>11
  <1> QED
    BY <1>10, <1>11

LEMMA RmDisplayFacts ==
  ASSUME NEW r \in State, NEW t \in Terminal, NEW d \in Display, d # Lit, Lit \in r.plugged,
         d \notin r.plugged, MaxCols \in Nat \ {0}
  PROVE  \E x : Adjusted(r, x, RmDisplay(r, t, d), t, d)
  <1> DEFINE row == [r.cols[t] EXCEPT ![d] = 0]
             C == [r.cols EXCEPT ![t] = row]
             x == [r EXCEPT !.cols = C]
             q == RmDisplay(r, t, d)
             n == Smallest(x, t)
  <1>1. x = [r EXCEPT !.cols[t][d] = 0]
    BY DEF State
  <1>2. q = UpdateSize(x, t, r.width[t])
    BY <1>1 DEF RmDisplay
  <1>3. row \in [Display -> 0..MaxCols] /\ \A e \in Display \ {d} : row[e] = r.cols[t][e]
    <2>1. r.cols[t] \in [Display -> 0..MaxCols]
      BY DEF State
    <2> QED
      BY <2>1
  <1> HIDE DEF row
  <1>4. /\ C \in [Terminal -> [Display -> 0..MaxCols]] /\ C[t] = row
        /\ \A v \in Terminal \ {t} : C[v] = r.cols[v]
    BY <1>3 DEF State
  <1> HIDE DEF C
  <1>5. Changes(r, x, {"cols"}) /\ x.cols = C
    BY <1>4 DEF Changes, State, Field
  <1> HIDE DEF x
  <1>6. x \in State /\ x.plugged = r.plugged /\ x.width = r.width
    BY <1>5 DEF Changes, Field
  <1>7. /\ n = r.width[t] => q = x
        /\ n # r.width[t] => q = RedrawAll(Sized(x, t), t)
    BY <1>2, <1>6, UpdateSizeFacts
  <1> HIDE DEF q, n
  <1>8. /\ \A v \in Terminal \ {t} : x.cols[v] = r.cols[v]
        /\ \A e \in Display \ {d} : x.cols[t][e] = r.cols[t][e]
    BY <1>3, <1>4, <1>5
  <1>9. Adjusted(r, x, q, t, d)
    BY <1>5, <1>7, <1>8 DEF Adjusted, n
  <1> QED
    BY <1>9 DEF q

-----------------------------------------------------------------------------
(***************************************************************************)
(* A call for every terminal: what holds before the first call and is      *)
(* passed on by each holds after the last one.                             *)
(***************************************************************************)
\* Q holds of the record and the terminals that were called.
Passed(Q, A, S) == {p \in A \X SUBSET S : p \in Q}

Passes(op, Q, A, S) ==
  \A h \in A, T \in SUBSET S, t \in S :
    t \notin T /\ <<h, T>> \in Q => <<op[<<h, t>>], T \cup {t}>> \in Q

\* The same for a function of which this is known where it has values in A.
FoldsIn(g, S, pick, base, op, A) ==
  \A T \in SUBSET S : /\ T = {} => g[T] = base
                      /\ T # {} /\ g[T \ {pick[T]}] \in A =>
                           g[T] = op[<<g[T \ {pick[T]}], pick[T]>>]

LEMMA FoldPasses ==
  ASSUME NEW S, IsFiniteSet(S), NEW pick, Picks(pick, S),
         NEW A, NEW Q, NEW base, base \in A, <<base, {}>> \in Q,
         NEW op, op \in [A \X S -> A], Passes(op, Q, A, S),
         NEW g, FoldsIn(g, S, pick, base, op, A)
  PROVE  g[S] \in A /\ <<g[S], S>> \in Q
  <1> DEFINE R == Passed(Q, A, S)
  <1>1. <<g[{}], {}>> \in R
    BY DEF Passed, FoldsIn
  <1>2. ASSUME NEW T \in SUBSET S, T # {}, <<g[T \ {pick[T]}], T \ {pick[T]}>> \in R
        PROVE  <<g[T], T>> \in R
    <2> DEFINE t == pick[T]
               U == T \ {t}
               h == g[U]
    <2>1. t \in T /\ t \in S /\ U \in SUBSET S /\ t \notin U /\ U \cup {t} = T
      BY <1>2 DEF Picks
    <2>2. h \in A /\ <<h, U>> \in Q
      BY <1>2 DEF Passed
    <2>3. g[T] = op[<<h, t>>]
      BY <1>2, <2>2 DEF FoldsIn
    <2> HIDE DEF t, h, U
    <2>4. <<op[<<h, t>>], U \cup {t}>> \in Q
      BY <2>1, <2>2 DEF Passes
    <2>5. op[<<h, t>>] \in A
      BY <2>1, <2>2
    <2> QED
      BY <2>1, <2>3, <2>4, <2>5 DEF Passed
  <1> HIDE DEF R
  <1>3. <<g[S], S>> \in R
    BY <1>1, <1>2, FoldKeeps DEF Picks
  <1> QED
    BY <1>3 DEF R, Passed

LEMMA AddAll ==
  ASSUME NEW base, IsFiniteSet(base.open), NEW d, NEW A, NEW Q, base \in A, <<base, {}>> \in Q,
         \A h \in A, t \in base.open : AddDisplay(h, t, d) \in A,
         \A h \in A, T \in SUBSET base.open, t \in base.open :
           t \notin T /\ <<h, T>> \in Q => <<AddDisplay(h, t, d), T \cup {t}>> \in Q
  PROVE  LET q == ForTerminals(LAMBDA r, t : AddDisplay(r, t, d), base)
         IN  q \in A /\ <<q, base.open>> \in Q
  <1> DEFINE S == base.open
             pick == [T \in SUBSET S |-> CHOOSE t \in T : TRUE]
             op == [p \in A \X S |-> AddDisplay(p[1], p[2], d)]
             Step(f, T) == IF T = {} THEN base
                           ELSE AddDisplay(f[T \ {CHOOSE t \in T : TRUE}],
                                           CHOOSE t \in T : TRUE, d)
             Loop(f) == f = [T \in SUBSET S |-> Step(f, T)]
             g == CHOOSE f : Loop(f)
  <1>1. ForTerminals(LAMBDA r, t : AddDisplay(r, t, d), base) = g[S]
    BY DEF ForTerminals, FoldSet, MapThenFoldSet
  <1>2. Picks(pick, S)
    BY DEF Picks
  <1>3. op \in [A \X S -> A] /\ \A h \in A, t \in S : op[<<h, t>>] = AddDisplay(h, t, d)
    OBVIOUS
  <1>4. \A T \in SUBSET S : pick[T] = CHOOSE t \in T : TRUE
    OBVIOUS
  <1>11. \A f, T : T \in SUBSET S =>
           /\ T = {} => Step(f, T) = base
           /\ T # {} => Step(f, T) = AddDisplay(f[T \ {pick[T]}], pick[T], d)
    BY <1>4
  <1>12. IsFiniteSet(S)
    OBVIOUS
  <1> HIDE DEF pick, op, Step, S
  <1>5. \E f : Loop(f)
    <2>1. PICK f \in [SUBSET S -> A] : \A T \in SUBSET S :
            f[T] = IF T = {} THEN base ELSE op[<<f[T \ {pick[T]}], pick[T]>>]
      <3>1. base \in A
        OBVIOUS
      <3> QED
        <4>1. \E f \in [SUBSET S -> A] : Folds(f, S, pick, base, op)
          BY <1>2, <1>3, <1>12, <3>1, FoldHas
        <4> QED
          BY <4>1 DEF Folds
    <2>2. ASSUME NEW T \in SUBSET S PROVE f[T] = Step(f, T)
      <3>1. CASE T = {}
        BY <1>11, <2>1, <3>1
      <3>2. CASE T # {}
        <4>1. pick[T] \in S /\ f[T \ {pick[T]}] \in A
          BY <1>2, <2>1, <3>2 DEF Picks
        <4>2. f[T] = op[<<f[T \ {pick[T]}], pick[T]>>]
          BY <2>1, <3>2
        <4>3. f[T] = AddDisplay(f[T \ {pick[T]}], pick[T], d)
          BY <1>3, <4>1, <4>2
        <4> QED
          BY <1>11, <3>2, <4>3
      <3> QED
        BY <3>1, <3>2
    <2>3. Loop(f)
      BY <2>1, <2>2
    <2> QED
      BY <2>3
  <1>6. Loop(g)
    BY <1>5
  <1> HIDE DEF g
  <1>7. \A T \in SUBSET S : T = {} => g[T] = base
    BY <1>6, <1>11
  <1>8. ASSUME NEW T \in SUBSET S, T # {}, g[T \ {pick[T]}] \in A
        PROVE  g[T] = op[<<g[T \ {pick[T]}], pick[T]>>]
    <2>1. pick[T] \in S
      BY <1>2, <1>8 DEF Picks
    <2>2. g[T] = AddDisplay(g[T \ {pick[T]}], pick[T], d)
      BY <1>6, <1>8, <1>11
    <2> QED
      BY <1>3, <1>8, <2>1, <2>2
  <1>9. Passes(op, Q, A, S)
    <2>1. \A h \in A, T \in SUBSET S, t \in S :
            t \notin T /\ <<h, T>> \in Q => <<AddDisplay(h, t, d), T \cup {t}>> \in Q
      BY DEF S
    <2> QED
      BY <1>3, <2>1 DEF Passes
  <1> HIDE DEF Loop
  <1>10. g[S] \in A /\ <<g[S], S>> \in Q
    <2>1. base \in A /\ <<base, {}>> \in Q
      OBVIOUS
    <2>2. FoldsIn(g, S, pick, base, op, A)
      BY <1>7, <1>8 DEF FoldsIn
    <2> QED
      BY <1>2, <1>3, <1>9, <1>12, <2>1, <2>2, FoldPasses
  <1> QED
    BY <1>1, <1>10 DEF S

RemovedAll(base, d) == ForTerminals(LAMBDA r, t : RmDisplay(r, t, d), base)

LEMMA RmAll ==
  ASSUME NEW base, IsFiniteSet(base.open), NEW d, NEW A, NEW Q, base \in A, <<base, {}>> \in Q,
         \A h \in A, t \in base.open : RmDisplay(h, t, d) \in A,
         \A h \in A, T \in SUBSET base.open, t \in base.open :
           t \notin T /\ <<h, T>> \in Q => <<RmDisplay(h, t, d), T \cup {t}>> \in Q
  PROVE  RemovedAll(base, d) \in A /\ <<RemovedAll(base, d), base.open>> \in Q
  <1> DEFINE S == base.open
             pick == [T \in SUBSET S |-> CHOOSE t \in T : TRUE]
             op == [p \in A \X S |-> RmDisplay(p[1], p[2], d)]
             Step(f, T) == IF T = {} THEN base
                           ELSE RmDisplay(f[T \ {CHOOSE t \in T : TRUE}],
                                           CHOOSE t \in T : TRUE, d)
             Loop(f) == f = [T \in SUBSET S |-> Step(f, T)]
             g == CHOOSE f : Loop(f)
  <1>1. RemovedAll(base, d) = g[S]
    BY DEF RemovedAll, ForTerminals, FoldSet, MapThenFoldSet
  <1>2. Picks(pick, S)
    BY DEF Picks
  <1>3. op \in [A \X S -> A] /\ \A h \in A, t \in S : op[<<h, t>>] = RmDisplay(h, t, d)
    OBVIOUS
  <1>4. \A T \in SUBSET S : pick[T] = CHOOSE t \in T : TRUE
    OBVIOUS
  <1>11. \A f, T : T \in SUBSET S =>
           /\ T = {} => Step(f, T) = base
           /\ T # {} => Step(f, T) = RmDisplay(f[T \ {pick[T]}], pick[T], d)
    BY <1>4
  <1>12. IsFiniteSet(S)
    OBVIOUS
  <1> HIDE DEF pick, op, Step, S
  <1>5. \E f : Loop(f)
    <2>1. PICK f \in [SUBSET S -> A] : \A T \in SUBSET S :
            f[T] = IF T = {} THEN base ELSE op[<<f[T \ {pick[T]}], pick[T]>>]
      <3>1. base \in A
        OBVIOUS
      <3> QED
        <4>1. \E f \in [SUBSET S -> A] : Folds(f, S, pick, base, op)
          BY <1>2, <1>3, <1>12, <3>1, FoldHas
        <4> QED
          BY <4>1 DEF Folds
    <2>2. ASSUME NEW T \in SUBSET S PROVE f[T] = Step(f, T)
      <3>1. CASE T = {}
        BY <1>11, <2>1, <3>1
      <3>2. CASE T # {}
        <4>1. pick[T] \in S /\ f[T \ {pick[T]}] \in A
          BY <1>2, <2>1, <3>2 DEF Picks
        <4>2. f[T] = op[<<f[T \ {pick[T]}], pick[T]>>]
          BY <2>1, <3>2
        <4>3. f[T] = RmDisplay(f[T \ {pick[T]}], pick[T], d)
          BY <1>3, <4>1, <4>2
        <4> QED
          BY <1>11, <3>2, <4>3
      <3> QED
        BY <3>1, <3>2
    <2>3. Loop(f)
      BY <2>1, <2>2
    <2> QED
      BY <2>3
  <1>6. Loop(g)
    BY <1>5
  <1> HIDE DEF g
  <1>7. \A T \in SUBSET S : T = {} => g[T] = base
    BY <1>6, <1>11
  <1>8. ASSUME NEW T \in SUBSET S, T # {}, g[T \ {pick[T]}] \in A
        PROVE  g[T] = op[<<g[T \ {pick[T]}], pick[T]>>]
    <2>1. pick[T] \in S
      BY <1>2, <1>8 DEF Picks
    <2>2. g[T] = RmDisplay(g[T \ {pick[T]}], pick[T], d)
      BY <1>6, <1>8, <1>11
    <2> QED
      BY <1>3, <1>8, <2>1, <2>2
  <1>9. Passes(op, Q, A, S)
    <2>1. \A h \in A, T \in SUBSET S, t \in S :
            t \notin T /\ <<h, T>> \in Q => <<RmDisplay(h, t, d), T \cup {t}>> \in Q
      BY DEF S
    <2> QED
      BY <1>3, <2>1 DEF Passes
  <1> HIDE DEF Loop
  <1>10. g[S] \in A /\ <<g[S], S>> \in Q
    <2>1. base \in A /\ <<base, {}>> \in Q
      OBVIOUS
    <2>2. FoldsIn(g, S, pick, base, op, A)
      BY <1>7, <1>8 DEF FoldsIn
    <2> QED
      BY <1>2, <1>3, <1>9, <1>12, <2>1, <2>2, FoldPasses
  <1> QED
    BY <1>1, <1>10 DEF S

\* display_pageflip on the screen of t.
Called(a, t) == IF t \in a.pending THEN DoRedraw(a, t) ELSE a

LEMMA PflipAll ==
  ASSUME NEW base, IsFiniteSet(base.open), NEW A, NEW Q, base \in A, <<base, {}>> \in Q,
         \A h \in A, t \in base.open : Called(h, t) \in A,
         \A h \in A, T \in SUBSET base.open, t \in base.open :
           t \notin T /\ <<h, T>> \in Q => <<Called(h, t), T \cup {t}>> \in Q
  PROVE  LET q == ForTerminals(LAMBDA a, t : IF t \in a.pending THEN DoRedraw(a, t) ELSE a, base)
         IN  q \in A /\ <<q, base.open>> \in Q
  <1> DEFINE S == base.open
             pick == [T \in SUBSET S |-> CHOOSE t \in T : TRUE]
             op == [p \in A \X S |-> Called(p[1], p[2])]
             Step(f, T) == IF T = {} THEN base
                           ELSE Called(f[T \ {CHOOSE t \in T : TRUE}], CHOOSE t \in T : TRUE)
             Loop(f) == f = [T \in SUBSET S |-> Step(f, T)]
             g == CHOOSE f : Loop(f)
  <1>1. ForTerminals(LAMBDA a, t : IF t \in a.pending THEN DoRedraw(a, t) ELSE a, base) = g[S]
    BY DEF Called, ForTerminals, FoldSet, MapThenFoldSet
  <1>2. Picks(pick, S)
    BY DEF Picks
  <1>3. op \in [A \X S -> A] /\ \A h \in A, t \in S : op[<<h, t>>] = Called(h, t)
    OBVIOUS
  <1>4. \A T \in SUBSET S : pick[T] = CHOOSE t \in T : TRUE
    OBVIOUS
  <1>11. \A f, T : T \in SUBSET S =>
           /\ T = {} => Step(f, T) = base
           /\ T # {} => Step(f, T) = Called(f[T \ {pick[T]}], pick[T])
    BY <1>4
  <1>12. IsFiniteSet(S)
    OBVIOUS
  <1> HIDE DEF pick, op, Step, S
  <1>5. \E f : Loop(f)
    <2>1. PICK f \in [SUBSET S -> A] : \A T \in SUBSET S :
            f[T] = IF T = {} THEN base ELSE op[<<f[T \ {pick[T]}], pick[T]>>]
      <3>1. base \in A
        OBVIOUS
      <3> QED
        <4>1. \E f \in [SUBSET S -> A] : Folds(f, S, pick, base, op)
          BY <1>2, <1>3, <1>12, <3>1, FoldHas
        <4> QED
          BY <4>1 DEF Folds
    <2>2. ASSUME NEW T \in SUBSET S PROVE f[T] = Step(f, T)
      <3>1. CASE T = {}
        BY <1>11, <2>1, <3>1
      <3>2. CASE T # {}
        <4>1. pick[T] \in S /\ f[T \ {pick[T]}] \in A
          BY <1>2, <2>1, <3>2 DEF Picks
        <4>2. f[T] = op[<<f[T \ {pick[T]}], pick[T]>>]
          BY <2>1, <3>2
        <4>3. f[T] = Called(f[T \ {pick[T]}], pick[T])
          BY <1>3, <4>1, <4>2
        <4> QED
          BY <1>11, <3>2, <4>3
      <3> QED
        BY <3>1, <3>2
    <2>3. Loop(f)
      BY <2>1, <2>2
    <2> QED
      BY <2>3
  <1>6. Loop(g)
    BY <1>5
  <1> HIDE DEF g
  <1>7. \A T \in SUBSET S : T = {} => g[T] = base
    BY <1>6, <1>11
  <1>8. ASSUME NEW T \in SUBSET S, T # {}, g[T \ {pick[T]}] \in A
        PROVE  g[T] = op[<<g[T \ {pick[T]}], pick[T]>>]
    <2>1. pick[T] \in S
      BY <1>2, <1>8 DEF Picks
    <2>2. g[T] = Called(g[T \ {pick[T]}], pick[T])
      BY <1>6, <1>8, <1>11
    <2> QED
      BY <1>3, <1>8, <2>1, <2>2
  <1>9. Passes(op, Q, A, S)
    <2>1. \A h \in A, T \in SUBSET S, t \in S :
            t \notin T /\ <<h, T>> \in Q => <<Called(h, t), T \cup {t}>> \in Q
      BY DEF S
    <2> QED
      BY <1>3, <2>1 DEF Passes
  <1> HIDE DEF Loop
  <1>10. g[S] \in A /\ <<g[S], S>> \in Q
    <2>1. base \in A /\ <<base, {}>> \in Q
      OBVIOUS
    <2>2. FoldsIn(g, S, pick, base, op, A)
      BY <1>7, <1>8 DEF FoldsIn
    <2> QED
      BY <1>2, <1>3, <1>9, <1>12, <2>1, <2>2, FoldPasses
  <1> QED
    BY <1>1, <1>10 DEF S

-----------------------------------------------------------------------------
(***************************************************************************)
(* The display: mode sets, sleep and activation.                           *)
(***************************************************************************)
LEMMA ModesetFacts ==
  ASSUME NEW r \in State, MaxCols \in Nat \ {0}
  PROVE  /\ Changes(r, Modeset(r), {"front", "scanned", "vsync", "glass", "plane", "need"})
         /\ Modeset(r).vsync = TRUE /\ Modeset(r).need = TRUE
         /\ Modeset(r).scanned = Modeset(r).front
         /\ Modeset(r).plane = IF HardwareCursor THEN Shows(r.cursor) ELSE Hidden
  <1> DEFINE f == 1 - r.front
             yes == TRUE
             G == IF gl THEN Blank("junk") ELSE r.buf[1 - r.front]
             a == [r EXCEPT !.front = f, !.scanned = f, !.vsync = yes, !.glass = G]
             b == ClearCursor(a)
             c == CommitCursor(b)
             q == [c EXCEPT !.need = yes]
  <1>1. f \in {0, 1} /\ yes \in Flag /\ G \in Pixels
    <2>1. f \in {0, 1}
      BY DEF State
    <2>2. r.buf[f] \in Pixels /\ Blank("junk") \in Pixels
      BY <2>1 DEF State, Blank, Pixels, Pixel
    <2> QED
      BY <2>1, <2>2, FlagFacts
  <1>2. q = Modeset(r)
    BY DEF Modeset, CommitFrame
  <1> HIDE DEF f, yes, G
  <1>3. /\ Changes(r, a, {"front", "scanned", "vsync", "glass"})
        /\ a.front = f /\ a.scanned = f /\ a.vsync = yes
    BY <1>1 DEF Changes, State, Field
  <1> HIDE DEF a
  <1>4. a \in State
    BY <1>3 DEF Changes
  <1>5. Changes(a, b, {"plane"}) /\ b.plane = Hidden
    BY <1>4, ClearFacts
  <1> HIDE DEF b
  <1>6. b \in State /\ b.cursor = r.cursor
    BY <1>3, <1>5 DEF Changes, Field
  <1>7. Changes(b, c, {"plane"}) /\ c.plane = IF HardwareCursor THEN Shows(b.cursor) ELSE b.plane
    BY <1>6, CommitFacts
  <1> HIDE DEF c
  <1>8. c \in State
    BY <1>7 DEF Changes
  <1>9. Changes(c, q, {"need"}) /\ q.need = yes
    BY <1>1, <1>8 DEF Changes, State, Field
  <1> HIDE DEF q
  <1>10. Changes(r, q, {"front", "scanned", "vsync", "glass", "plane", "need"})
    BY <1>3, <1>5, <1>7, <1>9 DEF Changes
  <1>11. q.front = f /\ q.scanned = f /\ q.vsync = yes /\ q.plane = c.plane
    BY <1>3, <1>5, <1>7, <1>9 DEF Changes, Field
  <1> QED
    BY <1>2, <1>5, <1>6, <1>7, <1>9, <1>10, <1>11 DEF yes

LEMMA ShowDisplaysFacts ==
  ASSUME NEW r \in State, MaxCols \in Nat \ {0}
  PROVE  /\ Changes(r, ShowDisplays(r), {"vsync", "need", "glass", "plane", "buf", "scanned"})
         /\ gl /\ r.vsync => ShowDisplays(r) = r
         /\ gl /\ ~r.vsync => ShowDisplays(r).vsync = TRUE
         /\ ~gl => /\ Changes(r, ShowDisplays(r), {"glass", "buf", "scanned"})
                   /\ ShowDisplays(r).scanned = r.front
  <1> DEFINE black == Blank("black")
             yes == TRUE
             no == FALSE
             B == [r.buf EXCEPT ![r.front] = black]
             a == [r EXCEPT !.vsync = yes, !.need = no, !.glass = black]
             c == CommitCursor(a)
             f == r.front
             b == [r EXCEPT !.buf = B, !.glass = black, !.scanned = f]
             q == ShowDisplays(r)
  <1>1. black \in Pixels /\ yes \in Flag /\ no \in Flag /\ f \in {0, 1}
    BY FlagFacts DEF Blank, Pixels, Pixel, State
  <1>2. q = IF gl THEN IF r.vsync THEN r ELSE c ELSE b
    <2>1. b = [r EXCEPT !.buf[r.front] = black, !.glass = black, !.scanned = r.front]
      BY DEF State
    <2> QED
      BY <2>1 DEF ShowDisplays, GlShowDisplays
  <1> HIDE DEF black, yes, no, f
  <1>3. B \in [{0, 1} -> Pixels]
    BY <1>1 DEF State
  <1> HIDE DEF B
  <1>4. Changes(r, b, {"buf", "glass", "scanned"}) /\ b.scanned = f
    BY <1>1, <1>3 DEF Changes, State, Field
  <1>5. Changes(r, a, {"vsync", "need", "glass"}) /\ a.vsync = yes
    BY <1>1 DEF Changes, State, Field
  <1> HIDE DEF a, b
  <1>6. a \in State
    BY <1>5 DEF Changes
  <1>7. Changes(a, c, {"plane"})
    BY <1>6, CommitFacts
  <1> HIDE DEF c, q
  <1>8. c.vsync = yes
    BY <1>5, <1>7 DEF Changes, Field
  <1> DEFINE F == {"vsync", "need", "glass", "plane", "buf", "scanned"}
  <1>9. Changes(r, c, F) /\ Changes(r, b, F) /\ Changes(r, r, F)
    BY <1>4, <1>5, <1>7, ChangesNothing DEF Changes
  <1> HIDE DEF F
  <1>10. Changes(r, q, F)
    BY <1>2, <1>9
  <1>11. gl /\ r.vsync => q = r
    BY <1>2
  <1>12. gl /\ ~r.vsync => q = c
    BY <1>2
  <1>13. ~gl => q = b
    BY <1>2
  <1>14. Changes(r, b, {"glass", "buf", "scanned"})
    BY <1>4 DEF Changes
  <1> QED
    BY <1>4, <1>8, <1>10, <1>11, <1>12, <1>13, <1>14 DEF F, q, f, yes

LEMMA AwakeFacts ==
  ASSUME NEW r \in State, NEW T \in SUBSET Terminal
  PROVE  /\ Changes(r, [r EXCEPT !.awake = T], {"awake"})
         /\ [r EXCEPT !.awake = T].awake = T
  BY DEF Changes, State, Field

LEMMA ActivateFacts ==
  ASSUME NEW r \in State, NEW t \in Terminal
  PROVE  /\ r.vsync => /\ Changes(r, Activate(r, t), {"awake", "swapping", "pending"})
                       /\ Activate(r, t).awake = r.awake \cup {t}
                       /\ Activate(r, t).swapping = r.swapping \cup {t}
                       /\ Activate(r, t).pending = r.pending \cup {t}
         /\ ~r.vsync => Activate(r, t) = RedrawAll([r EXCEPT !.awake = r.awake \cup {t}], t)
  <1> DEFINE A == r.awake \cup {t}
             S == r.swapping \cup {t}
             P == r.pending \cup {t}
             x == [r EXCEPT !.awake = A]
             y == [x EXCEPT !.swapping = S]
             z == [y EXCEPT !.pending = P]
             q == Activate(r, t)
  <1>1. A \in SUBSET Terminal /\ S \in SUBSET Terminal /\ P \in SUBSET Terminal
    BY DEF State
  <1>2. q = RedrawAllText(x, t)
    BY DEF Activate
  <1>3. t \in A /\ t \in S
    OBVIOUS
  <1> HIDE DEF A, q
  <1>4. Changes(r, x, {"awake"}) /\ x.awake = A
    BY <1>1, AwakeFacts
  <1>5. x = [r EXCEPT !.awake = A]
    OBVIOUS
  <1> HIDE DEF x
  <1>6. x \in State /\ x.vsync = r.vsync /\ x.swapping = r.swapping /\ x.pending = r.pending
    BY <1>4 DEF Changes, Field
  <1>7. q = IF x.vsync THEN RedrawAll(y, t) ELSE RedrawAll(x, t)
    <2>1. q = RedrawAll(IF x.vsync THEN [x EXCEPT !.swapping = @ \cup {t}] ELSE x, t)
      BY <1>2, <1>3, <1>4 DEF RedrawAllText
    <2>2. [x EXCEPT !.swapping = @ \cup {t}] = y
      BY <1>6 DEF State
    <2> HIDE DEF y
    <2> QED
      BY <2>1, <2>2
  <1> HIDE DEF S
  <1>8. Changes(x, y, {"swapping"}) /\ y.swapping = S
    BY <1>1, <1>6 DEF Changes, State, Field
  <1> HIDE DEF y
  <1>9. y \in State /\ y.awake = A /\ y.pending = r.pending
    BY <1>4, <1>6, <1>8 DEF Changes, Field
  <1>10. RedrawAll(y, t) = z
    <2>1. RedrawAll(y, t) = [y EXCEPT !.pending = @ \cup {t}]
      BY <1>3, <1>8, <1>9 DEF RedrawAll
    <2> QED
      BY <1>9, <2>1 DEF State
  <1> HIDE DEF P
  <1>11. Changes(y, z, {"pending"}) /\ z.pending = P
    BY <1>1, <1>9 DEF Changes, State, Field
  <1> HIDE DEF z
  <1>12. Changes(r, z, {"awake", "swapping", "pending"})
    BY <1>4, <1>8, <1>11 DEF Changes
  <1>13. z.awake = A /\ z.swapping = S
    BY <1>8, <1>9, <1>11 DEF Changes, Field
  <1>14. r.vsync => q = z
    BY <1>6, <1>7, <1>10
  <1>15. ~r.vsync => q = RedrawAll([r EXCEPT !.awake = A], t)
    BY <1>5, <1>6, <1>7
  <1> QED
    BY <1>11, <1>12, <1>13, <1>14, <1>15 DEF q, A, S, P

-----------------------------------------------------------------------------
(***************************************************************************)
(* The invariant: what every handler keeps, whatever the console is used   *)
(* for.  The terminal in front alone is awake, and it takes part in the    *)
(* flip that is outstanding, so nothing is drawn into the buffer that the  *)
(* kernel shows; the screens are as large as their terminals; and nothing  *)
(* is committed while another VT is in front.                              *)
(***************************************************************************)
FlipOk(r, cur, sh) ==
  /\ ~r.vsync => r.scanned = r.front
  /\ sh /\ r.vsync => cur \in r.swapping

\* All but the flip, and with the sizes of the terminals of T only.
Most(r, cur, sh, T) ==
  /\ r \in State /\ cur \in r.open /\ Lit \in r.plugged
  /\ r.awake = IF sh THEN {cur} ELSE {}
  /\ \A t \in T : SizeOk(r, t)
  /\ ~sh => r.plane \in {Hidden, Foreign}

Core(r, cur, sh) == Most(r, cur, sh, r.open) /\ FlipOk(r, cur, sh)

Inv == Core(Now, current, shown)

LEMMA MaxColsFacts ==
  ASSUME NEW r \in State, NEW t \in r.open
  PROVE  MaxCols \in Nat \ {0} /\ t \in Terminal /\ IsFiniteSet(r.open)
  <1>1. t \in Terminal /\ r.mode[t] \in Mode /\ r.open \subseteq Terminal
    BY DEF State
  <1>2. IsFiniteSet(r.open)
    BY <1>1, FrameAssumption, FS_Subset
  <1> QED
    BY <1>1, <1>2, CellFacts

LEMMA StoreFacts ==
  ASSUME NEW q \in State, Store(q)
  PROVE  Now' = q
  BY DEF Store, Now, State

LEMMA CorePrime ==
  ASSUME NEW q, Now' = q, UNCHANGED useVars, Core(q, current', shown')
  PROVE  Inv'
  <1>1. use' = use
    BY DEF useVars
  <1>2. Symbol' = Symbol /\ Cached' = Cached
    BY <1>1 DEF Symbol, Cached
  <1>3. State' = State
    BY <1>2 DEF State
  <1>4. FlipOk(Now, current, shown)'
    BY DEF Core, FlipOk
  <1>5. \A t : SizeOk(Now, t)' <=> SizeOk(q, t)
    BY <1>1 DEF SizeOk, Smallest
  <1>6. Most(Now, current, shown, Now.open)'
    BY <1>3, <1>5 DEF Core, Most
  <1> QED
    BY <1>4, <1>6 DEF Inv, Core

\* No buffer has changed that the kernel shows.
Clean(r, q) == \A b \in {0, 1} : q.buf[b] # r.buf[b] => b # q.scanned

LEMMA RedrawFlip ==
  ASSUME NEW r \in State, NEW t \in Terminal, NEW cur \in Terminal, NEW sh,
         r.awake = IF sh THEN {cur} ELSE {}, MaxCols \in Nat \ {0}
  PROVE  /\ Changes(r, RedrawAll(r, t), RedrawField)
         /\ ~sh \/ t # cur => RedrawAll(r, t) = r
         /\ FlipOk(r, cur, sh) => /\ FlipOk(RedrawAll(r, t), cur, sh)
                                  /\ Clean(r, RedrawAll(r, t))
         /\ r.vsync => RedrawAll(r, t).vsync /\ RedrawAll(r, t).front = r.front
  <1> DEFINE q == RedrawAll(r, t)
  <1>1. Changes(r, q, RedrawField) /\ RedrawnAll(r, q, t)
    BY RedrawAllFacts
  <1> HIDE DEF q
  <1>2. q.scanned = r.scanned /\ q.awake = r.awake
    BY <1>1 DEF Changes, RedrawField, Field
  <1>3. ~sh \/ t # cur => q = r
    BY <1>1 DEF RedrawnAll
  <1>4. r.front \in {0, 1} /\ 1 - r.front # r.front
    BY DEF State
  <1>5. CASE q = r
    BY <1>1, <1>3, <1>5 DEF Clean, q
  <1>6. CASE t \in r.awake /\ t \in r.swapping /\ Changes(r, q, {"pending"})
    <2>1. q.buf = r.buf /\ q.vsync = r.vsync /\ q.front = r.front /\ q.swapping = r.swapping
      BY <1>6 DEF Changes, Field
    <2> QED
      BY <1>1, <1>2, <1>3, <2>1 DEF Clean, FlipOk, q
  <1>7. CASE t \in r.awake /\ t \notin r.swapping /\ Redrawn(r, q, t)
    <2>1. sh /\ t = cur
      BY <1>7
    <2>2. /\ q.vsync = TRUE /\ q.swapping = r.swapping \cup {t}
          /\ q.buf[r.front] = r.buf[r.front] /\ (r.vsync => q.front = r.front)
      BY <1>7 DEF Redrawn
    <2>3. ASSUME FlipOk(r, cur, sh) PROVE Clean(r, q) /\ FlipOk(q, cur, sh)
      <3>1. ~r.vsync /\ r.scanned = r.front
        BY <1>7, <2>1, <2>3 DEF FlipOk
      <3>2. Clean(r, q)
        BY <1>2, <2>2, <3>1 DEF Clean
      <3>3. FlipOk(q, cur, sh)
        BY <2>1, <2>2 DEF FlipOk
      <3> QED
        BY <3>2, <3>3
    <2> QED
      BY <1>1, <1>3, <2>2, <2>3 DEF q
  <1> QED
    BY <1>1, <1>5, <1>6, <1>7 DEF RedrawnAll

\* What a redraw and a change of size change.
AdjustField == RedrawField \cup {"width", "cols", "cursor"}

LEMMA SizeKept ==
  ASSUME NEW r, NEW q, NEW u, q.mode = r.mode, q.plugged = r.plugged,
         q.width[u] = r.width[u], q.cols[u] = r.cols[u], SizeOk(r, u)
  PROVE  SizeOk(q, u)
  BY DEF SizeOk, Smallest

LEMMA RedrawMost ==
  ASSUME NEW r, NEW cur, NEW sh, NEW T, NEW t \in Terminal, Most(r, cur, sh, T)
  PROVE  /\ Most(RedrawAll(r, t), cur, sh, T)
         /\ FlipOk(r, cur, sh) => FlipOk(RedrawAll(r, t), cur, sh) /\ Clean(r, RedrawAll(r, t))
         /\ r.vsync => RedrawAll(r, t).vsync /\ RedrawAll(r, t).front = r.front
         /\ Changes(r, RedrawAll(r, t), RedrawField)
         /\ ~sh \/ t # cur => RedrawAll(r, t) = r
  <1> DEFINE q == RedrawAll(r, t)
  <1>1. r \in State /\ cur \in r.open /\ r.awake = IF sh THEN {cur} ELSE {}
    BY DEF Most
  <1>2. MaxCols \in Nat \ {0} /\ cur \in Terminal
    BY <1>1, MaxColsFacts
  <1>3. /\ Changes(r, q, RedrawField) /\ (~sh \/ t # cur => q = r)
        /\ FlipOk(r, cur, sh) => FlipOk(q, cur, sh) /\ Clean(r, q)
        /\ r.vsync => q.vsync /\ q.front = r.front
    BY <1>1, <1>2, RedrawFlip
  <1> HIDE DEF q
  <1>4. RedrawField \cap SizeField = {}
    BY DEF RedrawField, SizeField
  <1>5. /\ q.plugged = r.plugged /\ q.open = r.open
        /\ \A u : SizeOk(q, u) <=> SizeOk(r, u)
    BY <1>3, <1>4, SizeSame
  <1>6. q \in State /\ q.awake = r.awake
    BY <1>3 DEF Changes, Field, RedrawField
  <1>7. Most(q, cur, sh, T)
    BY <1>3, <1>5, <1>6 DEF Most
  <1> QED
    BY <1>3, <1>7 DEF q

LEMMA SizedMost ==
  ASSUME NEW r, NEW cur, NEW sh, NEW T \in SUBSET Terminal, NEW t \in Terminal, Most(r, cur, sh, T)
  PROVE  /\ Most(Sized(r, t), cur, sh, T \cup {t})
         /\ FlipOk(r, cur, sh) => FlipOk(Sized(r, t), cur, sh)
         /\ Sized(r, t).vsync = r.vsync /\ Sized(r, t).front = r.front
         /\ Sized(r, t).scanned = r.scanned
  <1> DEFINE q == Sized(r, t)
  <1>1. r \in State /\ cur \in r.open /\ Lit \in r.plugged /\ r.awake = IF sh THEN {cur} ELSE {}
    BY DEF Most
  <1>2. MaxCols \in Nat \ {0}
    BY <1>1, MaxColsFacts
  <1>3. /\ Changes(r, q, {"width", "buf", "glass", "cols", "redraw", "cursor"})
        /\ \A u \in Terminal \ {t} : q.width[u] = r.width[u] /\ q.cols[u] = r.cols[u]
        /\ SizeOk(q, t)
    BY <1>1, <1>2, SizedFacts
  <1> HIDE DEF q
  <1>4. /\ q.mode = r.mode /\ q.plugged = r.plugged /\ q.open = r.open /\ q.awake = r.awake
        /\ q.vsync = r.vsync /\ q.front = r.front /\ q.scanned = r.scanned
        /\ q.swapping = r.swapping /\ q.plane = r.plane /\ q \in State
    BY <1>3 DEF Changes, Field
  <1>5. ASSUME NEW u \in T \cup {t} PROVE SizeOk(q, u)
    <2>1. CASE u = t
      BY <1>3, <2>1
    <2>2. CASE u # t
      <3>1. SizeOk(r, u) /\ u \in Terminal \ {t}
        BY <2>2 DEF Most
      <3> QED
        BY <1>3, <1>4, <3>1, SizeKept
    <2> QED
      BY <2>1, <2>2
  <1>6. Most(q, cur, sh, T \cup {t})
    BY <1>1, <1>4, <1>5 DEF Most
  <1> QED
    BY <1>4, <1>6 DEF q, FlipOk

\* What the screens of t on the other displays hold before d comes or goes.
OthersFit(r, t, d) ==
  "turn" \notin use => \A e \in r.plugged \ {d} : r.cols[t][e] = r.width[t]

\* What it does to the invariant if t follows.
Follows(r, q, cur, sh, T, t) ==
  /\ Most(q, cur, sh, T \cup {t})
  /\ Changes(r, q, AdjustField)
  /\ \A u \in Terminal \ {t} : q.width[u] = r.width[u] /\ q.cols[u] = r.cols[u]
  /\ FlipOk(r, cur, sh) => FlipOk(q, cur, sh)
  /\ r.vsync => q.vsync /\ q.front = r.front
  /\ q.width = r.width => q.buf = r.buf

LEMMA AdjustSized ==
  ASSUME NEW r, NEW cur, NEW sh, NEW T \in SUBSET Terminal, NEW t \in Terminal, Most(r, cur, sh, T),
         NEW d, NEW x, NEW q, Adjusted(r, x, q, t, d), t \notin T
  PROVE  /\ Most(x, cur, sh, T) /\ Most(Sized(x, t), cur, sh, T \cup {t})
         /\ FlipOk(r, cur, sh) => FlipOk(x, cur, sh) /\ FlipOk(Sized(x, t), cur, sh)
  <1>1. Changes(r, x, {"cols"}) /\ \A u \in Terminal \ {t} : x.cols[u] = r.cols[u]
    BY DEF Adjusted
  <1>2. /\ x.mode = r.mode /\ x.plugged = r.plugged /\ x.open = r.open /\ x.awake = r.awake
        /\ x.vsync = r.vsync /\ x.front = r.front /\ x.scanned = r.scanned
        /\ x.swapping = r.swapping /\ x.plane = r.plane /\ x.width = r.width /\ x \in State
    BY <1>1 DEF Changes, Field
  <1>3. ASSUME NEW u \in T PROVE SizeOk(x, u)
    <2>1. SizeOk(r, u) /\ u \in Terminal \ {t}
      BY DEF Most
    <2> QED
      BY <1>1, <1>2, <2>1, SizeKept
  <1>4. Most(x, cur, sh, T)
    BY <1>2, <1>3 DEF Most
  <1>5. FlipOk(r, cur, sh) => FlipOk(x, cur, sh)
    BY <1>2 DEF FlipOk
  <1> QED
    BY <1>4, <1>5, SizedMost

LEMMA AdjustMost ==
  ASSUME NEW r, NEW cur, NEW sh, NEW T \in SUBSET Terminal, NEW t \in Terminal, Most(r, cur, sh, T),
         NEW d \in Display, d # Lit, NEW x, NEW q, Adjusted(r, x, q, t, d), t \notin T,
         OthersFit(r, t, d)
  PROVE  Follows(r, q, cur, sh, T, t)
  <1>1. /\ r \in State /\ cur \in r.open /\ Lit \in r.plugged
        /\ r.awake = IF sh THEN {cur} ELSE {}
    BY DEF Most
  <1>2. MaxCols \in Nat \ {0}
    BY <1>1, MaxColsFacts
  <1>3. /\ Changes(r, x, {"cols"})
        /\ \A u \in Terminal \ {t} : x.cols[u] = r.cols[u]
        /\ \A e \in Display \ {d} : x.cols[t][e] = r.cols[t][e]
    BY DEF Adjusted
  <1>4. /\ x.mode = r.mode /\ x.plugged = r.plugged /\ x.open = r.open /\ x.awake = r.awake
        /\ x.vsync = r.vsync /\ x.front = r.front /\ x.scanned = r.scanned /\ x.buf = r.buf
        /\ x.swapping = r.swapping /\ x.plane = r.plane /\ x.width = r.width /\ x \in State
    BY <1>3 DEF Changes, Field
  <1>5. FlipOk(r, cur, sh) => FlipOk(x, cur, sh)
    BY AdjustSized
  <1>6. Most(x, cur, sh, T)
    BY AdjustSized
  <1>7. CASE Smallest(x, t) = r.width[t]
    <2>1. q = x /\ (d \in r.plugged => x.cols[t][d] = r.width[t])
      BY <1>7 DEF Adjusted
    <2>2. r.plugged \subseteq Display
      BY <1>1 DEF State
    <2>3. SizeOk(x, t)
      BY <1>3, <1>4, <1>7, <2>1, <2>2 DEF SizeOk, OthersFit
    <2>4. Most(x, cur, sh, T \cup {t})
      BY <1>6, <2>3 DEF Most
    <2>5. Changes(r, x, AdjustField)
      BY <1>3 DEF Changes, AdjustField
    <2> QED
      BY <1>3, <1>4, <1>5, <2>1, <2>4, <2>5 DEF Follows
  <1>8. CASE Smallest(x, t) # r.width[t]
    <2> DEFINE s == Sized(x, t)
    <2>1. q = RedrawAll(s, t)
      BY <1>8 DEF Adjusted
    <2>2. /\ Most(s, cur, sh, T \cup {t})
          /\ FlipOk(x, cur, sh) => FlipOk(s, cur, sh)
          /\ s.vsync = x.vsync /\ s.front = x.front /\ s.scanned = x.scanned
      BY <1>6, SizedMost
    <2>3. /\ Changes(x, s, {"width", "buf", "glass", "cols", "redraw", "cursor"})
          /\ s.width[t] = Smallest(x, t)
          /\ \A u \in Terminal \ {t} : s.width[u] = x.width[u] /\ s.cols[u] = x.cols[u]
      BY <1>1, <1>2, <1>4, SizedFacts
    <2> HIDE DEF s
    <2>4. /\ Most(q, cur, sh, T \cup {t})
          /\ FlipOk(s, cur, sh) => FlipOk(q, cur, sh)
          /\ s.vsync => q.vsync /\ q.front = s.front
          /\ Changes(s, q, RedrawField)
      BY <2>1, <2>2, RedrawMost
    <2>5. q.width = s.width /\ q.cols = s.cols
      BY <2>4 DEF Changes, Field, RedrawField
    <2>6. Changes(r, q, AdjustField)
      <3>1. Changes(x, s, AdjustField) /\ Changes(s, q, AdjustField) /\ Changes(r, x, AdjustField)
        BY <1>3, <2>3, <2>4 DEF Changes, AdjustField, RedrawField
      <3> QED
        BY <3>1 DEF Changes
    <2>7. q.width # r.width
      BY <1>8, <2>3, <2>5
    <2> QED
      BY <1>3, <1>4, <1>5, <2>2, <2>3, <2>4, <2>5, <2>6, <2>7 DEF Follows
  <1> QED
    BY <1>7, <1>8

-----------------------------------------------------------------------------
(***************************************************************************)
(* What the display shows, where the console is used in a plain way.  What *)
(* bbulk remembers of the screen t is what is on the display and in the     *)
(* buffer that it shows; in the other buffer too, but for the cells that are *)
(* damaged.                                                                *)
(***************************************************************************)
Plain  == use \subseteq {"pointer", "colours", "zoom", "plug", "vt", "cursor"}

Remembers(r, t, c) ==
  r.cells[t][c] # "damaged" =>
    /\ r.glass[c] = r.cells[t][c] /\ r.buf[r.front][c] = r.cells[t][c]
    /\ c \notin r.damaged[t] => r.buf[1 - r.front][c] = r.cells[t][c]

Kept(r, t) ==
  t \in r.awake /\ ~Scratch(r, t) => \A c \in Row(r, t) : Remembers(r, t, c)

Bulk(r, t) == ~gl => r.wide[t] = {} /\ r.blob = NoBlob /\ Kept(r, t)

\* The terminal has handed over what it should show.
Seen(r, t) == \A c \in Row(r, t) : r.glass[c] = Shown(r, t, c)
View(r, t) == Bulk(r, t) /\ (t \in r.awake /\ t \notin r.pending => Seen(r, t))

LEMMA CellView ==
  ASSUME NEW r \in State, NEW t \in Terminal, MaxCols \in Nat \ {0}, Fits(r, t), ~gl, t \in r.awake,
         Bulk(r, t), NEW q, Redrawn(r, q, t), BulkRedrawn(r, q, t), ~r.vsync, NEW c \in Row(r, t)
  PROVE  /\ q.glass[c] = Shown(r, t, c)
         /\ q.redraw[t] = 0 => Remembers(q, t, c)
  <1> DEFINE d == Drawn(r, t)
             h == Hurt(r, t)
             ch == r.text[t][c]
  <1>1. /\ r.wide[t] = {} /\ r.blob = NoBlob /\ Row(r, t) \subseteq Cell /\ c \in Cell
        /\ r.text[t] \in [Cell -> Symbol] /\ ch \in Symbol /\ r.front \in {0, 1} /\ r.redraw[t] \in 0..2
    <2>1. r.wide[t] = {} /\ r.blob = NoBlob
      BY DEF Bulk
    <2>2. Row(r, t) \subseteq Cell /\ r.text[t] \in [Cell -> Symbol]
      BY StateFacts
    <2>3. r.front \in {0, 1} /\ r.redraw[t] \in 0..2
      BY DEF State
    <2> QED
      BY <2>1, <2>2, <2>3
  <1>2. /\ c \in Pointed(r, t) => d.pix[c] = "pointer" /\ d.cells[c] = "damaged" /\ c \in d.damaged
        /\ c \notin Pointed(r, t) =>
             /\ d.cells[c] = ch
             /\ Scratch(r, t) => d.pix[c] = ch /\ c \in d.damaged
             /\ ~Scratch(r, t) => CellDrawn(Renderer(r, t), d, ch, c)
    BY <1>1, DrawnFacts
  <1>3. h = NoBlob \/ h = d.damaged \cap Row(r, t)
    BY <1>1, HurtFacts
  <1>4. /\ q.cells[t] = d.cells /\ q.damaged[t] = d.damaged /\ q.redraw[t] = d.redraw
        /\ q.buf[1 - r.front] = d.pix /\ q.front = 1 - r.front
        /\ q.buf[r.front] = r.buf[r.front]
        /\ q.glass[c] = IF h = NoBlob \/ c \in h THEN d.pix[c] ELSE r.glass[c]
    BY <1>1 DEF BulkRedrawn, Redrawn
  <1>5. q.buf[q.front] = d.pix /\ q.buf[1 - q.front] = r.buf[r.front]
    BY <1>1, <1>4
  <1>6. /\ Renderer(r, t).cells = r.cells[t] /\ Renderer(r, t).damaged = r.damaged[t]
        /\ Renderer(r, t).pix = r.buf[1 - r.front]
    BY RendererType
  <1> HIDE DEF d, h, ch
  <1>7. CASE c \in Pointed(r, t)
    <2>1. q.glass[c] = "pointer"
      BY <1>2, <1>3, <1>4, <1>7
    <2>2. q.cells[t][c] = "damaged"
      BY <1>2, <1>4, <1>7
    <2> QED
      BY <1>7, <2>1, <2>2 DEF Shown, Remembers
  <1>8. CASE c \notin Pointed(r, t) /\ Scratch(r, t)
    <2>1. q.glass[c] = ch /\ d.pix[c] = ch /\ d.cells[c] = ch /\ c \in d.damaged
      BY <1>2, <1>3, <1>4, <1>8
    <2>2. Remembers(q, t, c)
      BY <1>4, <1>5, <2>1 DEF Remembers
    <2> QED
      BY <1>8, <2>1, <2>2 DEF Shown, ch
  <1>9. CASE c \notin Pointed(r, t) /\ ~Scratch(r, t)
    <2>1. Remembers(r, t, c)
      BY <1>9 DEF Bulk, Kept
    <2>2. ch # "damaged"
      BY <1>1 DEF Symbol
    <2>3. CellDrawn(Renderer(r, t), d, ch, c) /\ d.cells[c] = ch
      BY <1>2, <1>9
    <2>4. CASE r.cells[t][c] = ch
      <3>1. r.glass[c] = ch /\ r.buf[r.front][c] = ch
        BY <2>1, <2>2, <2>4 DEF Remembers
      <3>2. d.pix[c] = ch
        BY <1>6, <2>1, <2>2, <2>3, <2>4 DEF Remembers, CellDrawn
      <3>3. q.glass[c] = ch
        BY <1>4, <3>1, <3>2
      <3>4. Remembers(q, t, c)
        BY <1>4, <1>5, <2>3, <3>1, <3>2, <3>3 DEF Remembers
      <3> QED
        BY <1>9, <3>3, <3>4 DEF Shown, ch
    <2>5. CASE r.cells[t][c] # ch
      <3>1. d.pix[c] = ch /\ c \in d.damaged
        BY <1>6, <2>3, <2>5 DEF CellDrawn
      <3>2. q.glass[c] = ch
        BY <1>3, <1>4, <3>1
      <3>3. Remembers(q, t, c)
        BY <1>4, <1>5, <2>3, <3>1, <3>2 DEF Remembers
      <3> QED
        BY <1>9, <3>2, <3>3 DEF Shown, ch
    <2> QED
      BY <2>4, <2>5
  <1> QED
    BY <1>7, <1>8, <1>9

LEMMA DrawView ==
  ASSUME NEW r \in State, NEW t \in Terminal, MaxCols \in Nat \ {0}, Fits(r, t), t \in r.awake,
         Bulk(r, t), NEW q, Redrawn(r, q, t), ~gl => BulkRedrawn(r, q, t), r.vsync => r.need
  PROVE  Bulk(q, t) /\ (~r.vsync => Seen(q, t))
  <1>1. /\ q.text = r.text /\ q.pointer = r.pointer /\ q.cols = r.cols /\ q.awake = r.awake
    BY DEF Redrawn, Changes, RedrawField, Field
  <1>2. Row(q, t) = Row(r, t) /\ \A c : Shown(q, t, c) = Shown(r, t, c)
    BY <1>1 DEF Row, Shown, Pointed
  <1>3. CASE gl
    <2>1. ~r.vsync => q.glass = GlFrame(r, t)
      BY <1>3 DEF Redrawn
    <2>2. \A c \in Row(r, t) : GlFrame(r, t)[c] = Shown(r, t, c)
      BY GlFrameFacts
    <2> QED
      BY <1>2, <1>3, <2>1, <2>2 DEF Bulk, Seen
  <1>4. CASE ~gl
    <2>1. /\ q.wide[t] = Drawn(r, t).wide /\ r.wide[t] = {} /\ r.blob = NoBlob
          /\ r.vsync => q.blob = Hurt(r, t) /\ q.need = r.need
          /\ ~r.vsync => q.blob = NoBlob
      BY <1>4 DEF Bulk, BulkRedrawn, Redrawn
    <2>2. q.wide[t] = {}
      BY <2>1, DrawnFacts
    <2>3. q.blob = NoBlob
      BY <2>1, HurtFacts
    <2>4. CASE r.vsync
      <3>1. Scratch(q, t)
        BY <2>1, <2>4 DEF Scratch
      <3> QED
        BY <2>2, <2>3, <2>4, <3>1 DEF Bulk, Kept
    <2>5. CASE ~r.vsync
      <3>1. \A c \in Row(r, t) : /\ q.glass[c] = Shown(r, t, c)
                                 /\ q.redraw[t] = 0 => Remembers(q, t, c)
        BY <1>4, <2>5, CellView
      <3>2. ~Scratch(q, t) => q.redraw[t] = 0
        <4>1. q.redraw[t] \in 0..2
          BY DEF Redrawn, Changes, State
        <4> QED
          BY <4>1 DEF Scratch
      <3>3. Kept(q, t)
        BY <1>2, <3>1, <3>2 DEF Kept
      <3> QED
        BY <1>2, <2>2, <2>3, <3>1, <3>3 DEF Bulk, Seen
    <2> QED
      BY <2>4, <2>5
  <1> QED
    BY <1>3, <1>4

\* Fields that have nothing to do with what is drawn and shown.
LEMMA BulkSame ==
  ASSUME NEW r, NEW t, NEW q, NEW F, Bulk(r, t), Changes(r, q, F),
         F \subseteq {"text", "pointer", "cursor", "swapping", "pending", "vsync", "scanned", "plane",
                      "plugged", "open", "mode", "width"}
  PROVE  Bulk(q, t)
  <1>1. /\ q.cells = r.cells /\ q.damaged = r.damaged /\ q.wide = r.wide /\ q.known = r.known
        /\ q.redraw = r.redraw /\ q.buf = r.buf /\ q.front = r.front /\ q.glass = r.glass
        /\ q.need = r.need /\ q.blob = r.blob /\ q.awake = r.awake /\ q.cols = r.cols
    BY DEF Changes, Field
  <1>2. Row(q, t) = Row(r, t) /\ Scratch(q, t) = Scratch(r, t)
    BY <1>1 DEF Row, Scratch
  <1>3. \A c : Remembers(r, t, c) <=> Remembers(q, t, c)
    BY <1>1 DEF Remembers
  <1> QED
    BY <1>1, <1>2, <1>3 DEF Bulk, Kept

\* The next frame is drawn from scratch.
LEMMA BulkScratch ==
  ASSUME NEW t, NEW q, ~gl => q.wide[t] = {} /\ q.blob = NoBlob,
         ~gl => t \notin q.awake \/ Scratch(q, t)
  PROVE  Bulk(q, t)
  BY DEF Bulk, Kept

LEMMA RedrawView ==
  ASSUME NEW r \in State, NEW t \in Terminal, MaxCols \in Nat \ {0}, Fits(r, t), Bulk(r, t),
         r.vsync /\ t \notin r.swapping => r.need
  PROVE  /\ Bulk(RedrawAll(r, t), t)
         /\ (r.vsync => t \in r.swapping) => View(RedrawAll(r, t), t)
  <1> DEFINE q == RedrawAll(r, t)
  <1>1. RedrawnAll(r, q, t)
    BY RedrawAllFacts
  <1> HIDE DEF q
  <1>2. CASE t \notin r.awake /\ q = r
    BY <1>2 DEF View, q
  <1>3. CASE t \in r.awake /\ t \in r.swapping /\ Changes(r, q, {"pending"}) /\ q.pending = r.pending \cup {t}
    <2>1. Bulk(q, t)
      BY <1>3, BulkSame
    <2> QED
      BY <1>3, <2>1 DEF View, q
  <1>4. CASE t \in r.awake /\ t \notin r.swapping /\ Redrawn(r, q, t) /\ (~gl => BulkRedrawn(r, q, t))
    <2>1. Bulk(q, t) /\ (~r.vsync => Seen(q, t))
      BY <1>4, DrawView
    <2> QED
      BY <1>4, <2>1 DEF View, q
  <1> QED
    BY <1>1, <1>2, <1>3, <1>4 DEF RedrawnAll

LEMMA FitsFacts ==
  ASSUME Plain, NEW r \in State, NEW t \in Terminal, MaxCols \in Nat \ {0}, Lit \in r.plugged,
         SizeOk(r, t)
  PROVE  Fits(r, t)
  <1>1. Smallest(r, t) <= Fit[r.mode[t]][Lit]
    BY SmallestFacts
  <1>2. "turn" \notin use /\ "wide" \notin use /\ "rail" \notin use
    BY DEF Plain
  <1> QED
    BY <1>1, <1>2 DEF Fits, SizeOk

LEMMA RedrawNeed ==
  ASSUME NEW r \in State, NEW t \in Terminal, MaxCols \in Nat \ {0}, r.vsync
  PROVE  RedrawAll(r, t).need = r.need
  <1> DEFINE q == RedrawAll(r, t)
  <1>1. RedrawnAll(r, q, t)
    BY RedrawAllFacts
  <1> HIDE DEF q
  <1>2. q.need = r.need
    BY <1>1 DEF RedrawnAll, Redrawn, Changes, Field
  <1> QED
    BY <1>2 DEF q

\* A redraw in front, whatever was shown before.
LEMMA CoreView ==
  ASSUME Plain, NEW r, NEW cur, NEW sh, NEW T, Most(r, cur, sh, T), cur \in T, FlipOk(r, cur, sh),
         Bulk(r, cur)
  PROVE  View(RedrawAll(r, cur), cur)
  <1>1. /\ r \in State /\ cur \in Terminal /\ MaxCols \in Nat \ {0} /\ Lit \in r.plugged
        /\ SizeOk(r, cur) /\ r.awake = IF sh THEN {cur} ELSE {}
    BY MaxColsFacts DEF Most
  <1>2. Fits(r, cur)
    BY <1>1, FitsFacts
  <1>3. CASE sh
    <2>1. r.vsync => cur \in r.swapping
      BY <1>3 DEF FlipOk
    <2> QED
      BY <1>1, <1>2, <2>1, RedrawView
  <1>4. CASE ~sh
    <2>1. cur \notin r.awake
      BY <1>1, <1>4
    <2>2. RedrawAll(r, cur) = r
      BY <2>1 DEF RedrawAll
    <2> QED
      BY <2>1, <2>2 DEF View
  <1> QED
    BY <1>3, <1>4

\* What is drawn and shown of t is the same in r and q.
SameDraw(r, q, t) ==
  /\ q.cells[t] = r.cells[t] /\ q.damaged[t] = r.damaged[t] /\ q.wide[t] = r.wide[t]
  /\ q.known[t] = r.known[t] /\ q.redraw[t] = r.redraw[t] /\ q.cols[t][Lit] = r.cols[t][Lit]
  /\ q.buf = r.buf /\ q.front = r.front /\ q.glass = r.glass
  /\ q.need = r.need /\ q.blob = r.blob /\ q.awake = r.awake

LEMMA SameDrawFacts ==
  ASSUME NEW r, NEW q, NEW t, SameDraw(r, q, t)
  PROVE  /\ Bulk(r, t) => Bulk(q, t)
         /\ View(r, t) /\ q.text = r.text /\ q.pointer = r.pointer /\ q.pending = r.pending
              => View(q, t)
  <1>1. Row(q, t) = Row(r, t) /\ Scratch(q, t) = Scratch(r, t)
    BY DEF SameDraw, Row, Scratch
  <1>2. \A c : Remembers(r, t, c) <=> Remembers(q, t, c)
    BY DEF SameDraw, Remembers
  <1>3. Bulk(r, t) => Bulk(q, t)
    BY <1>1, <1>2 DEF SameDraw, Bulk, Kept
  <1>4. ASSUME q.text = r.text, q.pointer = r.pointer
        PROVE  Seen(r, t) => Seen(q, t)
    <2>1. \A c : Shown(q, t, c) = Shown(r, t, c)
      BY <1>4 DEF SameDraw, Shown, Pointed
    <2>2. q.glass = r.glass
      BY DEF SameDraw
    <2> QED
      BY <1>1, <2>1, <2>2 DEF Seen
  <1>5. q.awake = r.awake
    BY DEF SameDraw
  <1> QED
    BY <1>3, <1>4, <1>5 DEF View

\* The terminals follow a display that comes, with the displays' modes just set, or
\* one that goes.
Ready(base, cur) == FlipOk(base, cur, TRUE) \/ (base.vsync /\ base.need)

FollowingView(base, cur, h) ==
  Bulk(base, cur) =>
    /\ Bulk(h, cur)
    /\ base.vsync /\ base.need => h.need
    /\ FlipOk(base, cur, TRUE) /\ View(base, cur) => View(h, cur)

-----------------------------------------------------------------------------
(***************************************************************************)
(* The hardware cursor, where nothing replaces it.                         *)
(***************************************************************************)
Steady == use \subseteq {"pointer", "plug", "vt", "cursor"}

\* The sessions use one font.
Alike(r, cur) == \A t \in r.open : r.mode[t] = r.mode[cur]

\* The display's cursor follows the pointer of the terminal in front.
Pointing(r, cur) ==
  IF HardwareCursor
  THEN /\ r.cursor.active /\ (r.cursor.visible <=> r.pointer[cur] # 0)
       /\ r.cursor.visible => r.cursor.at = r.pointer[cur]
       /\ r.cursor.origin = Border(r.mode[cur], r.width[cur])
  ELSE cur \in r.awake => r.plane = Hidden

\* What the cursor plane should show.
PlaneOf(r, cur) ==
  IF ~HardwareCursor \/ r.pointer[cur] = 0 THEN Hidden
  ELSE <<Border(r.mode[cur], r.width[cur]), r.pointer[cur]>>

Aim(r, cur) ==
  /\ Alike(r, cur) /\ Pointing(r, cur)
  /\ cur \in r.awake /\ cur \notin r.pending => r.plane = PlaneOf(r, cur)

LEMMA PointingShows ==
  ASSUME NEW r, NEW cur, Pointing(r, cur), HardwareCursor
  PROVE  Shows(r.cursor) = PlaneOf(r, cur)
  BY DEF Pointing, Shows, PlaneOf

\* Fields that have nothing to do with the cursor.
LEMMA AimSame ==
  ASSUME NEW r, NEW cur, NEW q, NEW F, Changes(r, q, F),
         F \cap {"open", "mode", "width", "cursor", "pointer", "awake", "plane", "pending"} = {}
  PROVE  /\ Alike(r, cur) => Alike(q, cur)
         /\ Pointing(r, cur) => Pointing(q, cur)
         /\ Aim(r, cur) => Aim(q, cur)
  <1>1. /\ q.open = r.open /\ q.mode = r.mode /\ q.width = r.width /\ q.cursor = r.cursor
        /\ q.pointer = r.pointer /\ q.awake = r.awake /\ q.plane = r.plane
        /\ q.pending = r.pending
    BY DEF Changes, Field
  <1>2. Alike(r, cur) => Alike(q, cur)
    BY <1>1 DEF Alike
  <1>3. Pointing(r, cur) => Pointing(q, cur)
    BY <1>1 DEF Pointing
  <1>4. PlaneOf(q, cur) = PlaneOf(r, cur)
    BY <1>1 DEF PlaneOf
  <1> QED
    BY <1>1, <1>2, <1>3, <1>4 DEF Aim

\* A redraw in front commits the cursor, or is itself to come.
RedrawnPlane(r, q, cur) ==
  /\ q.cursor = r.cursor
  /\ HardwareCursor => (cur \in r.awake /\ cur \notin q.pending => q.plane = Shows(r.cursor))
  /\ ~HardwareCursor => q.plane = r.plane

LEMMA RedrawPlane ==
  ASSUME NEW r, NEW cur, NEW sh, NEW T, Most(r, cur, sh, T), FlipOk(r, cur, sh)
  PROVE  RedrawnPlane(r, RedrawAll(r, cur), cur)
  <1> DEFINE q == RedrawAll(r, cur)
  <1>1. /\ r \in State /\ cur \in Terminal /\ MaxCols \in Nat \ {0}
        /\ r.awake = IF sh THEN {cur} ELSE {}
    BY MaxColsFacts DEF Most
  <1>2. RedrawnAll(r, q, cur) /\ Changes(r, q, RedrawField)
    BY <1>1, RedrawAllFacts
  <1> SUFFICES RedrawnPlane(r, q, cur)
    OBVIOUS
  <1> HIDE DEF q
  <1>3. q.cursor = r.cursor
    BY <1>2 DEF Changes, Field, RedrawField
  <1>4. CASE cur \notin r.awake /\ q = r
    BY <1>4 DEF RedrawnPlane
  <1>5. CASE Changes(r, q, {"pending"}) /\ q.pending = r.pending \cup {cur}
    BY <1>3, <1>5 DEF RedrawnPlane, Changes, Field
  <1>6. CASE cur \in r.awake /\ cur \notin r.swapping /\ Redrawn(r, q, cur)
    <2>1. ~r.vsync
      BY <1>1, <1>6 DEF FlipOk
    <2>2. q.plane = IF HardwareCursor THEN Shows(r.cursor) ELSE r.plane
      BY <1>6, <2>1 DEF Redrawn
    <2> QED
      BY <1>3, <2>2 DEF RedrawnPlane
  <1> QED
    BY <1>2, <1>4, <1>5, <1>6 DEF RedrawnAll

LEMMA RedrawnCursor ==
  ASSUME NEW r \in State, NEW cur \in Terminal, MaxCols \in Nat \ {0}
  PROVE  /\ RedrawAll(r, cur).cursor = r.cursor
         /\ ~HardwareCursor => RedrawAll(r, cur).plane = r.plane
  <1> DEFINE q == RedrawAll(r, cur)
  <1> SUFFICES q.cursor = r.cursor /\ (~HardwareCursor => q.plane = r.plane)
    OBVIOUS
  <1>1. RedrawnAll(r, q, cur) /\ Changes(r, q, RedrawField)
    BY RedrawAllFacts
  <1> HIDE DEF q
  <1>2. q.cursor = r.cursor
    BY <1>1 DEF Changes, Field, RedrawField
  <1>3. CASE q = r
    BY <1>3
  <1>4. CASE Changes(r, q, {"pending"})
    BY <1>4 DEF Changes, Field
  <1>5. CASE cur \in r.awake /\ Redrawn(r, q, cur)
    <2>1. CASE r.vsync
      BY <1>2, <1>5, <2>1 DEF Redrawn
    <2>2. CASE ~r.vsync
      BY <1>2, <1>5, <2>2 DEF Redrawn
    <2> QED
      BY <2>1, <2>2
  <1> QED
    BY <1>1, <1>3, <1>4, <1>5 DEF RedrawnAll

LEMMA RedrawAim ==
  ASSUME NEW r, NEW cur, NEW sh, NEW T, Most(r, cur, sh, T), FlipOk(r, cur, sh),
         Alike(r, cur), Pointing(r, cur)
  PROVE  Aim(RedrawAll(r, cur), cur)
  <1> DEFINE q == RedrawAll(r, cur)
  <1>1. r \in State /\ cur \in Terminal /\ MaxCols \in Nat \ {0}
    BY MaxColsFacts DEF Most
  <1>2. RedrawnPlane(r, q, cur)
    BY RedrawPlane
  <1>3. Changes(r, q, RedrawField)
    BY <1>1, RedrawAllFacts
  <1> HIDE DEF q
  <1>4. /\ q.open = r.open /\ q.mode = r.mode /\ q.width = r.width /\ q.cursor = r.cursor
        /\ q.pointer = r.pointer /\ q.awake = r.awake
    BY <1>3 DEF Changes, Field, RedrawField
  <1>5. Alike(q, cur)
    BY <1>4 DEF Alike
  <1>6. Pointing(q, cur)
    BY <1>2, <1>4 DEF Pointing, RedrawnPlane
  <1>7. PlaneOf(q, cur) = PlaneOf(r, cur)
    BY <1>4 DEF PlaneOf
  <1>8. ASSUME cur \in q.awake, cur \notin q.pending PROVE q.plane = PlaneOf(q, cur)
    <2>1. CASE HardwareCursor
      BY <1>2, <1>4, <1>7, <1>8, <2>1, PointingShows DEF RedrawnPlane
    <2>2. CASE ~HardwareCursor
      BY <1>4, <1>6, <1>8, <2>2 DEF Pointing, PlaneOf
    <2> QED
      BY <2>1, <2>2
  <1>9. Aim(q, cur)
    BY <1>5, <1>6, <1>8 DEF Aim
  <1> QED
    BY <1>9 DEF q

\* The display shows what it should, wherever that is promised.
Faithful(r, cur) == (Plain => View(r, cur)) /\ (Steady => Aim(r, cur))

LEMMA RedrawFaithful ==
  ASSUME NEW r, NEW cur, NEW sh, Core(r, cur, sh), Plain => Bulk(r, cur),
         Steady => Alike(r, cur) /\ Pointing(r, cur)
  PROVE  Faithful(RedrawAll(r, cur), cur)
  <1>1. Most(r, cur, sh, r.open) /\ FlipOk(r, cur, sh) /\ cur \in r.open
    BY DEF Core, Most
  <1>2. ASSUME Plain PROVE View(RedrawAll(r, cur), cur)
    BY <1>1, <1>2, CoreView
  <1>3. ASSUME Steady PROVE Aim(RedrawAll(r, cur), cur)
    BY <1>1, <1>3, RedrawAim
  <1> QED
    BY <1>2, <1>3 DEF Faithful

-----------------------------------------------------------------------------
(***************************************************************************)
(* Every handler keeps the invariant.                                      *)
(***************************************************************************)
LEMMA CoreSame ==
  ASSUME NEW r, NEW cur, NEW sh, Core(r, cur, sh), NEW x, NEW F, Changes(r, x, F),
         F \subseteq {"text", "pointer", "known", "cursor"}
  PROVE  Core(x, cur, sh) /\ x.buf = r.buf /\ x.scanned = r.scanned
  <1>1. F \cap SizeField = {}
    BY DEF SizeField
  <1>2. /\ x.plugged = r.plugged /\ x.open = r.open
        /\ \A u : SizeOk(x, u) <=> SizeOk(r, u)
    BY <1>1, SizeSame
  <1>3. /\ x.awake = r.awake /\ x.vsync = r.vsync /\ x.scanned = r.scanned /\ x.front = r.front
        /\ x.swapping = r.swapping /\ x.plane = r.plane /\ x.buf = r.buf /\ x \in State
    BY DEF Changes, Field
  <1> QED
    BY <1>2, <1>3 DEF Core, Most, FlipOk

LEMMA RedrawCore ==
  ASSUME NEW r, NEW cur, NEW sh, Core(r, cur, sh), NEW x, NEW F, Changes(r, x, F),
         F \subseteq {"text", "pointer", "known", "cursor"}
  PROVE  Core(RedrawAll(x, cur), cur, sh) /\ Clean(r, RedrawAll(x, cur))
  <1>1. Core(x, cur, sh) /\ x.buf = r.buf
    BY CoreSame
  <1>2. cur \in Terminal
    BY <1>1, MaxColsFacts DEF Core, Most
  <1> DEFINE q == RedrawAll(x, cur)
  <1>3. /\ Most(q, cur, sh, x.open) /\ FlipOk(q, cur, sh) /\ Clean(x, q)
        /\ Changes(x, q, RedrawField)
    BY <1>1, <1>2, RedrawMost DEF Core
  <1> HIDE DEF q
  <1>4. q.open = x.open
    BY <1>3 DEF Changes, RedrawField, Field
  <1>5. Clean(r, q)
    BY <1>1, <1>3 DEF Clean
  <1> QED
    BY <1>3, <1>4, <1>5 DEF Core, q

LEMMA ZoomCore ==
  ASSUME NEW r, NEW cur, NEW sh, Core(r, cur, sh), NEW m \in Mode
  PROVE  /\ Most(WithMode(r, cur, m), cur, sh, r.open \ {cur})
         /\ FlipOk(WithMode(r, cur, m), cur, sh)
         /\ WithMode(r, cur, m).open = r.open /\ WithMode(r, cur, m).mode[cur] = m
  <1> DEFINE w == WithMode(r, cur, m)
  <1>1. /\ r \in State /\ cur \in r.open /\ Lit \in r.plugged /\ r.awake = IF sh THEN {cur} ELSE {}
        /\ \A t \in r.open : SizeOk(r, t)
    BY DEF Core, Most
  <1>2. MaxCols \in Nat \ {0} /\ cur \in Terminal /\ r.open \subseteq Terminal
    BY <1>1, MaxColsFacts DEF State
  <1>3. Refitted(r, w, cur, m)
    BY <1>1, <1>2, WithModeFacts
  <1> HIDE DEF w
  <1>4. /\ w.plugged = r.plugged /\ w.open = r.open /\ w.awake = r.awake /\ w.width = r.width
        /\ w.vsync = r.vsync /\ w.front = r.front /\ w.scanned = r.scanned
        /\ w.swapping = r.swapping /\ w.plane = r.plane /\ w \in State
    BY <1>3 DEF Refitted, Changes, Field
  <1>5. ASSUME NEW u \in r.open \ {cur} PROVE SizeOk(w, u)
    <2>1. w.mode[u] = r.mode[u] /\ w.cols[u] = r.cols[u]
      BY <1>2, <1>3 DEF Refitted
    <2>2. Smallest(w, u) = Smallest(r, u)
      BY <1>4, <2>1 DEF Smallest
    <2>3. SizeOk(r, u)
      BY <1>1
    <2> QED
      BY <1>4, <2>1, <2>2, <2>3 DEF SizeOk
  <1>6. w.mode[cur] = m
    BY <1>3 DEF Refitted
  <1> QED
    BY <1>1, <1>4, <1>5, <1>6 DEF Core, Most, FlipOk, w

LEMMA FontSetCore ==
  ASSUME NEW r, NEW cur, NEW sh, Core(r, cur, sh), NEW m \in Mode
  PROVE  /\ Core(FontSet(r, cur, m), cur, sh) /\ FontSet(r, cur, m).mode[cur] = m
         /\ Faithful(r, cur) /\ ~Steady => Faithful(FontSet(r, cur, m), cur)
  <1> DEFINE w == WithMode(r, cur, m)
             s == Sized(w, cur)
             q == RedrawAll(s, cur)
  <1>1. MaxCols \in Nat \ {0} /\ cur \in Terminal /\ r.open \subseteq Terminal
    BY MaxColsFacts DEF Core, Most, State
  <1>2. FontSet(r, cur, m) = q
    BY <1>1, FontFacts DEF Core, Most
  <1>3. Most(w, cur, sh, r.open \ {cur}) /\ FlipOk(w, cur, sh) /\ w.open = r.open /\ w.mode[cur] = m
    BY ZoomCore
  <1>9. Refitted(r, w, cur, m)
    BY <1>1, WithModeFacts DEF Core, Most
  <1> HIDE DEF w
  <1>4. Most(s, cur, sh, (r.open \ {cur}) \cup {cur}) /\ FlipOk(s, cur, sh)
    BY <1>1, <1>3, SizedMost
  <1>5. (r.open \ {cur}) \cup {cur} = r.open
    BY DEF Core, Most
  <1>6. /\ s.open = r.open /\ s.mode[cur] = m
        /\ s.known = w.known /\ s.wide = w.wide /\ s.blob = w.blob
    <2>1. w \in State /\ Lit \in w.plugged
      BY <1>3 DEF Most
    <2>2. Changes(w, s, {"width", "buf", "glass", "cols", "redraw", "cursor"})
      BY <1>1, <2>1, SizedFacts
    <2> QED
      BY <1>3, <2>2 DEF Changes, Field
  <1> HIDE DEF s
  <1>7. Most(q, cur, sh, r.open) /\ FlipOk(q, cur, sh) /\ Changes(s, q, RedrawField)
    BY <1>1, <1>4, <1>5, RedrawMost
  <1>8. q.open = r.open /\ q.mode = s.mode
    BY <1>6, <1>7 DEF Changes, RedrawField, Field
  <1>10. ASSUME Faithful(r, cur), ~Steady PROVE Faithful(q, cur)
    <2>1. w.blob = r.blob
      BY <1>9 DEF Refitted, Changes, Field
    <2>2. ASSUME Plain PROVE Bulk(s, cur)
      <3>1. ~gl => s.wide[cur] = {} /\ s.blob = NoBlob
        BY <1>6, <1>9, <1>10, <2>1, <2>2 DEF Refitted, Faithful, View, Bulk
      <3>2. ~gl => Scratch(s, cur)
        BY <1>6, <1>9 DEF Refitted, Scratch
      <3> QED
        BY <3>1, <3>2, BulkScratch
    <2>3. Core(s, cur, sh)
      BY <1>4, <1>5, <1>6 DEF Core
    <2> QED
      BY <1>10, <2>2, <2>3, RedrawFaithful DEF q
  <1> QED
    BY <1>2, <1>6, <1>7, <1>8, <1>10 DEF Core

LEMMA RotateCore ==
  ASSUME NEW r, NEW cur, NEW sh, Core(r, cur, sh), "turn" \in use
  PROVE  Core(RotateAll(r, cur), cur, sh) /\ RotateAll(r, cur).mode[cur] = Turned(r.mode[cur])
  <1> DEFINE m == Turned(r.mode[cur])
             w == WithMode(r, cur, m)
             s == Sized(w, cur)
             q == RedrawAll(s, cur)
  <1>1. /\ MaxCols \in Nat \ {0} /\ cur \in Terminal /\ r.open \subseteq Terminal
        /\ r \in State /\ cur \in r.open /\ Lit \in r.plugged
    BY MaxColsFacts DEF Core, Most, State
  <1>2. m \in Mode /\ RotateAll(r, cur) = UpdateSize(w, cur, r.width[cur])
    BY <1>1, RotateFacts
  <1> HIDE DEF m
  <1>3. Most(w, cur, sh, r.open \ {cur}) /\ FlipOk(w, cur, sh) /\ w.open = r.open /\ w.mode[cur] = m
    BY <1>2, ZoomCore
  <1>4. Refitted(r, w, cur, m)
    BY <1>1, <1>2, WithModeFacts
  <1> HIDE DEF w
  <1>5. w \in State /\ Lit \in w.plugged /\ w.width = r.width
    BY <1>3, <1>4 DEF Most, Refitted, Changes, Field
  <1>6. /\ Smallest(w, cur) = r.width[cur] => RotateAll(r, cur) = w
        /\ Smallest(w, cur) # r.width[cur] => RotateAll(r, cur) = q
    BY <1>1, <1>2, <1>5, UpdateSizeFacts
  <1>7. Smallest(w, cur) = r.width[cur] => Core(w, cur, sh)
    BY <1>3, <1>5 DEF Core, Most, SizeOk
  <1>8. Most(s, cur, sh, (r.open \ {cur}) \cup {cur}) /\ FlipOk(s, cur, sh)
    BY <1>1, <1>3, SizedMost
  <1>9. (r.open \ {cur}) \cup {cur} = r.open
    BY <1>1
  <1>10. s.open = r.open /\ s.mode[cur] = m
    <2>1. Changes(w, s, {"width", "buf", "glass", "cols", "redraw", "cursor"})
      BY <1>1, <1>5, SizedFacts
    <2> QED
      BY <1>3, <2>1 DEF Changes, Field
  <1> HIDE DEF s
  <1>11. Most(q, cur, sh, r.open) /\ FlipOk(q, cur, sh) /\ Changes(s, q, RedrawField)
    BY <1>1, <1>8, <1>9, RedrawMost
  <1>12. q.open = r.open /\ q.mode = s.mode
    BY <1>10, <1>11 DEF Changes, RedrawField, Field
  <1>13. Core(q, cur, sh)
    BY <1>11, <1>12 DEF Core
  <1> QED
    BY <1>3, <1>6, <1>7, <1>10, <1>12, <1>13 DEF m

\* display_pageflip reaches the terminal in front alone.
Flip(r) == [r EXCEPT !.vsync = FALSE, !.swapping = {}, !.scanned = r.front]

LEMMA FlipFacts ==
  ASSUME NEW r \in State
  PROVE  /\ Changes(r, Flip(r), {"vsync", "swapping", "scanned"})
         /\ ~Flip(r).vsync /\ Flip(r).swapping = {} /\ Flip(r).scanned = r.front
  <1> DEFINE no == FALSE
             none == {}
             f == r.front
             q == [r EXCEPT !.vsync = no, !.swapping = none, !.scanned = f]
  <1>1. no \in Flag /\ none \in SUBSET Terminal /\ f \in {0, 1}
    BY FlagFacts DEF State
  <1>2. Flip(r) = q
    BY DEF Flip
  <1> HIDE DEF no, none, f
  <1>3. /\ Changes(r, q, {"vsync", "swapping", "scanned"})
        /\ q.vsync = no /\ q.swapping = none /\ q.scanned = f
    BY <1>1 DEF Changes, State, Field
  <1> QED
    BY <1>2, <1>3 DEF no, none, f

LEMMA PflipFacts ==
  ASSUME NEW r, NEW cur, NEW sh, Core(r, cur, sh)
  PROVE  Pflip(r) = IF cur \in r.pending THEN RedrawAll(Flip(r), cur) ELSE Flip(r)
  <1> DEFINE base == Flip(r)
             done == Called(base, cur)
             A == {base, done}
             S == base.open
             Q == {p \in A \X SUBSET S : p[1] = IF cur \in p[2] THEN done ELSE base}
  <1>1. /\ r \in State /\ cur \in r.open /\ r.awake = IF sh THEN {cur} ELSE {}
        /\ MaxCols \in Nat \ {0} /\ cur \in Terminal /\ r.open \subseteq Terminal
        /\ IsFiniteSet(r.open)
    BY MaxColsFacts DEF Core, Most, State
  <1>2. /\ Changes(r, base, {"vsync", "swapping", "scanned"}) /\ base.swapping = {}
    BY <1>1, FlipFacts
  <1>3. Pflip(r) = ForTerminals(LAMBDA a, t : IF t \in a.pending THEN DoRedraw(a, t) ELSE a, base)
    BY DEF Pflip, Flip
  <1>4. done = IF cur \in base.pending THEN DoRedraw(base, cur) ELSE base
    BY DEF Called
  <1> HIDE DEF base, done
  <1>5. /\ base \in State /\ base.awake = r.awake /\ base.open = r.open
        /\ base.pending = r.pending
    BY <1>2 DEF Changes, Field
  <1>6. Redrawn(base, DoRedraw(base, cur), cur)
    BY <1>1, <1>5, DoRedrawFacts
  <1>7. done \in State /\ done.awake = base.awake
    BY <1>4, <1>5, <1>6 DEF Redrawn, Changes, RedrawField, Field
  <1>8. ASSUME NEW h \in A, NEW t \in S, t # cur PROVE Called(h, t) = h
    <2>1. h \in State /\ t \notin h.awake /\ t \in Terminal
      BY <1>1, <1>5, <1>7, <1>8
    <2>2. DoRedraw(h, t) = h
      BY <1>1, <2>1, DoRedrawFacts DEF Redrawn
    <2> QED
      BY <2>2 DEF Called
  <1>9. Called(base, cur) = done
    BY DEF done
  <1>10. Called(done, cur) \in A
    <2>1. CASE done = base
      BY <1>9, <2>1
    <2>2. CASE done # base
      <3>1. done = DoRedraw(base, cur) /\ cur \in base.awake
        BY <1>4, <1>6, <2>2 DEF Redrawn
      <3>2. done.pending = base.pending \ {cur}
        BY <1>6, <3>1 DEF Redrawn
      <3> QED
        BY <3>2 DEF Called
    <2> QED
      BY <2>1, <2>2
  <1>11. \A h \in A, t \in S : Called(h, t) \in A
    BY <1>8, <1>9, <1>10
  <1>12. <<base, {}>> \in Q
    OBVIOUS
  <1>13. ASSUME NEW h \in A, NEW T \in SUBSET S, NEW t \in S, t \notin T, <<h, T>> \in Q
         PROVE  <<Called(h, t), T \cup {t}>> \in Q
    <2>1. h = IF cur \in T THEN done ELSE base
      BY <1>13
    <2>2. Called(h, t) \in A /\ T \cup {t} \in SUBSET S
      BY <1>11
    <2>3. Called(h, t) = IF cur \in T \cup {t} THEN done ELSE base
      <3>1. CASE t = cur
        BY <1>9, <1>13, <2>1, <3>1
      <3>2. CASE t # cur
        BY <1>8, <2>1, <3>2
      <3> QED
        BY <3>1, <3>2
    <2> QED
      BY <2>2, <2>3
  <1>14. base \in A /\ IsFiniteSet(base.open)
    BY <1>1, <1>5
  <1> HIDE DEF Q, A
  <1>15. <<Pflip(r), S>> \in Q
    BY <1>3, <1>11, <1>12, <1>13, <1>14, PflipAll
  <1>16. Pflip(r) = done
    <2>1. cur \in S
      BY <1>1, <1>5
    <2> QED
      BY <1>15, <2>1 DEF Q
  <1>17. DoRedraw(base, cur) = RedrawAll(base, cur)
    <2>1. cur \notin base.awake => DoRedraw(base, cur) = base
      BY <1>6 DEF Redrawn
    <2> QED
      BY <1>2, <2>1 DEF RedrawAll
  <1> QED
    BY <1>4, <1>5, <1>16, <1>17 DEF base

LEMMA FlippedCore ==
  ASSUME NEW r, NEW cur, NEW sh, Core(r, cur, sh)
  PROVE  /\ Core(Pflip(r), cur, sh) /\ Clean(r, Pflip(r))
         /\ Faithful(r, cur) => Faithful(Pflip(r), cur)
  <1> DEFINE base == Flip(r)
             q == RedrawAll(base, cur)
  <1>1. r \in State /\ cur \in Terminal
    BY MaxColsFacts DEF Core, Most
  <1>2. /\ Changes(r, base, {"vsync", "swapping", "scanned"})
        /\ ~base.vsync /\ base.scanned = r.front
    BY <1>1, FlipFacts
  <1> HIDE DEF base
  <1>3. /\ base \in State /\ base.awake = r.awake /\ base.plane = r.plane /\ base.buf = r.buf
        /\ base.front = r.front
    BY <1>2 DEF Changes, Field
  <1>4. /\ base.plugged = r.plugged /\ base.open = r.open
        /\ \A u : SizeOk(base, u) <=> SizeOk(r, u)
    <2>1. {"vsync", "swapping", "scanned"} \cap SizeField = {}
      BY DEF SizeField
    <2> QED
      BY <1>2, <2>1, SizeSame
  <1>5. Core(base, cur, sh) /\ Clean(r, base)
    BY <1>2, <1>3, <1>4 DEF Core, Most, FlipOk, Clean
  <1>6. /\ Most(q, cur, sh, base.open) /\ FlipOk(q, cur, sh) /\ Clean(base, q)
        /\ Changes(base, q, RedrawField)
    BY <1>1, <1>5, RedrawMost DEF Core
  <1>10. ASSUME Faithful(r, cur) PROVE Faithful(base, cur) /\ Faithful(q, cur)
    <2>1. ASSUME Plain PROVE View(base, cur)
      <3>1. /\ SameDraw(r, base, cur) /\ base.text = r.text /\ base.pointer = r.pointer
            /\ base.pending = r.pending
        BY <1>2 DEF Changes, Field, SameDraw
      <3> QED
        BY <1>10, <2>1, <3>1, SameDrawFacts DEF Faithful
    <2>2. ASSUME Steady PROVE Aim(base, cur)
      BY <1>2, <1>10, <2>2, AimSame DEF Faithful
    <2>3. Faithful(q, cur)
      BY <1>5, <2>1, <2>2, RedrawFaithful DEF View, Aim
    <2> QED
      BY <2>1, <2>2, <2>3 DEF Faithful
  <1> HIDE DEF q
  <1>7. q.open = base.open
    BY <1>6 DEF Changes, RedrawField, Field
  <1>8. Core(q, cur, sh) /\ Clean(r, q)
    BY <1>3, <1>6, <1>7 DEF Core, Clean
  <1>9. Pflip(r) = IF cur \in r.pending THEN q ELSE base
    BY PflipFacts DEF q, base
  <1> QED
    BY <1>5, <1>8, <1>9, <1>10

\* The terminal that comes to the front.
LEMMA ActivateCore ==
  ASSUME NEW r \in State, NEW t \in r.open, Lit \in r.plugged, \A u \in r.open : SizeOk(r, u),
         r.awake \subseteq {t}, ~r.vsync => r.scanned = r.front
  PROVE  /\ Core(Activate(r, t), t, TRUE) /\ Clean(r, Activate(r, t))
         /\ Activate(r, t).width = r.width
         /\ r.vsync => Activate(r, t).buf = r.buf
  <1>1. MaxCols \in Nat \ {0} /\ t \in Terminal
    BY MaxColsFacts
  <1> DEFINE q == Activate(r, t)
             x == [r EXCEPT !.awake = r.awake \cup {t}]
             s == RedrawAll(x, t)
  <1>2. r.awake \cup {t} = {t} /\ r.awake \cup {t} \in SUBSET Terminal
    BY <1>1
  <1>3. CASE r.vsync
    <2>1. /\ Changes(r, q, {"awake", "swapping", "pending"})
          /\ q.awake = {t} /\ q.swapping = r.swapping \cup {t}
      BY <1>1, <1>2, <1>3, ActivateFacts
    <2> HIDE DEF q
    <2>2. {"awake", "swapping", "pending"} \cap SizeField = {}
      BY DEF SizeField
    <2>3. /\ q.plugged = r.plugged /\ q.open = r.open /\ q.width = r.width
          /\ \A u : SizeOk(q, u) <=> SizeOk(r, u)
      BY <2>1, <2>2, SizeSame
    <2>4. q \in State /\ q.vsync = r.vsync /\ q.buf = r.buf
      BY <2>1 DEF Changes, Field
    <2>5. Core(q, t, TRUE)
      BY <1>3, <2>1, <2>3, <2>4 DEF Core, Most, FlipOk
    <2> QED
      BY <2>3, <2>4, <2>5 DEF Clean, q
  <1>4. CASE ~r.vsync
    <2>1. q = s
      BY <1>1, <1>4, ActivateFacts
    <2>2. Changes(r, x, {"awake"}) /\ x.awake = {t}
      BY <1>2, AwakeFacts
    <2> HIDE DEF x
    <2>3. {"awake"} \cap SizeField = {}
      BY DEF SizeField
    <2>4. /\ x.plugged = r.plugged /\ x.open = r.open /\ x.width = r.width
          /\ \A u : SizeOk(x, u) <=> SizeOk(r, u)
      BY <2>2, <2>3, SizeSame
    <2>5. /\ x \in State /\ x.vsync = r.vsync /\ x.buf = r.buf /\ x.front = r.front
          /\ x.scanned = r.scanned
      BY <2>2 DEF Changes, Field
    <2>6. Most(x, t, TRUE, x.open) /\ FlipOk(x, t, TRUE)
      BY <1>4, <2>2, <2>4, <2>5 DEF Most, FlipOk
    <2>7. /\ Most(s, t, TRUE, x.open) /\ FlipOk(s, t, TRUE) /\ Clean(x, s)
          /\ Changes(x, s, RedrawField)
      BY <1>1, <2>6, RedrawMost
    <2> HIDE DEF s
    <2>8. s.open = x.open /\ s.width = x.width
      BY <2>7 DEF Changes, RedrawField, Field
    <2>9. Core(s, t, TRUE)
      BY <2>7, <2>8 DEF Core
    <2>10. Clean(r, s)
      BY <2>5, <2>7 DEF Clean
    <2> QED
      BY <1>4, <2>1, <2>4, <2>8, <2>9, <2>10
  <1> QED
    BY <1>3, <1>4

LEMMA SwitchCore ==
  ASSUME NEW r, NEW cur, Core(r, cur, TRUE), NEW t \in r.open \ {cur}
  PROVE  /\ Core(Activate(Deactivate(r, cur), t), t, TRUE)
         /\ Clean(r, Activate(Deactivate(r, cur), t))
  <1> DEFINE none == {}
             x == [r EXCEPT !.awake = none]
             q == Activate(x, t)
  <1>1. r \in State /\ r.awake \ {cur} = none /\ none \in SUBSET Terminal
    BY DEF Core, Most
  <1>2. Deactivate(r, cur) = x
    BY <1>1 DEF Deactivate
  <1>3. Changes(r, x, {"awake"}) /\ x.awake = {}
    BY <1>1, AwakeFacts
  <1> HIDE DEF x
  <1>4. {"awake"} \cap SizeField = {}
    BY DEF SizeField
  <1>5. /\ x.plugged = r.plugged /\ x.open = r.open
        /\ \A u : SizeOk(x, u) <=> SizeOk(r, u)
    BY <1>3, <1>4, SizeSame
  <1>6. /\ x \in State /\ x.vsync = r.vsync /\ x.buf = r.buf /\ x.front = r.front
        /\ x.scanned = r.scanned
    BY <1>3 DEF Changes, Field
  <1>7. Lit \in x.plugged /\ (\A u \in x.open : SizeOk(x, u)) /\ (~x.vsync => x.scanned = x.front)
    BY <1>5, <1>6 DEF Core, Most, FlipOk
  <1>8. Core(q, t, TRUE) /\ Clean(x, q)
    BY <1>3, <1>5, <1>6, <1>7, ActivateCore
  <1> HIDE DEF q
  <1>9. Clean(r, q)
    BY <1>6, <1>8 DEF Clean
  <1> QED
    BY <1>2, <1>8, <1>9 DEF q

LEMMA CloseCore ==
  ASSUME NEW r, NEW cur, NEW sh, Core(r, cur, sh), NEW t \in r.open \ {cur}
  PROVE  LET x == [r EXCEPT !.open = @ \ {t}, !.cols[t] = [d \in Display |-> 0]]
         IN  Core(DestroyCursor(x), cur, sh) /\ Clean(r, DestroyCursor(x))
  <1> DEFINE O == r.open \ {t}
             none == [d \in Display |-> 0]
             C == [r.cols EXCEPT ![t] = none]
             x == [r EXCEPT !.open = O, !.cols = C]
             q == DestroyCursor(x)
  <1>1. r \in State /\ t \in Terminal /\ MaxCols \in Nat \ {0} /\ r.plugged \subseteq Display
    BY MaxColsFacts DEF Core, Most, State
  <1>2. none \in [Display -> 0..MaxCols]
    BY <1>1
  <1>3. O \in SUBSET Terminal
    BY <1>1 DEF State
  <1>4. r.cols \in [Terminal -> [Display -> 0..MaxCols]]
    BY <1>1 DEF State
  <1> HIDE DEF none
  <1>5. C \in [Terminal -> [Display -> 0..MaxCols]] /\ \A u \in Terminal \ {t} : C[u] = r.cols[u]
    BY <1>2, <1>4
  <1>6. [r EXCEPT !.open = @ \ {t}, !.cols[t] = none] = x
    BY <1>1 DEF State
  <1> HIDE DEF O, C
  <1>7. Changes(r, x, {"open", "cols"}) /\ x.open = O /\ x.cols = C
    BY <1>1, <1>3, <1>5 DEF Changes, State, Field
  <1> HIDE DEF x
  <1>8. x \in State
    BY <1>7 DEF Changes
  <1>9. Changes(x, q, {"cursor"})
    BY <1>8, DestroyFacts
  <1> HIDE DEF q
  <1>10. Changes(r, q, {"open", "cols", "cursor"})
    BY <1>7, <1>9 DEF Changes
  <1>11. q.open = O /\ q.cols = C
    BY <1>7, <1>9 DEF Changes, Field
  <1>12. /\ q.mode = r.mode /\ q.plugged = r.plugged /\ q.width = r.width /\ q.awake = r.awake
         /\ q.vsync = r.vsync /\ q.front = r.front /\ q.scanned = r.scanned
         /\ q.swapping = r.swapping /\ q.plane = r.plane /\ q.buf = r.buf /\ q \in State
    BY <1>10 DEF Changes, Field
  <1>13. ASSUME NEW u \in O PROVE SizeOk(q, u)
    <2>1. u \in Terminal \ {t} /\ u \in r.open
      BY <1>1 DEF O, State
    <2>2. SizeOk(r, u)
      BY <2>1 DEF Core, Most
    <2>3. q.cols[u] = r.cols[u]
      BY <1>5, <1>11, <2>1
    <2> QED
      BY <1>12, <2>2, <2>3, SizeKept
  <1>14. cur \in O
    BY DEF Core, Most, O
  <1>15. Core(q, cur, sh)
    BY <1>11, <1>12, <1>13, <1>14 DEF Core, Most, FlipOk
  <1>16. Clean(r, q)
    BY <1>12 DEF Clean
  <1> QED
    BY <1>6, <1>15, <1>16 DEF q, none

\* Nothing is promised of a display that another VT has.
LEMMA AsleepFaithful ==
  ASSUME NEW r, NEW cur, NEW q, q.awake = {}, Faithful(r, cur),
         Changes(r, q, {"awake", "plane", "scanned"})
  PROVE  Faithful(q, cur)
  <1>1. /\ q.wide = r.wide /\ q.blob = r.blob /\ q.open = r.open /\ q.mode = r.mode
        /\ q.width = r.width /\ q.cursor = r.cursor /\ q.pointer = r.pointer
    BY DEF Changes, Field
  <1>2. ASSUME Plain PROVE View(q, cur)
    <2>1. ~gl => q.wide[cur] = {} /\ q.blob = NoBlob
      BY <1>1, <1>2 DEF Faithful, View, Bulk
    <2>2. Bulk(q, cur)
      BY <2>1, BulkScratch
    <2> QED
      BY <2>2 DEF View
  <1>3. ASSUME Steady PROVE Aim(q, cur)
    <2>1. Alike(r, cur) /\ Pointing(r, cur)
      BY <1>3 DEF Faithful, Aim
    <2>2. Alike(q, cur)
      BY <1>1, <2>1 DEF Alike
    <2>3. Pointing(q, cur)
      BY <1>1, <2>1 DEF Pointing
    <2> QED
      BY <2>2, <2>3 DEF Aim
  <1> QED
    BY <1>2, <1>3 DEF Faithful

\* The kernel keeps what it showed while another VT is in front.
LEMMA LeaveCore ==
  ASSUME NEW r, NEW cur, Core(r, cur, TRUE)
  PROVE  LET q == Sleep(Deactivate(r, cur))
         IN  /\ Core(q, cur, FALSE) /\ Core([q EXCEPT !.plane = Foreign], cur, FALSE)
             /\ Faithful(r, cur) => /\ Faithful(q, cur)
                                    /\ Faithful([q EXCEPT !.plane = Foreign], cur)
  <1> DEFINE none == {}
             x == [r EXCEPT !.awake = none]
             fr == x.front
             y == [x EXCEPT !.scanned = fr]
             q == ClearCursor(y)
             f == Foreign
             z == [q EXCEPT !.plane = f]
  <1>1. r \in State /\ r.awake \ {cur} = none /\ none \in SUBSET Terminal /\ MaxCols \in Nat \ {0}
    BY MaxColsFacts DEF Core, Most
  <1>2. Sleep(Deactivate(r, cur)) = q
    BY <1>1 DEF Deactivate, Sleep
  <1>3. Changes(r, x, {"awake"}) /\ x.awake = {}
    BY <1>1, AwakeFacts
  <1> HIDE DEF x
  <1>4. x \in State /\ x.front = r.front /\ fr = r.front /\ fr \in {0, 1}
    BY <1>3 DEF Changes, Field, State
  <1> HIDE DEF fr
  <1>5. Changes(x, y, {"scanned"}) /\ y.scanned = fr
    BY <1>4 DEF Changes, State, Field
  <1> HIDE DEF y
  <1>6. y \in State /\ y.front = fr /\ y.awake = {}
    BY <1>3, <1>4, <1>5 DEF Changes, Field
  <1>8. Changes(y, q, {"plane"}) /\ q.plane = Hidden
    BY <1>1, <1>6, ClearFacts
  <1> HIDE DEF q
  <1>9. f \in Planes
    BY <1>1, OriginFacts
  <1> HIDE DEF f
  <1>10. q \in State
    BY <1>8 DEF Changes
  <1>11. Changes(q, z, {"plane"}) /\ z.plane = f
    BY <1>9, <1>10 DEF Changes, State, Field
  <1>12. z = [q EXCEPT !.plane = f]
    OBVIOUS
  <1> HIDE DEF z
  <1>13. ASSUME NEW w, Changes(y, w, {"plane"}), w.plane \in {Hidden, Foreign}
         PROVE  Core(w, cur, FALSE) /\ (Faithful(r, cur) => Faithful(w, cur))
    <2>1. Changes(r, w, {"awake", "plane", "scanned"})
      BY <1>3, <1>5, <1>13 DEF Changes
    <2>2. {"awake", "plane", "scanned"} \cap SizeField = {}
      BY DEF SizeField
    <2>3. /\ w.plugged = r.plugged /\ w.open = r.open
          /\ \A u : SizeOk(w, u) <=> SizeOk(r, u)
      BY <2>1, <2>2, SizeSame
    <2>4. /\ w \in State /\ w.awake = {} /\ w.scanned = fr /\ w.front = fr
      <3>1. w \in State /\ w.awake = y.awake /\ w.scanned = y.scanned /\ w.front = y.front
        BY <1>13 DEF Changes, Field
      <3> QED
        BY <1>5, <1>6, <3>1
    <2>5. Core(w, cur, FALSE)
      <3>1. Most(w, cur, FALSE, w.open)
        BY <1>13, <2>3, <2>4 DEF Core, Most
      <3>2. FlipOk(w, cur, FALSE)
        BY <2>4 DEF FlipOk
      <3> QED
        BY <3>1, <3>2 DEF Core
    <2>6. Faithful(r, cur) => Faithful(w, cur)
      BY <2>1, <2>4, AsleepFaithful
    <2> QED
      BY <2>5, <2>6
  <1>14. Core(q, cur, FALSE) /\ (Faithful(r, cur) => Faithful(q, cur))
    BY <1>8, <1>13
  <1>15. Core(z, cur, FALSE) /\ (Faithful(r, cur) => Faithful(z, cur))
    <2>1. Changes(y, z, {"plane"})
      BY <1>8, <1>11 DEF Changes
    <2> QED
      BY <1>11, <1>13, <2>1 DEF f
  <1> QED
    BY <1>2, <1>12, <1>14, <1>15 DEF f

\* The terminal in front waits for the flip, and draws from scratch then.
LEMMA ActivateFaithful ==
  ASSUME NEW r \in State, NEW cur \in Terminal, r.vsync,
         Plain => r.need /\ (~gl => r.wide[cur] = {} /\ r.blob = NoBlob),
         Steady => Alike(r, cur) /\ Pointing(r, cur) /\ (~HardwareCursor => r.plane = Hidden)
  PROVE  Faithful(Activate(r, cur), cur)
  <1> DEFINE q == Activate(r, cur)
  <1> SUFFICES Faithful(q, cur)
    OBVIOUS
  <1>1. /\ Changes(r, q, {"awake", "swapping", "pending"})
        /\ q.pending = r.pending \cup {cur}
    BY ActivateFacts
  <1> HIDE DEF q
  <1>2. /\ q.wide = r.wide /\ q.blob = r.blob /\ q.need = r.need /\ q.open = r.open /\ q.mode = r.mode
        /\ q.width = r.width /\ q.cursor = r.cursor /\ q.pointer = r.pointer /\ q.plane = r.plane
    BY <1>1 DEF Changes, Field
  <1>3. ASSUME Plain PROVE View(q, cur)
    <2>1. Scratch(q, cur)
      BY <1>2, <1>3 DEF Scratch
    <2>2. Bulk(q, cur)
      BY <1>2, <1>3, <2>1, BulkScratch
    <2> QED
      BY <1>1, <2>2 DEF View
  <1>4. ASSUME Steady PROVE Aim(q, cur)
    <2>1. Alike(q, cur)
      BY <1>2, <1>4 DEF Alike
    <2>2. Pointing(q, cur)
      BY <1>2, <1>4 DEF Pointing
    <2> QED
      BY <1>1, <2>1, <2>2 DEF Aim
  <1> QED
    BY <1>3, <1>4 DEF Faithful

LEMMA EnterCore ==
  ASSUME NEW r, NEW cur, Core(r, cur, FALSE)
  PROVE  /\ Core(Activate(ShowDisplays(Modeset(r)), cur), cur, TRUE)
         /\ Faithful(r, cur) => Faithful(Activate(ShowDisplays(Modeset(r)), cur), cur)
  <1> DEFINE x == Modeset(r)
             y == ShowDisplays(x)
  <1>1. r \in State /\ MaxCols \in Nat \ {0}
    BY MaxColsFacts DEF Core, Most
  <1>2. /\ Changes(r, x, {"front", "scanned", "vsync", "glass", "plane", "need"})
        /\ x.vsync = TRUE /\ x.need = TRUE
        /\ x.plane = IF HardwareCursor THEN Shows(r.cursor) ELSE Hidden
    BY <1>1, ModesetFacts
  <1> HIDE DEF x
  <1>3. x \in State
    BY <1>2 DEF Changes
  <1>4. /\ gl => y = x
        /\ ~gl => Changes(x, y, {"glass", "buf", "scanned"})
    BY <1>1, <1>2, <1>3, ShowDisplaysFacts
  <1> HIDE DEF y
  <1> DEFINE F == {"front", "scanned", "vsync", "glass", "plane", "need", "buf"}
  <1>5. Changes(r, y, F) /\ y.vsync /\ y.need /\ y.plane = x.plane
    <2>1. CASE gl
      BY <1>2, <1>4, <2>1 DEF Changes
    <2>2. CASE ~gl
      BY <1>2, <1>4, <2>2 DEF Changes, Field
    <2> QED
      BY <2>1, <2>2
  <1>6. F \cap SizeField = {}
    BY DEF SizeField
  <1>7. /\ y.plugged = r.plugged /\ y.open = r.open
        /\ \A u : SizeOk(y, u) <=> SizeOk(r, u)
    BY <1>5, <1>6, SizeSame
  <1>8. y \in State /\ y.awake = {}
    BY <1>5 DEF Changes, Field, Core, Most
  <1>9. cur \in y.open /\ Lit \in y.plugged /\ \A u \in y.open : SizeOk(y, u)
    BY <1>7 DEF Core, Most
  <1>10. Core(Activate(y, cur), cur, TRUE)
    BY <1>5, <1>8, <1>9, ActivateCore
  <1>11. ASSUME Faithful(r, cur) PROVE Faithful(Activate(y, cur), cur)
    <2>1. /\ y.wide = r.wide /\ y.blob = r.blob /\ y.mode = r.mode /\ y.width = r.width
          /\ y.cursor = r.cursor /\ y.pointer = r.pointer
      BY <1>5 DEF Changes, Field
    <2>2. Plain => y.need /\ (~gl => y.wide[cur] = {} /\ y.blob = NoBlob)
      BY <1>5, <1>11, <2>1 DEF Faithful, View, Bulk
    <2>3. ASSUME Steady
          PROVE  Alike(y, cur) /\ Pointing(y, cur) /\ (~HardwareCursor => y.plane = Hidden)
      <3>1. Alike(r, cur) /\ Pointing(r, cur)
        BY <1>11, <2>3 DEF Faithful, Aim
      <3>2. Alike(y, cur)
        BY <1>7, <2>1, <3>1 DEF Alike
      <3>3. Pointing(y, cur)
        BY <1>2, <1>5, <2>1, <3>1 DEF Pointing
      <3> QED
        BY <1>2, <1>5, <3>2, <3>3
    <2>4. cur \in Terminal
      BY <1>8, <1>9 DEF State
    <2> QED
      BY <1>5, <1>8, <2>2, <2>3, <2>4, ActivateFaithful
  <1> QED
    BY <1>10, <1>11 DEF x, y

LEMMA AdjustChanges ==
  ASSUME NEW r \in State, NEW t \in Terminal, Lit \in r.plugged, MaxCols \in Nat \ {0},
         NEW d, NEW x, NEW q, Adjusted(r, x, q, t, d)
  PROVE  Changes(r, q, AdjustField)
  <1>1. Changes(r, x, {"cols"})
    BY DEF Adjusted
  <1>2. x \in State /\ x.plugged = r.plugged
    BY <1>1 DEF Changes, Field
  <1> DEFINE s == Sized(x, t)
  <1>3. Changes(x, s, {"width", "buf", "glass", "cols", "redraw", "cursor"})
    BY <1>2, SizedFacts
  <1> HIDE DEF s
  <1>4. s \in State
    BY <1>3 DEF Changes
  <1>5. Changes(s, RedrawAll(s, t), RedrawField)
    BY <1>4, RedrawAllFacts
  <1>6. q = x \/ q = RedrawAll(s, t)
    BY DEF Adjusted, s
  <1>7. Changes(r, s, AdjustField)
    BY <1>1, <1>3 DEF Changes, AdjustField, RedrawField
  <1>8. RedrawField \subseteq AdjustField
    BY DEF AdjustField
  <1>9. Changes(r, RedrawAll(s, t), AdjustField)
    BY <1>5, <1>7, <1>8, ChangesBoth
  <1>10. Changes(r, x, AdjustField)
    BY <1>1 DEF Changes, AdjustField
  <1> QED
    BY <1>6, <1>9, <1>10

\* A display came or went: h is what became of base when the terminals of T had
\* followed.
Following(base, cur, T, h) ==
  /\ Most(h, cur, TRUE, T) /\ Changes(base, h, AdjustField)
  /\ \A u \in Terminal \ T : h.width[u] = base.width[u] /\ h.cols[u] = base.cols[u]
  /\ base.vsync => h.vsync /\ h.front = base.front
  /\ FlipOk(base, cur, TRUE) => FlipOk(h, cur, TRUE)
  /\ h.width = base.width => h.buf = base.buf

LEMMA FollowStep ==
  ASSUME NEW base, NEW cur, NEW T \in SUBSET Terminal, NEW t \in Terminal \ T, NEW h,
         Following(base, cur, T, h), NEW d \in Display, d # Lit, NEW x, NEW q,
         Adjusted(h, x, q, t, d),
         "turn" \notin use => \A e \in base.plugged \ {d} : base.cols[t][e] = base.width[t]
  PROVE  Following(base, cur, T \cup {t}, q)
  <1>1. h.plugged = base.plugged /\ h \in State /\ h.cols[t] = base.cols[t]
        /\ h.width[t] = base.width[t]
    BY DEF Following, Changes, Field, AdjustField, RedrawField
  <1>2. OthersFit(h, t, d)
    BY <1>1 DEF OthersFit
  <1>3. /\ Most(h, cur, TRUE, T) /\ t \in Terminal /\ t \notin T /\ T \in SUBSET Terminal
        /\ d \in Display /\ d # Lit /\ Adjusted(h, x, q, t, d)
    BY DEF Following
  <1>4. /\ Most(q, cur, TRUE, T \cup {t})
        /\ Changes(h, q, AdjustField)
        /\ \A u \in Terminal \ {t} : q.width[u] = h.width[u] /\ q.cols[u] = h.cols[u]
        /\ FlipOk(h, cur, TRUE) => FlipOk(q, cur, TRUE)
        /\ h.vsync => q.vsync /\ q.front = h.front
        /\ q.width = h.width => q.buf = h.buf
    <2>1. Follows(h, q, cur, TRUE, T, t)
      BY <1>2, <1>3, AdjustMost
    <2> QED
      BY <2>1 DEF Follows
  <1>5. Changes(base, q, AdjustField)
    BY <1>4, ChangesBoth DEF Following
  <1>6. \A u \in Terminal \ (T \cup {t}) : q.width[u] = base.width[u] /\ q.cols[u] = base.cols[u]
    BY <1>4 DEF Following
  <1>7. base.vsync => q.vsync /\ q.front = base.front
    BY <1>4 DEF Following
  <1>8. FlipOk(base, cur, TRUE) => FlipOk(q, cur, TRUE)
    BY <1>4 DEF Following
  <1>9. ASSUME q.width = base.width PROVE q.buf = base.buf
    <2>1. h.width \in [Terminal -> Cell] /\ q.width \in [Terminal -> Cell]
      BY <1>1, <1>5 DEF State, Changes
    <2>2. \A u \in Terminal : h.width[u] = q.width[u]
      BY <1>1, <1>4, <1>9
    <2>3. h.width = q.width
      BY <2>1, <2>2
    <2>4. h.buf = base.buf
      BY <1>9, <2>3 DEF Following
    <2> QED
      BY <1>4, <2>3, <2>4
  <1> QED
    BY <1>4, <1>5, <1>6, <1>7, <1>8, <1>9 DEF Following

LEMMA ViewStep ==
  ASSUME Plain, NEW base, NEW cur, NEW T \in SUBSET Terminal, NEW t \in Terminal \ T, NEW h,
         Ready(base, cur), Following(base, cur, T, h), FollowingView(base, cur, h),
         NEW d \in Display, d # Lit, NEW x, NEW q, Adjusted(h, x, q, t, d)
  PROVE  FollowingView(base, cur, q)
  <1> SUFFICES ASSUME Bulk(base, cur) PROVE FollowingView(base, cur, q)
    BY DEF FollowingView
  <1> DEFINE s == Sized(x, t)
  <1>1. /\ Most(h, cur, TRUE, T) /\ h \in State /\ cur \in Terminal /\ h.awake = {cur}
        /\ MaxCols \in Nat \ {0} /\ Bulk(h, cur)
        /\ base.vsync /\ base.need => h.vsync /\ h.need
        /\ FlipOk(base, cur, TRUE) /\ View(base, cur) => View(h, cur)
    BY MaxColsFacts DEF Following, FollowingView, Most
  <1>2. /\ Changes(h, x, {"cols"})
        /\ \A u \in Terminal \ {t} : x.cols[u] = h.cols[u]
        /\ x.cols[t][Lit] = h.cols[t][Lit]
        /\ q = x \/ q = RedrawAll(s, t)
    BY FrameAssumption DEF Adjusted
  <1>3. /\ SameDraw(h, x, cur) /\ x.text = h.text /\ x.pointer = h.pointer
        /\ x.pending = h.pending /\ x.vsync = h.vsync /\ x.need = h.need /\ x \in State
    BY <1>1, <1>2 DEF Changes, Field, SameDraw
  <1>4. Bulk(x, cur) /\ (View(h, cur) => View(x, cur))
    BY <1>1, <1>3, SameDrawFacts
  <1>5. CASE q = x
    BY <1>1, <1>3, <1>4, <1>5 DEF FollowingView
  <1>6. CASE q = RedrawAll(s, t)
    <2>1. /\ Most(x, cur, TRUE, T) /\ Most(s, cur, TRUE, T \cup {t})
          /\ FlipOk(h, cur, TRUE) => FlipOk(s, cur, TRUE)
      BY <1>1, AdjustSized
    <2>2. /\ Lit \in x.plugged /\ x.awake = {cur} /\ x \in State /\ t \in Terminal
          /\ MaxCols \in Nat \ {0}
      BY <1>1, <2>1 DEF Most
    <2>3. /\ Changes(x, s, {"width", "buf", "glass", "cols", "redraw", "cursor"})
          /\ \A u \in Terminal \ {t} : s.cols[u] = x.cols[u] /\ s.redraw[u] = x.redraw[u]
          /\ s.redraw[t] = 2
          /\ t \notin x.awake => s.buf = x.buf /\ s.glass = x.glass
          /\ SizeOk(s, t)
      <3>1. Changes(x, s, {"width", "buf", "glass", "cols", "redraw", "cursor"})
        BY <2>2, SizedFacts
      <3>2. OthersSame(x, s, t)
        BY <2>2, SizedOthers
      <3>3. s.redraw[t] = 2 /\ (t \notin x.awake => s.buf = x.buf /\ s.glass = x.glass)
        BY <2>2, SizedFacts
      <3> HIDE DEF s
      <3>4. SizeOk(s, t)
        BY <2>1 DEF Most
      <3> QED
        BY <3>1, <3>2, <3>3, <3>4 DEF OthersSame
    <2> HIDE DEF s
    <2>4. /\ s \in State /\ s.vsync = x.vsync /\ s.need = x.need /\ s.text = x.text
          /\ s.pointer = x.pointer /\ s.pending = x.pending /\ s.wide = x.wide /\ s.blob = x.blob
          /\ s.awake = x.awake /\ s.plugged = x.plugged
      BY <2>3 DEF Changes, Field
    <2>5. CASE t # cur
      <3>1. SameDraw(x, s, cur)
        BY <1>1, <2>2, <2>3, <2>5 DEF Changes, Field, SameDraw
      <3>2. Bulk(s, cur) /\ (View(x, cur) => View(s, cur))
        BY <1>4, <2>4, <3>1, SameDrawFacts
      <3>3. q = s
        BY <1>6, <2>1, <2>5, RedrawMost
      <3> QED
        BY <1>1, <1>3, <1>4, <2>4, <3>2, <3>3 DEF FollowingView
    <2>6. CASE t = cur
      <3>1. ~gl => s.wide[cur] = {} /\ s.blob = NoBlob
        BY <1>4, <2>4 DEF Bulk
      <3>2. Scratch(s, cur)
        BY <2>3, <2>6 DEF Scratch
      <3>3. Bulk(s, cur)
        BY <3>1, <3>2, BulkScratch
      <3>4. Fits(s, cur)
        BY <1>1, <2>2, <2>3, <2>4, <2>6, FitsFacts
      <3>5. FlipOk(base, cur, TRUE) => FlipOk(s, cur, TRUE)
        BY <2>1 DEF Following
      <3>6. s.vsync /\ cur \notin s.swapping => s.need
        BY <1>1, <1>3, <2>4, <3>5 DEF Ready, FlipOk
      <3>7. /\ Bulk(q, cur)
            /\ (s.vsync => cur \in s.swapping) => View(q, cur)
        BY <1>1, <1>6, <2>4, <2>6, <3>3, <3>4, <3>6, RedrawView
      <3>8. base.vsync /\ base.need => q.need
        BY <1>1, <1>3, <1>6, <2>4, <2>6, RedrawNeed
      <3>9. FlipOk(base, cur, TRUE) => View(q, cur)
        BY <3>5, <3>7 DEF FlipOk
      <3> QED
        BY <3>7, <3>8, <3>9 DEF FollowingView
    <2> QED
      BY <2>5, <2>6
  <1> QED
    BY <1>2, <1>5, <1>6

\* The terminals follow a display that comes or goes: if their size changes the
\* cursor moves with the first of them, and is committed with the one in front.
AimReady(base, cur) ==
  /\ Alike(base, cur) /\ \A u \in base.open : base.width[u] = base.width[cur]
  /\ HardwareCursor => base.cursor.origin = Border(base.mode[cur], base.width[cur])

Moved(base, cur) == [base.cursor EXCEPT !.origin = Border(base.mode[cur], Smallest(base, cur))]

FollowingAim(base, cur, T, h) ==
  /\ T = {} \/ Smallest(base, cur) = base.width[cur] =>
       h.cursor = base.cursor /\ h.plane = base.plane /\ h.pending = base.pending
  /\ T # {} /\ Smallest(base, cur) # base.width[cur] =>
       /\ h.cursor = Moved(base, cur)
       /\ HardwareCursor /\ FlipOk(base, cur, TRUE) /\ cur \in T \ h.pending =>
            h.plane = Shows(Moved(base, cur))
  /\ ~HardwareCursor => h.plane = base.plane

LEMMA AimStep ==
  ASSUME NEW base \in State, NEW cur, NEW T \in SUBSET base.open, NEW t \in base.open \ T, NEW h,
         AimReady(base, cur), Following(base, cur, T, h), FollowingAim(base, cur, T, h),
         NEW d \in Display, d # Lit, NEW x, NEW q, Adjusted(h, x, q, t, d)
  PROVE  FollowingAim(base, cur, T \cup {t}, q)
  <1> DEFINE s == Sized(x, t)
             n == Smallest(base, cur)
             moved == Moved(base, cur)
  <1>1. /\ Most(h, cur, TRUE, T) /\ h \in State /\ cur \in Terminal /\ h.awake = {cur}
        /\ MaxCols \in Nat \ {0} /\ T \in SUBSET Terminal /\ t \in Terminal
    BY MaxColsFacts DEF Following, Most, State
  <1>2. /\ h.mode = base.mode /\ h.plugged = base.plugged /\ h.width[t] = base.width[t]
    BY <1>1 DEF Following, Changes, Field, AdjustField, RedrawField
  <1>3. Changes(h, x, {"cols"})
    BY DEF Adjusted
  <1>4. /\ x.mode = base.mode /\ x.plugged = base.plugged /\ x.cursor = h.cursor
        /\ x.plane = h.plane /\ x.pending = h.pending /\ x.vsync = h.vsync
    BY <1>2, <1>3 DEF Changes, Field
  <1>5. x.mode[t] = base.mode[cur] /\ h.width[t] = base.width[cur]
    BY <1>2, <1>4 DEF AimReady, Alike
  <1>6. Smallest(x, t) = n
    BY <1>4, <1>5 DEF Smallest
  <1>7. moved = [base.cursor EXCEPT !.origin = Border(base.mode[cur], n)]
    BY DEF Moved
  <1>8. base.cursor \in Cursors
    BY DEF State
  <1> HIDE DEF n, moved
  <1>9. CASE n = base.width[cur]
    <2>1. q = x
      BY <1>5, <1>6, <1>9 DEF Adjusted
    <2> QED
      BY <1>4, <1>9, <2>1 DEF FollowingAim, n
  <1>10. CASE n # base.width[cur]
    <2>1. q = RedrawAll(s, t)
      BY <1>5, <1>6, <1>10 DEF Adjusted
    <2>2. /\ Most(x, cur, TRUE, T) /\ Most(s, cur, TRUE, T \cup {t})
          /\ FlipOk(h, cur, TRUE) => FlipOk(s, cur, TRUE)
      BY <1>1, AdjustSized
    <2>3. /\ Lit \in x.plugged /\ x \in State
      BY <2>2 DEF Most
    <2>4. /\ Changes(x, s, {"width", "buf", "glass", "cols", "redraw", "cursor"})
          /\ s.cursor = [x.cursor EXCEPT !.origin = Border(x.mode[t], n)]
      BY <1>1, <1>6, <2>3, SizedFacts
    <2> HIDE DEF s
    <2>5. s.plane = x.plane /\ s.pending = x.pending /\ s.awake = x.awake /\ s \in State
      BY <2>4 DEF Changes, Field
    <2>6. s.cursor = moved
      <3>1. s.cursor = [h.cursor EXCEPT !.origin = Border(base.mode[cur], n)]
        BY <1>4, <1>5, <2>4
      <3>2. CASE T = {}
        BY <1>7, <3>1, <3>2 DEF FollowingAim
      <3>3. CASE T # {}
        <4>1. h.cursor = moved
          BY <1>10, <3>3 DEF FollowingAim, n, moved
        <4> QED
          BY <1>7, <1>8, <3>1, <4>1 DEF Cursors
      <3> QED
        BY <3>2, <3>3
    <2>7. /\ T \cup {t} # {} /\ q.cursor = s.cursor /\ (~HardwareCursor => q.plane = base.plane)
          /\ HardwareCursor /\ FlipOk(base, cur, TRUE) /\ cur \in (T \cup {t}) \ q.pending =>
               q.plane = Shows(moved)
      <3>1. CASE t # cur
        <4>1. q = s
          <5>1. t \notin s.awake
            BY <2>2, <3>1 DEF Most
          <5>2. RedrawAll(s, t) = s
            BY <5>1 DEF RedrawAll
          <5> QED
            BY <2>1, <5>2
        <4>2. cur \in T \cup {t} => cur \in T /\ T # {}
          BY <3>1
        <4>3. ~HardwareCursor => q.plane = base.plane
          BY <1>4, <2>5, <4>1 DEF FollowingAim
        <4>4. ASSUME HardwareCursor, FlipOk(base, cur, TRUE), cur \in (T \cup {t}) \ q.pending
              PROVE  q.plane = Shows(moved)
          <5>1. cur \in T \ h.pending /\ T # {}
            BY <1>4, <2>5, <4>1, <4>2, <4>4
          <5>2. h.plane = Shows(moved)
            BY <1>10, <4>4, <5>1 DEF FollowingAim, n, moved
          <5> QED
            BY <1>4, <2>5, <4>1, <5>2
        <4> QED
          BY <4>1, <4>3, <4>4
      <3>2. CASE t = cur
        <4>1. FlipOk(base, cur, TRUE) => FlipOk(s, cur, TRUE)
          BY <2>2 DEF Following
        <4>2. CASE FlipOk(s, cur, TRUE)
          <5>1. RedrawnPlane(s, q, cur)
            BY <2>1, <2>2, <3>2, <4>2, RedrawPlane
          <5>2. cur \in s.awake
            BY <2>2 DEF Most
          <5>3. ~HardwareCursor => h.plane = base.plane
            BY DEF FollowingAim
          <5>4. q.cursor = s.cursor /\ (~HardwareCursor => q.plane = base.plane)
            BY <1>4, <2>5, <5>1, <5>3 DEF RedrawnPlane
          <5>5. HardwareCursor /\ cur \notin q.pending => q.plane = Shows(moved)
            BY <2>6, <5>1, <5>2 DEF RedrawnPlane
          <5> QED
            BY <5>4, <5>5
        <4>3. CASE ~FlipOk(s, cur, TRUE)
          <5>1. q.cursor = s.cursor /\ (~HardwareCursor => q.plane = s.plane)
            BY <1>1, <2>1, <2>5, <3>2, RedrawnCursor
          <5>2. ~HardwareCursor => h.plane = base.plane
            BY DEF FollowingAim
          <5>3. ~HardwareCursor => q.plane = base.plane
            BY <1>4, <2>5, <5>1, <5>2
          <5> QED
            BY <4>1, <4>3, <5>1, <5>3
        <4> QED
          BY <4>2, <4>3
      <3> QED
        BY <3>1, <3>2
    <2> QED
      BY <1>10, <2>6, <2>7 DEF FollowingAim, n, moved
  <1> QED
    BY <1>9, <1>10

LEMMA FollowedAim ==
  ASSUME NEW base \in State, NEW cur, NEW h, cur \in base.open,
         Following(base, cur, base.open, h), FollowingAim(base, cur, base.open, h),
         Alike(base, cur), Pointing(base, cur), base.awake = {cur}
  PROVE  /\ Alike(h, cur) /\ Pointing(h, cur)
         /\ FlipOk(base, cur, TRUE) /\ Aim(base, cur) => Aim(h, cur)
  <1> DEFINE n == Smallest(base, cur)
  <1>1. /\ h.mode = base.mode /\ h.plugged = base.plugged /\ h.open = base.open
        /\ h.pointer = base.pointer /\ h.awake = {cur}
    BY DEF Following, Changes, Field, AdjustField, RedrawField
  <1>2. h.width[cur] = n
    <2>1. SizeOk(h, cur)
      BY DEF Following, Most
    <2>2. Smallest(h, cur) = n
      BY <1>1 DEF Smallest
    <2> QED
      BY <2>1, <2>2 DEF SizeOk
  <1>3. Alike(h, cur)
    BY <1>1 DEF Alike
  <1> HIDE DEF n
  <1>4. CASE n = base.width[cur]
    <2>1. h.cursor = base.cursor /\ h.plane = base.plane /\ h.pending = base.pending
      BY <1>4 DEF FollowingAim, n
    <2>2. Pointing(h, cur)
      BY <1>1, <1>2, <1>4, <2>1 DEF Pointing
    <2>3. PlaneOf(h, cur) = PlaneOf(base, cur)
      BY <1>1, <1>2, <1>4 DEF PlaneOf
    <2> QED
      BY <1>1, <1>3, <2>1, <2>2, <2>3 DEF Aim
  <1>5. CASE n # base.width[cur]
    <2>1. h.cursor = Moved(base, cur)
      BY <1>5 DEF FollowingAim, n
    <2>2. /\ h.cursor.active = base.cursor.active /\ h.cursor.visible = base.cursor.visible
          /\ h.cursor.at = base.cursor.at /\ h.cursor.origin = Border(base.mode[cur], n)
      BY <2>1 DEF Moved, n, State, Cursors
    <2>3. Pointing(h, cur)
      <3>1. CASE HardwareCursor
        BY <1>1, <1>2, <2>2, <3>1 DEF Pointing
      <3>2. CASE ~HardwareCursor
        BY <1>1, <3>2 DEF Pointing, FollowingAim
      <3> QED
        BY <3>1, <3>2
    <2>4. ASSUME FlipOk(base, cur, TRUE), cur \notin h.pending PROVE h.plane = PlaneOf(h, cur)
      <3>1. CASE HardwareCursor
        <4>1. h.plane = Shows(h.cursor)
          BY <1>5, <2>1, <2>4, <3>1 DEF FollowingAim, n
        <4> QED
          BY <2>3, <3>1, <4>1, PointingShows
      <3>2. CASE ~HardwareCursor
        BY <1>1, <2>3, <3>2 DEF Pointing, PlaneOf
      <3> QED
        BY <3>1, <3>2
    <2> QED
      BY <1>3, <2>3, <2>4 DEF Aim
  <1> QED
    BY <1>4, <1>5

\* What the fold over the terminals carries.
Followed(base, cur, T, h) ==
  /\ Following(base, cur, T, h)
  /\ Plain /\ Ready(base, cur) => FollowingView(base, cur, h)
  /\ AimReady(base, cur) => FollowingAim(base, cur, T, h)

LEMMA FollowedStart ==
  ASSUME NEW base \in State, NEW cur, Most(base, cur, TRUE, {})
  PROVE  Followed(base, cur, {}, base)
  <1>1. Changes(base, base, AdjustField)
    BY ChangesNothing
  <1>2. Following(base, cur, {}, base)
    BY <1>1 DEF Following
  <1>3. FollowingView(base, cur, base)
    BY DEF FollowingView
  <1>4. FollowingAim(base, cur, {}, base)
    BY DEF FollowingAim
  <1> QED
    BY <1>2, <1>3, <1>4 DEF Followed

LEMMA FollowedStep ==
  ASSUME NEW base \in State, NEW cur, NEW T \in SUBSET base.open, NEW t \in base.open \ T, NEW h,
         Followed(base, cur, T, h), NEW d \in Display, d # Lit, NEW x, NEW q,
         Adjusted(h, x, q, t, d),
         "turn" \notin use => \A e \in base.plugged \ {d} : base.cols[t][e] = base.width[t]
  PROVE  Followed(base, cur, T \cup {t}, q)
  <1>1. T \in SUBSET Terminal /\ t \in Terminal \ T
    BY DEF State
  <1>2. Following(base, cur, T, h)
    BY DEF Followed
  <1>3. Following(base, cur, T \cup {t}, q)
    BY <1>1, <1>2, FollowStep
  <1>4. ASSUME Plain, Ready(base, cur) PROVE FollowingView(base, cur, q)
    <2>1. FollowingView(base, cur, h)
      BY <1>4 DEF Followed
    <2> QED
      BY <1>1, <1>2, <1>4, <2>1, ViewStep
  <1>5. ASSUME AimReady(base, cur) PROVE FollowingAim(base, cur, T \cup {t}, q)
    <2>1. FollowingAim(base, cur, T, h)
      BY <1>5 DEF Followed
    <2> QED
      BY <1>2, <1>5, <2>1, AimStep
  <1> QED
    BY <1>3, <1>4, <1>5 DEF Followed

\* Sessions that use one font are of one size.
LEMMA AlikeReady ==
  ASSUME NEW r, NEW cur, NEW sh, Core(r, cur, sh), Aim(r, cur),
         NEW base, base.open = r.open, base.mode = r.mode, base.width = r.width,
         base.cursor = r.cursor
  PROVE  AimReady(base, cur)
  <1>1. \A u \in r.open : r.mode[u] = r.mode[cur] /\ r.width[u] = Smallest(r, u) /\ cur \in r.open
    BY DEF Aim, Alike, Core, Most, SizeOk
  <1>2. ASSUME NEW u \in r.open PROVE r.width[u] = r.width[cur]
    <2>1. Smallest(r, u) = Smallest(r, cur)
      BY <1>1 DEF Smallest
    <2> QED
      BY <1>1, <2>1
  <1> QED
    BY <1>1, <1>2 DEF AimReady, Aim, Alike, Pointing

LEMMA PlugCore ==
  ASSUME NEW r, NEW cur, Core(r, cur, TRUE), NEW d \in Display \ r.plugged
  PROVE  LET base == Modeset([r EXCEPT !.plugged = @ \cup {d}])
             q == Activate(ForTerminals(LAMBDA h, t : AddDisplay(h, t, d), base), cur)
         IN  Core(q, cur, TRUE) /\ (q.width = r.width => q.buf = r.buf)
             /\ (Faithful(r, cur) => Faithful(q, cur))
  <1> DEFINE P == r.plugged \cup {d}
             x == [r EXCEPT !.plugged = P]
             base == Modeset(x)
             A == {h \in State : h.plugged = P}
             S == base.open
             Q == {p \in A \X SUBSET S : Followed(base, cur, p[2], p[1])}
             all == ForTerminals(LAMBDA h, t : AddDisplay(h, t, d), base)
  <1>1. /\ r \in State /\ cur \in r.open /\ Lit \in r.plugged /\ r.awake = {cur}
        /\ MaxCols \in Nat \ {0} /\ cur \in Terminal /\ r.open \subseteq Terminal
        /\ IsFiniteSet(r.open) /\ d # Lit /\ d \in Display
        /\ \A t \in r.open : SizeOk(r, t)
    BY MaxColsFacts DEF Core, Most, State
  <1>2. P \in SUBSET Display /\ Lit \in P /\ d \in P /\ P \ {d} = r.plugged
    BY <1>1 DEF State
  <1>3. [r EXCEPT !.plugged = @ \cup {d}] = x
    OBVIOUS
  <1> HIDE DEF P
  <1>4. Changes(r, x, {"plugged"}) /\ x.plugged = P
    BY <1>1, <1>2 DEF Changes, State, Field
  <1> HIDE DEF x
  <1>5. x \in State
    BY <1>4 DEF Changes
  <1>6. /\ Changes(x, base, {"front", "scanned", "vsync", "glass", "plane", "need"})
        /\ base.vsync = TRUE /\ base.scanned = base.front /\ base.need = TRUE
        /\ base.plane = IF HardwareCursor THEN Shows(x.cursor) ELSE Hidden
    BY <1>1, <1>5, ModesetFacts
  <1> HIDE DEF base
  <1>7. /\ base \in State /\ base.plugged = P /\ base.open = r.open /\ base.awake = r.awake
        /\ base.cols = r.cols /\ base.width = r.width /\ base.buf = r.buf
    BY <1>4, <1>6 DEF Changes, Field
  <1>8. Followed(base, cur, {}, base)
    <2>1. Most(base, cur, TRUE, {})
      BY <1>1, <1>2, <1>7 DEF Most
    <2> QED
      BY <1>7, <2>1, FollowedStart
  <1>9. ASSUME NEW h \in A, NEW t \in S
        PROVE  /\ AddDisplay(h, t, d) \in A
               /\ \E y : Adjusted(h, y, AddDisplay(h, t, d), t, d)
    <2>1. h \in State /\ h.plugged = P /\ t \in Terminal
      BY <1>1, <1>7
    <2>2. PICK y : Adjusted(h, y, AddDisplay(h, t, d), t, d)
      BY <1>1, <1>2, <2>1, AddDisplayFacts
    <2>3. Changes(h, AddDisplay(h, t, d), AdjustField)
      BY <1>1, <1>2, <2>1, <2>2, AdjustChanges
    <2>4. AddDisplay(h, t, d) \in State /\ AddDisplay(h, t, d).plugged = h.plugged
      BY <2>3 DEF Changes, AdjustField, RedrawField, Field
    <2> QED
      BY <2>1, <2>2, <2>4
  <1>10. ASSUME NEW h \in A, NEW T \in SUBSET S, NEW t \in S, t \notin T, <<h, T>> \in Q
         PROVE  <<AddDisplay(h, t, d), T \cup {t}>> \in Q
    <2>1. PICK y : Adjusted(h, y, AddDisplay(h, t, d), t, d)
      BY <1>9
    <2>2. Followed(base, cur, T, h)
      BY <1>10
    <2>3. T \in SUBSET base.open /\ t \in base.open \ T /\ base \in State /\ d \in Display /\ d # Lit
      BY <1>1, <1>7, <1>10
    <2>4. "turn" \notin use => \A e \in base.plugged \ {d} : base.cols[t][e] = base.width[t]
      BY <1>1, <1>2, <1>7 DEF SizeOk
    <2>5. Followed(base, cur, T \cup {t}, AddDisplay(h, t, d))
      BY <2>1, <2>2, <2>3, <2>4, FollowedStep
    <2>6. AddDisplay(h, t, d) \in A /\ T \cup {t} \in SUBSET S
      BY <1>9
    <2> QED
      BY <2>5, <2>6
  <1>11. base \in A /\ <<base, {}>> \in Q /\ IsFiniteSet(base.open)
    BY <1>1, <1>7, <1>8
  <1>12. \A h \in A, t \in base.open : AddDisplay(h, t, d) \in A
    BY <1>9
  <1>13. \A h \in A, T \in SUBSET base.open, t \in base.open :
           t \notin T /\ <<h, T>> \in Q => <<AddDisplay(h, t, d), T \cup {t}>> \in Q
    BY <1>10
  <1> HIDE DEF Q, A
  <1>14. all \in A /\ <<all, S>> \in Q
    BY <1>11, <1>12, <1>13, AddAll
  <1>15. Followed(base, cur, S, all) /\ Following(base, cur, S, all)
    BY <1>14 DEF Q, Followed
  <1> HIDE DEF all
  <1> DEFINE q == Activate(all, cur)
  <1>16. /\ all \in State /\ all.open = base.open /\ all.plugged = P /\ all.awake = {cur}
         /\ all.scanned = base.scanned /\ all.vsync /\ all.front = base.front
    BY <1>1, <1>6, <1>7, <1>15 DEF Following, Changes, AdjustField, RedrawField, Field
  <1>17. \A u \in all.open : SizeOk(all, u)
    BY <1>15, <1>16 DEF Following, Most
  <1>18. Core(q, cur, TRUE) /\ q.width = all.width /\ q.buf = all.buf
    BY <1>1, <1>2, <1>7, <1>16, <1>17, ActivateCore
  <1>19. q.width = r.width => q.buf = r.buf
    BY <1>7, <1>15, <1>18 DEF Following
  <1>20. ASSUME Faithful(r, cur) PROVE Faithful(q, cur)
    <2>1. /\ base.wide = r.wide /\ base.blob = r.blob /\ base.mode = r.mode
          /\ base.cursor = r.cursor /\ base.pointer = r.pointer
      BY <1>4, <1>6 DEF Changes, Field
    <2>2. ASSUME Plain PROVE all.need /\ (~gl => all.wide[cur] = {} /\ all.blob = NoBlob)
      <3>1. ~gl => base.wide[cur] = {} /\ base.blob = NoBlob
        BY <1>20, <2>1, <2>2 DEF Faithful, View, Bulk
      <3>2. Scratch(base, cur)
        BY <1>6 DEF Scratch
      <3>3. Bulk(base, cur)
        BY <3>1, <3>2, BulkScratch
      <3>4. Ready(base, cur)
        BY <1>6 DEF Ready
      <3>5. FollowingView(base, cur, all)
        BY <1>15, <2>2, <3>4 DEF Followed
      <3>6. all.need /\ Bulk(all, cur)
        BY <1>6, <3>3, <3>5 DEF FollowingView
      <3> QED
        BY <3>6 DEF Bulk
    <2>3. ASSUME Steady
          PROVE  Alike(all, cur) /\ Pointing(all, cur) /\ (~HardwareCursor => all.plane = Hidden)
      <3>1. Aim(r, cur)
        BY <1>20, <2>3 DEF Faithful
      <3>2. Alike(base, cur)
        BY <1>7, <2>1, <3>1 DEF Aim, Alike
      <3>3. Pointing(base, cur)
        BY <1>6, <1>7, <2>1, <3>1 DEF Aim, Pointing
      <3>4. AimReady(base, cur)
        BY <1>7, <2>1, <3>1, AlikeReady
      <3>5. FollowingAim(base, cur, base.open, all)
        BY <1>15, <3>4 DEF Followed
      <3>6. cur \in base.open /\ base.awake = {cur}
        BY <1>1, <1>7
      <3>7. Alike(all, cur) /\ Pointing(all, cur)
        BY <1>7, <1>15, <3>2, <3>3, <3>5, <3>6, FollowedAim
      <3>8. ~HardwareCursor => all.plane = Hidden
        BY <1>16, <3>7 DEF Pointing
      <3> QED
        BY <3>7, <3>8
    <2> QED
      BY <1>1, <1>16, <2>2, <2>3, ActivateFaithful
  <1> QED
    BY <1>3, <1>18, <1>19, <1>20 DEF q, all, base

LEMMA UnplugCore ==
  ASSUME NEW r, NEW cur, Core(r, cur, TRUE), NEW d \in r.plugged \ {Lit}
  PROVE  LET q == ForTerminals(LAMBDA h, t : RmDisplay(h, t, d), [r EXCEPT !.plugged = @ \ {d}])
         IN  Core(q, cur, TRUE) /\ (q.width = r.width => q.buf = r.buf)
             /\ (Faithful(r, cur) => Faithful(q, cur))
  <1> DEFINE P == r.plugged \ {d}
             base == [r EXCEPT !.plugged = P]
             A == {h \in State : h.plugged = P}
             S == base.open
             Q == {p \in A \X SUBSET S : Followed(base, cur, p[2], p[1])}
             all == RemovedAll(base, d)
  <1>1. /\ r \in State /\ cur \in r.open /\ Lit \in r.plugged /\ r.awake = {cur}
        /\ MaxCols \in Nat \ {0} /\ cur \in Terminal /\ r.open \subseteq Terminal
        /\ IsFiniteSet(r.open) /\ d # Lit /\ d \in Display
        /\ \A t \in r.open : SizeOk(r, t)
    BY MaxColsFacts DEF Core, Most, State
  <1>2. P \in SUBSET Display /\ Lit \in P /\ d \notin P /\ P \subseteq r.plugged
    BY <1>1 DEF State
  <1>3. [r EXCEPT !.plugged = @ \ {d}] = base
    OBVIOUS
  <1> HIDE DEF P
  <1>4. Changes(r, base, {"plugged"}) /\ base.plugged = P
    BY <1>1, <1>2 DEF Changes, State, Field
  <1> HIDE DEF base
  <1>5. /\ base \in State /\ base.open = r.open /\ base.awake = r.awake
        /\ base.cols = r.cols /\ base.width = r.width /\ base.buf = r.buf
        /\ base.vsync = r.vsync /\ base.scanned = r.scanned /\ base.front = r.front
        /\ base.swapping = r.swapping
    BY <1>4 DEF Changes, Field
  <1>6. FlipOk(base, cur, TRUE)
    BY <1>5 DEF Core, FlipOk
  <1>8. Followed(base, cur, {}, base)
    <2>1. Most(base, cur, TRUE, {})
      BY <1>1, <1>2, <1>4, <1>5 DEF Most
    <2> QED
      BY <1>5, <2>1, FollowedStart
  <1>9. ASSUME NEW h \in A, NEW t \in S
        PROVE  /\ RmDisplay(h, t, d) \in A
               /\ \E y : Adjusted(h, y, RmDisplay(h, t, d), t, d)
    <2>1. h \in State /\ h.plugged = P /\ t \in Terminal
      BY <1>1, <1>5
    <2>2. PICK y : Adjusted(h, y, RmDisplay(h, t, d), t, d)
      BY <1>1, <1>2, <2>1, RmDisplayFacts
    <2>3. Changes(h, RmDisplay(h, t, d), AdjustField)
      BY <1>1, <1>2, <2>1, <2>2, AdjustChanges
    <2>4. RmDisplay(h, t, d) \in State /\ RmDisplay(h, t, d).plugged = h.plugged
      BY <2>3 DEF Changes, AdjustField, RedrawField, Field
    <2> QED
      BY <2>1, <2>2, <2>4
  <1>10. ASSUME NEW h \in A, NEW T \in SUBSET S, NEW t \in S, t \notin T, <<h, T>> \in Q
         PROVE  <<RmDisplay(h, t, d), T \cup {t}>> \in Q
    <2>1. PICK y : Adjusted(h, y, RmDisplay(h, t, d), t, d)
      BY <1>9
    <2>2. Followed(base, cur, T, h)
      BY <1>10
    <2>3. T \in SUBSET base.open /\ t \in base.open \ T /\ base \in State /\ d \in Display /\ d # Lit
      BY <1>1, <1>5, <1>10
    <2>4. "turn" \notin use => \A e \in base.plugged \ {d} : base.cols[t][e] = base.width[t]
      BY <1>1, <1>2, <1>4, <1>5 DEF SizeOk
    <2>5. Followed(base, cur, T \cup {t}, RmDisplay(h, t, d))
      BY <2>1, <2>2, <2>3, <2>4, FollowedStep
    <2>6. RmDisplay(h, t, d) \in A /\ T \cup {t} \in SUBSET S
      BY <1>9
    <2> QED
      BY <2>5, <2>6
  <1>11. base \in A /\ <<base, {}>> \in Q /\ IsFiniteSet(base.open)
    BY <1>1, <1>4, <1>5, <1>8
  <1>12. \A h \in A, t \in base.open : RmDisplay(h, t, d) \in A
    BY <1>9
  <1>13. \A h \in A, T \in SUBSET base.open, t \in base.open :
           t \notin T /\ <<h, T>> \in Q => <<RmDisplay(h, t, d), T \cup {t}>> \in Q
    BY <1>10
  <1> HIDE DEF Q, A
  <1>14. all \in A /\ <<all, S>> \in Q
    BY <1>11, <1>12, <1>13, RmAll
  <1>15. Followed(base, cur, S, all) /\ Following(base, cur, S, all)
    BY <1>14 DEF Q, Followed
  <1> HIDE DEF all
  <1>16. all.open = base.open
    BY <1>15 DEF Following, Changes, AdjustField, RedrawField, Field
  <1>17. Core(all, cur, TRUE)
    BY <1>6, <1>15, <1>16 DEF Following, Core
  <1>18. all.width = r.width => all.buf = r.buf
    BY <1>5, <1>15 DEF Following
  <1>19. ASSUME Faithful(r, cur) PROVE Faithful(all, cur)
    <2>1. ASSUME Plain PROVE View(all, cur)
      <3>1. /\ SameDraw(r, base, cur) /\ base.text = r.text /\ base.pointer = r.pointer
            /\ base.pending = r.pending
        BY <1>4 DEF Changes, Field, SameDraw
      <3>2. View(base, cur)
        BY <1>19, <2>1, <3>1, SameDrawFacts DEF Faithful
      <3>3. Ready(base, cur)
        BY <1>6 DEF Ready
      <3>4. FollowingView(base, cur, all)
        BY <1>15, <2>1, <3>3 DEF Followed
      <3> QED
        BY <1>6, <3>2, <3>4 DEF FollowingView, View
    <2>2. ASSUME Steady PROVE Aim(all, cur)
      <3>1. Aim(r, cur)
        BY <1>19, <2>2 DEF Faithful
      <3>2. Aim(base, cur)
        BY <1>4, <3>1, AimSame
      <3>3. base.mode = r.mode /\ base.cursor = r.cursor
        BY <1>4 DEF Changes, Field
      <3>4. AimReady(base, cur)
        BY <1>5, <3>1, <3>3, AlikeReady
      <3>5. FollowingAim(base, cur, base.open, all)
        BY <1>15, <3>4 DEF Followed
      <3>6. cur \in base.open /\ base.awake = {cur} /\ base \in State
        BY <1>1, <1>5
      <3>7. Alike(base, cur) /\ Pointing(base, cur)
        BY <3>2 DEF Aim
      <3> QED
        BY <1>6, <1>15, <3>2, <3>5, <3>6, <3>7, FollowedAim
    <2> QED
      BY <2>1, <2>2 DEF Faithful
  <1> QED
    BY <1>3, <1>17, <1>18, <1>19 DEF all, base, RemovedAll

-----------------------------------------------------------------------------
LEMMA NowFacts ==
  /\ Now.awake = awake /\ Now.mode = mode /\ Now.plugged = plugged /\ Now.width = width
  /\ Now.cols = cols /\ Now.text = text /\ Now.pointer = pointer
  /\ Now.swapping = swapping /\ Now.pending = pending
  /\ Now.cells = cells /\ Now.damaged = damaged /\ Now.wide = wide /\ Now.known = known
  /\ Now.redraw = redraw /\ Now.buf = buf /\ Now.front = front /\ Now.scanned = scanned
  /\ Now.glass = glass /\ Now.vsync = vsync /\ Now.need = need /\ Now.blob = blob
  /\ Now.open = open /\ Now.cursor = cursor /\ Now.plane = plane
  BY DEF Now

\* The console is first shown with its screens as large as they should be.
LEMMA InitCore == Init => Inv
  <1> SUFFICES ASSUME Init PROVE Inv
    OBVIOUS
  <1>1. /\ mode \in [Terminal -> Mode] /\ current \in Terminal /\ use \in Uses
    BY DEF Init
  <1>2. /\ MaxCols \in Nat \ {0} /\ \A m \in Mode, d \in Display : Fit[m][d] \in Cell
    BY <1>1, CellFacts
  <1>3. plugged \in SUBSET Display /\ Lit \in plugged
    BY FrameAssumption DEF Init
  <1>4. \A t \in Terminal : Min({Fit[mode[t]][d] : d \in plugged}) \in Cell
    <2> TAKE t \in Terminal
    <2> DEFINE S == {Fit[mode[t]][d] : d \in plugged}
    <2>1. mode[t] \in Mode
      BY <1>1
    <2>2. S \subseteq Cell /\ S # {}
      BY <1>2, <1>3, <2>1
    <2> HIDE DEF S
    <2>3. S \in SUBSET Nat
      BY <1>2, <2>2 DEF Cell
    <2>4. Min(S) \in Cell
      BY <2>2, <2>3, MinIs
    <2> QED
      BY <2>4 DEF S
  <1>5. width \in [Terminal -> Cell] /\ \A t \in Terminal : width[t] = Smallest(Now, t)
    <2>1. width = [t \in Terminal |-> Min({Fit[mode[t]][d] : d \in plugged})]
      BY DEF Init
    <2>2. \A t \in Terminal : Smallest(Now, t) = Min({Fit[mode[t]][d] : d \in plugged})
      BY NowFacts DEF Smallest
    <2> QED
      BY <1>4, <2>1, <2>2
  <1>6. /\ cols \in [Terminal -> [Display -> 0..MaxCols]]
        /\ \A t \in Terminal, d \in plugged : cols[t][d] = width[t]
    <2>1. cols = [t \in Terminal |-> [d \in Display |-> IF d \in plugged THEN width[t] ELSE 0]]
      BY DEF Init
    <2>2. \A t \in Terminal : width[t] \in 0..MaxCols
      BY <1>2, <1>5 DEF Cell
    <2>3. 0 \in 0..MaxCols
      BY <1>2
    <2> QED
      BY <1>3, <2>1, <2>2, <2>3
  <1>7. /\ awake \in SUBSET Terminal /\ swapping \in SUBSET Terminal
        /\ pending \in SUBSET Terminal /\ open \in SUBSET Terminal
    BY DEF Init
  <1>8. text \in [Terminal -> [Cell -> Symbol]] /\ pointer \in [Terminal -> 0..MaxCols]
    <2>1. Blank(" ") \in [Cell -> Symbol]
      BY DEF Blank, Symbol
    <2>2. 0 \in 0..MaxCols
      BY <1>2
    <2>3. text = [t \in Terminal |-> Blank(" ")] /\ pointer = [t \in Terminal |-> 0]
      BY DEF Init
    <2> QED
      BY <2>1, <2>2, <2>3
  <1>9. /\ cells \in [Terminal -> [Cell -> Cached]] /\ damaged \in [Terminal -> SUBSET Cell]
        /\ wide \in [Terminal -> SUBSET Cell] /\ redraw \in [Terminal -> 0..2]
    <2>1. Blank("damaged") \in [Cell -> Cached]
      BY DEF Blank, Cached
    <2>2. cells = [t \in Terminal |-> Blank("damaged")] /\ damaged = [t \in Terminal |-> Cell]
      BY DEF Init
    <2>3. wide = [t \in Terminal |-> {}] /\ redraw = [t \in Terminal |-> 2]
      BY DEF Init
    <2>4. cells \in [Terminal -> [Cell -> Cached]] /\ damaged \in [Terminal -> SUBSET Cell]
      BY <2>1, <2>2
    <2> QED
      BY <2>3, <2>4
  <1>10. known \in [Terminal -> Flag]
    <2> DEFINE no == FALSE
    <2>1. no \in Flag
      BY FlagFacts
    <2>2. known = [t \in Terminal |-> no]
      BY DEF Init
    <2> HIDE DEF no
    <2> QED
      BY <2>1, <2>2
  <1>11. Blank("black") \in Pixels
    BY DEF Blank, Pixels, Pixel
  <1>12. buf \in [{0, 1} -> Pixels] /\ glass \in Pixels /\ front \in {0, 1} /\ scanned \in {0, 1}
    BY <1>11 DEF Init
  <1>13. vsync \in Flag /\ need \in Flag
    BY FlagFacts DEF Init
  <1>14. blob \in Blobs /\ plane \in Planes
    BY <1>2, OriginFacts DEF Init
  <1>15. cursor \in Cursors
    <2> DEFINE a == HardwareCursor
               no == FALSE
               o == Border(mode[current], width[current])
    <2>1. a \in Flag /\ no \in Flag
      BY FlagFacts DEF Flag, HardwareCursor
    <2>2. o \in Origin
      <3>1. mode[current] \in Mode /\ width[current] \in 0..MaxCols
        BY <1>1, <1>2, <1>5 DEF Cell
      <3> QED
        BY <1>2, <3>1, OriginFacts
    <2>3. cursor = [active |-> a, visible |-> no, at |-> 0, origin |-> o]
      BY DEF Init
    <2>4. 0 \in 0..MaxCols
      BY <1>2
    <2> HIDE DEF a, no, o
    <2> QED
      BY <2>1, <2>2, <2>3, <2>4 DEF Cursors
  <1>16. Now \in State
    BY <1>1, <1>3, <1>5, <1>6, <1>7, <1>8, <1>9, <1>10, <1>12, <1>13, <1>14, <1>15
       DEF Now, State
  <1>17. \A t \in Terminal : SizeOk(Now, t)
    BY <1>5, <1>6, NowFacts DEF SizeOk
  <1>18. open = Terminal /\ awake = {current} /\ shown = TRUE /\ swapping = {current} /\ vsync = TRUE
    BY DEF Init
  <1>19. Most(Now, current, shown, Now.open)
    BY <1>1, <1>3, <1>16, <1>17, <1>18, NowFacts DEF Most
  <1>20. FlipOk(Now, current, shown)
    BY <1>18, NowFacts DEF FlipOk
  <1> QED
    BY <1>19, <1>20 DEF Inv, Core

-----------------------------------------------------------------------------
\* What a step does to the buffers.
Tearless == UNCHANGED <<shown, mode, width>> => Clean(Now, Now')

\* What the display should show, as long as only what is promised for happens.
Faith == Faithful(Now, current)

LEMMA ViewPrime ==
  ASSUME NEW q, Now' = q, UNCHANGED useVars, View(q, current')
  PROVE  View(Now, current)'
  <1>1. gl' = gl /\ use' = use
    BY DEF useVars
  <1>2. Row(Now, current)' = Row(q, current') /\ Scratch(Now, current)' = Scratch(q, current')
    BY DEF Row, Scratch
  <1>3. \A c : Remembers(Now, current, c)' = Remembers(q, current', c)
    BY DEF Remembers
  <1>4. \A c : Shown(Now, current, c)' = Shown(q, current', c)
    BY <1>1 DEF Shown, Pointed, Under, HardwareCursor
  <1>5. Kept(Now, current)' = Kept(q, current')
    BY <1>2, <1>3 DEF Kept
  <1>6. Seen(Now, current)' = Seen(q, current')
    BY <1>2, <1>4 DEF Seen
  <1> QED
    BY <1>1, <1>5, <1>6 DEF View, Bulk

LEMMA AimPrime ==
  ASSUME NEW q, Now' = q, UNCHANGED useVars, Aim(q, current')
  PROVE  Aim(Now, current)'
  <1>1. HardwareCursor' = HardwareCursor
    BY DEF useVars, HardwareCursor
  <1>2. PlaneOf(Now, current)' = PlaneOf(q, current')
    BY <1>1 DEF PlaneOf
  <1>3. Alike(Now, current)'
    BY DEF Aim, Alike
  <1>4. Pointing(Now, current)'
    BY <1>1 DEF Aim, Pointing
  <1> QED
    BY <1>2, <1>3, <1>4 DEF Aim

LEMMA FaithPrime ==
  ASSUME NEW q, Now' = q, UNCHANGED useVars, Faithful(q, current')
  PROVE  Faith'
  <1>1. Plain' = Plain /\ Steady' = Steady
    BY DEF Plain, Steady, useVars
  <1>2. Plain => View(Now, current)'
    BY ViewPrime DEF Faithful
  <1>3. Steady => Aim(Now, current)'
    BY AimPrime DEF Faithful
  <1> QED
    BY <1>1, <1>2, <1>3 DEF Faith, Faithful

\* Nothing is promised where sessions are switched or closed, screens are turned
\* or the pointer is hidden.
LEMMA Elsewhere ==
  ASSUME NEW w \in {"turn", "hide", "switch", "close"}, w \in use, UNCHANGED useVars
  PROVE  Faith'
  <1>1. ~Plain' /\ ~Steady'
    BY DEF Plain, Steady, useVars
  <1> QED
    BY <1>1 DEF Faith, Faithful

\* A handler that stores q.
LEMMA Stored ==
  ASSUME NEW q, Store(q), UNCHANGED useVars, Core(q, current', shown')
  PROVE  Inv' /\ Now' = q /\ (Faithful(q, current') => Faith')
  <1>1. Now' = q
    BY StoreFacts DEF Core, Most
  <1> QED
    BY <1>1, CorePrime, FaithPrime

\* A redraw after the console changed.
LEMMA TextFaithful ==
  ASSUME NEW r, NEW cur, NEW sh, Core(r, cur, sh), Faithful(r, cur), NEW x, Changes(r, x, {"text"})
  PROVE  Faithful(RedrawAll(x, cur), cur)
  <1>1. Core(x, cur, sh)
    BY CoreSame
  <1>2. Plain => Bulk(x, cur)
    BY BulkSame DEF Faithful, View
  <1>3. Steady => Alike(x, cur) /\ Pointing(x, cur)
    BY AimSame DEF Faithful, Aim
  <1> QED
    BY <1>1, <1>2, <1>3, RedrawFaithful

LEMMA ColoursFaithful ==
  ASSUME NEW r, NEW cur, NEW sh, Core(r, cur, sh), Faithful(r, cur), NEW x, Changes(r, x, {"known"}),
         ~x.known[cur], ~Steady
  PROVE  Faithful(RedrawAll(x, cur), cur)
  <1>1. Core(x, cur, sh)
    BY CoreSame
  <1>2. ASSUME Plain PROVE Bulk(x, cur)
    <2>1. x.wide = r.wide /\ x.blob = r.blob
      BY DEF Changes, Field
    <2>2. ~gl => x.wide[cur] = {} /\ x.blob = NoBlob
      BY <1>2, <2>1 DEF Faithful, View, Bulk
    <2>3. Scratch(x, cur)
      BY DEF Scratch
    <2> QED
      BY <2>2, <2>3, BulkScratch
  <1> QED
    BY <1>1, <1>2, RedrawFaithful

LEMMA PointerFaithful ==
  ASSUME NEW r, NEW cur, NEW sh, Core(r, cur, sh), Faithful(r, cur),
         NEW p \in (0..MaxCols) \ {0}, NEW x, Changes(r, x, {"pointer"}), x.pointer[cur] = p,
         NEW y, Changes(x, y, {"cursor"}),
         y.cursor = IF HardwareCursor /\ x.cursor.active
                    THEN [x.cursor EXCEPT !.visible = TRUE, !.at = p] ELSE x.cursor
  PROVE  Faithful(RedrawAll(y, cur), cur)
  <1>1. Changes(r, y, {"pointer", "cursor"})
    BY DEF Changes
  <1>2. Core(y, cur, sh)
    BY <1>1, CoreSame
  <1>3. Plain => Bulk(y, cur)
    BY <1>1, BulkSame DEF Faithful, View
  <1>4. ASSUME Steady PROVE Alike(y, cur) /\ Pointing(y, cur)
    <2>1. /\ y.open = r.open /\ y.mode = r.mode /\ y.width = r.width /\ y.awake = r.awake
          /\ y.plane = r.plane
      BY <1>1 DEF Changes, Field
    <2>2. x.cursor = r.cursor /\ y.pointer = x.pointer
      BY DEF Changes, Field
    <2>3. Alike(r, cur) /\ Pointing(r, cur) /\ r.cursor \in Cursors
      BY <1>4 DEF Faithful, Aim, Core, Most, State
    <2>4. Alike(y, cur)
      BY <2>1, <2>3 DEF Alike
    <2>5. CASE HardwareCursor
      <3>1. y.cursor = [r.cursor EXCEPT !.visible = TRUE, !.at = p]
        BY <2>2, <2>3, <2>5 DEF Pointing
      <3>2. /\ y.cursor.active = r.cursor.active /\ y.cursor.visible /\ y.cursor.at = p
            /\ y.cursor.origin = r.cursor.origin
        BY <2>3, <3>1 DEF Cursors
      <3>3. y.pointer[cur] = p /\ p # 0
        BY <2>2
      <3>4. Pointing(y, cur)
        BY <2>1, <2>3, <2>5, <3>2, <3>3 DEF Pointing
      <3> QED
        BY <2>4, <3>4
    <2>6. CASE ~HardwareCursor
      BY <2>1, <2>3, <2>4, <2>6 DEF Pointing
    <2> QED
      BY <2>5, <2>6
  <1> QED
    BY <1>2, <1>3, <1>4, RedrawFaithful

LEMMA OutputStep == ASSUME Inv, Output PROVE Inv' /\ Tearless /\ (Faith => Faith')
  <1>1. PICK c \in 1..width[current], ch \in Symbol :
          Store(RedrawAll([Now EXCEPT !.text[current][c] = ch], current))
    BY DEF Output
  <1> DEFINE r == Now
             T == [r.text EXCEPT ![current][c] = ch]
             x == [r EXCEPT !.text = T]
             q == RedrawAll(x, current)
  <1>2. Core(r, current, shown) /\ r \in State /\ current \in Terminal /\ MaxCols \in Nat \ {0}
    BY MaxColsFacts DEF Inv, Core, Most
  <1>3. c \in Cell
    <2>1. width[current] \in Cell
      BY <1>2, NowFacts DEF State
    <2> QED
      BY <1>2, <2>1 DEF Cell
  <1>4. Store(q)
    BY <1>1
  <1>5. r.text \in [Terminal -> [Cell -> Symbol]]
    BY <1>2 DEF State
  <1> HIDE DEF r
  <1>6. T \in [Terminal -> [Cell -> Symbol]]
    BY <1>2, <1>3, <1>5
  <1> HIDE DEF T
  <1>7. Changes(r, x, {"text"})
    BY <1>2, <1>6 DEF Changes, State, Field
  <1> HIDE DEF x
  <1>8. Core(q, current, shown) /\ Clean(r, q)
    BY <1>2, <1>7, RedrawCore
  <1>10. Faithful(r, current) => Faithful(q, current)
    BY <1>2, <1>7, TextFaithful
  <1> HIDE DEF q
  <1>9. Inv' /\ Now' = q /\ (Faithful(q, current') => Faith')
    BY <1>4, <1>8, Stored DEF Output
  <1> QED
    BY <1>8, <1>9, <1>10 DEF Tearless, Faith, Output, r

LEMMA ScrollStep == ASSUME Inv, Scroll PROVE Inv' /\ Tearless /\ (Faith => Faith')
  <1> DEFINE r == Now
             B == Blank(" ")
             T == [r.text EXCEPT ![current] = B]
             x == [r EXCEPT !.text = T]
             q == RedrawAll(x, current)
  <1>2. Core(r, current, shown) /\ r \in State /\ current \in Terminal
    BY MaxColsFacts DEF Inv, Core, Most
  <1>3. B \in [Cell -> Symbol]
    BY DEF Blank, Symbol
  <1>4. Store(q)
    BY DEF Scroll
  <1>5. r.text \in [Terminal -> [Cell -> Symbol]]
    BY <1>2 DEF State
  <1> HIDE DEF r, B
  <1>6. T \in [Terminal -> [Cell -> Symbol]]
    BY <1>2, <1>3, <1>5
  <1> HIDE DEF T
  <1>7. Changes(r, x, {"text"})
    BY <1>2, <1>6 DEF Changes, State, Field
  <1> HIDE DEF x
  <1>8. Core(q, current, shown) /\ Clean(r, q)
    BY <1>2, <1>7, RedrawCore
  <1>10. Faithful(r, current) => Faithful(q, current)
    BY <1>2, <1>7, TextFaithful
  <1> HIDE DEF q
  <1>9. Inv' /\ Now' = q /\ (Faithful(q, current') => Faith')
    BY <1>4, <1>8, Stored DEF Scroll
  <1> QED
    BY <1>8, <1>9, <1>10 DEF Tearless, Faith, Scroll, r

LEMMA ColoursStep == ASSUME Inv, Colours PROVE Inv' /\ Tearless /\ (Faith => Faith')
  <1> DEFINE r == Now
             no == FALSE
             K == [r.known EXCEPT ![current] = no]
             x == [r EXCEPT !.known = K]
             q == RedrawAll(x, current)
  <1>2. Core(r, current, shown) /\ r \in State /\ current \in Terminal
    BY MaxColsFacts DEF Inv, Core, Most
  <1>3. no \in Flag
    BY FlagFacts
  <1>4. Store(q)
    BY DEF Colours
  <1>5. r.known \in [Terminal -> Flag]
    BY <1>2 DEF State
  <1> HIDE DEF r, no
  <1>6. K \in [Terminal -> Flag]
    BY <1>2, <1>3, <1>5
  <1> HIDE DEF K
  <1>7. Changes(r, x, {"known"})
    BY <1>2, <1>6 DEF Changes, State, Field
  <1>10. ~x.known[current] /\ ~Steady
    <2>1. x.known = K
      BY <1>2 DEF State
    <2> QED
      BY <1>2, <1>5, <2>1 DEF K, no, Colours, Steady
  <1> HIDE DEF x
  <1>11. Faithful(r, current) => Faithful(q, current)
    BY <1>2, <1>7, <1>10, ColoursFaithful
  <1>8. Core(q, current, shown) /\ Clean(r, q)
    BY <1>2, <1>7, RedrawCore
  <1> HIDE DEF q
  <1>9. Inv' /\ Now' = q /\ (Faithful(q, current') => Faith')
    BY <1>4, <1>8, Stored DEF Colours
  <1> QED
    BY <1>8, <1>9, <1>11 DEF Tearless, Faith, Colours, r

\* The pointer is at p.
LEMMA PointedFacts ==
  ASSUME NEW r \in State, NEW t \in Terminal, NEW p \in 0..MaxCols
  PROVE  /\ Changes(r, [r EXCEPT !.pointer[t] = p], {"pointer"})
         /\ [r EXCEPT !.pointer[t] = p].cursor = r.cursor
         /\ [r EXCEPT !.pointer[t] = p].pointer[t] = p
  <1> DEFINE P == [r.pointer EXCEPT ![t] = p]
             x == [r EXCEPT !.pointer = P]
  <1>1. r.pointer \in [Terminal -> 0..MaxCols]
    BY DEF State
  <1>2. P \in [Terminal -> 0..MaxCols] /\ P[t] = p
    BY <1>1
  <1>3. [r EXCEPT !.pointer[t] = p] = x
    OBVIOUS
  <1> HIDE DEF P
  <1>4. Changes(r, x, {"pointer"}) /\ x.cursor = r.cursor /\ x.pointer = P
    BY <1>2 DEF Changes, State, Field
  <1> QED
    BY <1>2, <1>3, <1>4

LEMMA MovePointerStep == ASSUME Inv, MovePointer PROVE Inv' /\ Tearless /\ (Faith => Faith')
  <1>1. PICK p \in 1..width[current] :
          Store(RedrawAll(HwCursorShow([Now EXCEPT !.pointer[current] = p], p), current))
    BY DEF MovePointer
  <1> DEFINE r == Now
             x == [r EXCEPT !.pointer[current] = p]
             y == HwCursorShow(x, p)
             q == RedrawAll(y, current)
  <1>2. Core(r, current, shown) /\ r \in State /\ current \in Terminal /\ MaxCols \in Nat \ {0}
    BY MaxColsFacts DEF Inv, Core, Most
  <1>3. p \in 0..MaxCols /\ p # 0
    <2>1. width[current] \in Cell
      BY <1>2, NowFacts DEF State
    <2> QED
      BY <1>2, <2>1 DEF Cell
  <1>4. Store(q)
    BY <1>1
  <1> HIDE DEF r
  <1>5. Changes(r, x, {"pointer"}) /\ x.pointer[current] = p
    BY <1>2, <1>3, PointedFacts
  <1> HIDE DEF x
  <1>6. /\ Changes(x, y, {"cursor"})
        /\ y.cursor = IF HardwareCursor /\ x.cursor.active
                      THEN [x.cursor EXCEPT !.visible = TRUE, !.at = p] ELSE x.cursor
    <2>1. x \in State
      BY <1>5 DEF Changes
    <2> QED
      BY <1>3, <2>1, ShowFacts
  <1> HIDE DEF y
  <1>7. Changes(r, y, {"pointer", "cursor"})
    BY <1>5, <1>6 DEF Changes
  <1>8. Core(q, current, shown) /\ Clean(r, q)
    BY <1>2, <1>7, RedrawCore
  <1>10. Faithful(r, current) => Faithful(q, current)
    BY <1>2, <1>3, <1>5, <1>6, PointerFaithful
  <1> HIDE DEF q
  <1>9. Inv' /\ Now' = q /\ (Faithful(q, current') => Faith')
    BY <1>4, <1>8, Stored DEF MovePointer
  <1> QED
    BY <1>8, <1>9, <1>10 DEF Tearless, Faith, MovePointer, r

LEMMA HidePointerStep == ASSUME Inv, HidePointer PROVE Inv' /\ Tearless /\ (Faith => Faith')
  <1> DEFINE r == Now
             x == [r EXCEPT !.pointer[current] = 0]
             q == HwCursorHide(x)
  <1>2. Core(r, current, shown) /\ r \in State /\ current \in Terminal /\ MaxCols \in Nat \ {0}
    BY MaxColsFacts DEF Inv, Core, Most
  <1>3. 0 \in 0..MaxCols
    BY <1>2
  <1>4. Store(q)
    BY DEF HidePointer
  <1> HIDE DEF r
  <1>5. Changes(r, x, {"pointer"})
    BY <1>2, <1>3, PointedFacts
  <1> HIDE DEF x
  <1>6. Changes(x, q, {"cursor"})
    <2>1. x \in State
      BY <1>5 DEF Changes
    <2>2. Changes(x, x, {"cursor"})
      BY <2>1, ChangesNothing
    <2> QED
      BY <2>1, <2>2, HideFacts DEF HwCursorHide
  <1> HIDE DEF q
  <1>7. Changes(r, q, {"pointer", "cursor"})
    BY <1>5, <1>6 DEF Changes
  <1>8. Core(q, current, shown) /\ q.buf = r.buf
    BY <1>2, <1>7, CoreSame
  <1>9. Inv' /\ Now' = q /\ (Faithful(q, current') => Faith')
    BY <1>4, <1>8, Stored DEF HidePointer
  <1>10. Faith'
    BY Elsewhere DEF HidePointer
  <1> QED
    BY <1>8, <1>9, <1>10 DEF Tearless, Clean, r

LEMMA ZoomStep == ASSUME Inv, NEW m \in Mode, Zoom(m) PROVE Inv' /\ Tearless /\ (Faith => Faith')
  <1> DEFINE r == Now
             q == FontSet(r, current, m)
  <1>1. Core(r, current, shown) /\ Store(q) /\ m # mode[current]
    BY DEF Inv, Zoom
  <1>2. r.mode = mode
    BY NowFacts
  <1> HIDE DEF r
  <1>3. /\ Core(q, current, shown) /\ q.mode[current] = m
        /\ Faithful(r, current) /\ ~Steady => Faithful(q, current)
    BY <1>1, FontSetCore
  <1>6. ~Steady
    BY DEF Zoom, Steady
  <1> HIDE DEF q
  <1>4. Inv' /\ Now' = q /\ (Faithful(q, current') => Faith')
    BY <1>1, <1>3, Stored DEF Zoom
  <1>5. Now'.mode = mode'
    BY DEF Now
  <1> QED
    BY <1>1, <1>3, <1>4, <1>5, <1>6 DEF Tearless, Faith, Zoom, r

LEMMA RotateStep == ASSUME Inv, Rotate PROVE Inv' /\ Tearless /\ (Faith => Faith')
  <1> DEFINE r == Now
             q == RotateAll(r, current)
  <1>1. Core(r, current, shown) /\ Store(q) /\ "turn" \in use
    BY DEF Inv, Rotate
  <1>2. r.mode = mode /\ mode[current] \in Mode
    <2>1. r \in State /\ current \in Terminal
      BY <1>1, MaxColsFacts DEF Core, Most
    <2>2. r.mode[current] \in Mode
      BY <2>1 DEF State
    <2> QED
      BY <2>2, NowFacts
  <1> HIDE DEF r
  <1>3. Core(q, current, shown) /\ q.mode[current] = Turned(mode[current])
    BY <1>1, <1>2, RotateCore
  <1> HIDE DEF q
  <1>4. Inv' /\ Now' = q /\ (Faithful(q, current') => Faith')
    BY <1>1, <1>3, Stored DEF Rotate
  <1>5. Now'.mode = mode'
    BY DEF Now
  <1>6. Turned(mode[current]) # mode[current]
    <2> DEFINE m == mode[current]
    <2>1. m = <<m[1], m[2]>> /\ m[2] \in BOOLEAN
      BY <1>2, FrameAssumption
    <2> HIDE DEF m
    <2>2. Turned(m)[2] # m[2]
      BY <2>1 DEF Turned
    <2> QED
      BY <2>2 DEF m
  <1>7. Faith'
    BY Elsewhere DEF Rotate
  <1> QED
    BY <1>3, <1>4, <1>5, <1>6, <1>7 DEF Tearless

LEMMA FlippedStep == ASSUME Inv, Flipped PROVE Inv' /\ Tearless /\ (Faith => Faith')
  <1> DEFINE r == Now
             q == Pflip(r)
  <1>1. Core(r, current, shown) /\ Store(q)
    BY DEF Inv, Flipped
  <1> HIDE DEF r
  <1>2. /\ Core(q, current, shown) /\ Clean(r, q)
        /\ Faithful(r, current) => Faithful(q, current)
    BY <1>1, FlippedCore
  <1> HIDE DEF q
  <1>3. Inv' /\ Now' = q /\ (Faithful(q, current') => Faith')
    BY <1>1, <1>2, Stored DEF Flipped
  <1> QED
    BY <1>2, <1>3 DEF Tearless, Faith, Flipped, r

LEMMA SwitchStep == ASSUME Inv, NEW t \in Terminal, Switch(t) PROVE Inv' /\ Tearless /\ (Faith => Faith')
  <1> DEFINE r == Now
             q == Activate(Deactivate(r, current), t)
  <1>1. Core(r, current, TRUE) /\ Store(q) /\ t \in r.open \ {current}
    BY NowFacts DEF Inv, Switch, Core, Most, FlipOk
  <1> HIDE DEF r
  <1>2. Core(q, t, TRUE) /\ Clean(r, q)
    BY <1>1, SwitchCore
  <1> HIDE DEF q
  <1>3. current' = t /\ UNCHANGED useVars /\ Core(q, current', shown')
    BY <1>2 DEF Switch, Core, Most, FlipOk
  <1>4. Inv' /\ Now' = q /\ (Faithful(q, current') => Faith')
    BY <1>1, <1>3, Stored
  <1>5. Faith'
    BY Elsewhere DEF Switch
  <1> QED
    BY <1>2, <1>4, <1>5 DEF Tearless, r

LEMMA CloseStep == ASSUME Inv, NEW t \in Terminal, Close(t) PROVE Inv' /\ Tearless /\ (Faith => Faith')
  <1> DEFINE r == Now
             x == [r EXCEPT !.open = @ \ {t}, !.cols[t] = [d \in Display |-> 0]]
             q == DestroyCursor(x)
  <1>1. Core(r, current, shown) /\ Store(q) /\ t \in r.open \ {current}
    BY NowFacts DEF Inv, Close
  <1> HIDE DEF r
  <1>2. Core(q, current, shown) /\ Clean(r, q)
    BY <1>1, CloseCore
  <1> HIDE DEF q
  <1>3. Inv' /\ Now' = q /\ (Faithful(q, current') => Faith')
    BY <1>1, <1>2, Stored DEF Close
  <1>5. Faith'
    BY Elsewhere DEF Close
  <1> QED
    BY <1>2, <1>3, <1>5 DEF Tearless, r

LEMMA LeaveStep == ASSUME Inv, Leave PROVE Inv' /\ Tearless /\ (Faith => Faith')
  <1> DEFINE r == Now
             q == Sleep(Deactivate(r, current))
             z == [q EXCEPT !.plane = Foreign]
  <1>1. Core(r, current, TRUE) /\ (Store(q) \/ Store(z))
    BY DEF Inv, Leave, Core, Most, FlipOk
  <1> HIDE DEF r
  <1>2. /\ Core(q, current, FALSE) /\ Core(z, current, FALSE)
        /\ Faithful(r, current) => Faithful(q, current) /\ Faithful(z, current)
    BY <1>1, LeaveCore
  <1> HIDE DEF q, z
  <1>3. UNCHANGED useVars /\ shown' # shown /\ Core(q, current', shown') /\ Core(z, current', shown')
    BY <1>2 DEF Leave, Core, Most, FlipOk
  <1>4. Inv'
    BY <1>1, <1>3, Stored
  <1>5. Faithful(q, current') /\ Faithful(z, current') => Faith'
    BY <1>1, <1>3, Stored
  <1> QED
    BY <1>2, <1>3, <1>4, <1>5 DEF Tearless, Faith, Leave, r

LEMMA EnterStep == ASSUME Inv, Enter PROVE Inv' /\ Tearless /\ (Faith => Faith')
  <1> DEFINE r == Now
             q == Activate(ShowDisplays(Modeset(r)), current)
  <1>1. Core(r, current, FALSE) /\ Store(q)
    BY DEF Inv, Enter, Core, Most, FlipOk
  <1> HIDE DEF r
  <1>2. Core(q, current, TRUE) /\ (Faithful(r, current) => Faithful(q, current))
    BY <1>1, EnterCore
  <1> HIDE DEF q
  <1>3. UNCHANGED useVars /\ shown' # shown /\ Core(q, current', shown')
    BY <1>2 DEF Enter, Core, Most, FlipOk
  <1>4. Inv' /\ (Faithful(q, current') => Faith')
    BY <1>1, <1>3, Stored
  <1> QED
    BY <1>2, <1>3, <1>4 DEF Tearless, Faith, Enter, r

LEMMA PlugStep == ASSUME Inv, NEW d \in Display, Plug(d) PROVE Inv' /\ Tearless /\ (Faith => Faith')
  <1> DEFINE r == Now
             set == Modeset([r EXCEPT !.plugged = @ \cup {d}])
             q == Activate(ForTerminals(LAMBDA h, t : AddDisplay(h, t, d), set), current)
  <1>1. Core(r, current, TRUE) /\ d \in Display \ r.plugged
    BY NowFacts DEF Inv, Plug, Core, Most, FlipOk
  <1>2. Store(q)
    BY DEF Plug
  <1> HIDE DEF r
  <1>3. /\ Core(q, current, TRUE) /\ (q.width = r.width => q.buf = r.buf)
        /\ Faithful(r, current) => Faithful(q, current)
    BY <1>1, PlugCore
  <1> HIDE DEF q
  <1>4. UNCHANGED useVars /\ Core(q, current', shown')
    BY <1>3 DEF Plug, Core, Most, FlipOk
  <1>5. Inv' /\ Now' = q /\ (Faithful(q, current') => Faith')
    BY <1>2, <1>4, Stored
  <1>6. Now'.width = width' /\ r.width = width
    BY DEF Now, r
  <1> QED
    BY <1>3, <1>5, <1>6 DEF Tearless, Clean, Faith, Plug, r

LEMMA UnplugStep == ASSUME Inv, NEW d \in Display, Unplug(d) PROVE Inv' /\ Tearless /\ (Faith => Faith')
  <1> DEFINE r == Now
             q == ForTerminals(LAMBDA h, t : RmDisplay(h, t, d), [r EXCEPT !.plugged = @ \ {d}])
  <1>1. Core(r, current, TRUE) /\ d \in r.plugged \ {Lit}
    BY NowFacts DEF Inv, Unplug, Core, Most, FlipOk
  <1>2. Store(q)
    BY DEF Unplug
  <1> HIDE DEF r
  <1>3. /\ Core(q, current, TRUE) /\ (q.width = r.width => q.buf = r.buf)
        /\ Faithful(r, current) => Faithful(q, current)
    BY <1>1, UnplugCore
  <1> HIDE DEF q
  <1>4. UNCHANGED useVars /\ Core(q, current', shown')
    BY <1>3 DEF Unplug, Core, Most, FlipOk
  <1>5. Inv' /\ Now' = q /\ (Faithful(q, current') => Faith')
    BY <1>2, <1>4, Stored
  <1>6. Now'.width = width' /\ r.width = width
    BY DEF Now, r
  <1> QED
    BY <1>3, <1>5, <1>6 DEF Tearless, Clean, Faith, Unplug, r

LEMMA StutterStep == ASSUME Inv, UNCHANGED vars PROVE Inv' /\ Tearless /\ (Faith => Faith')
  <1> DEFINE r == Now
  <1>1. /\ UNCHANGED <<current, shown, useVars>> /\ Now' = r
    BY DEF vars, seatVars, sizeVars, screenVars, bbulkVars, drmVars, cursorVars, useVars, Now
  <1>2. Core(r, current, shown)
    BY DEF Inv
  <1> HIDE DEF r
  <1>3. Inv'
    BY <1>1, <1>2, CorePrime
  <1>4. Faithful(r, current) => Faith'
    BY <1>1, FaithPrime
  <1> QED
    BY <1>1, <1>3, <1>4 DEF Tearless, Clean, Faith, r

LEMMA NextStep == Inv /\ [Next]_vars => Inv' /\ Tearless /\ (Faith => Faith')
  <1> SUFFICES ASSUME Inv, [Next]_vars PROVE Inv' /\ Tearless /\ (Faith => Faith')
    OBVIOUS
  <1>1. ASSUME NEW t \in Terminal, Switch(t) \/ Close(t) PROVE Inv' /\ Tearless /\ (Faith => Faith')
    BY <1>1, SwitchStep, CloseStep
  <1>2. ASSUME NEW d \in Display, Plug(d) \/ Unplug(d) PROVE Inv' /\ Tearless /\ (Faith => Faith')
    BY <1>2, PlugStep, UnplugStep
  <1>3. CASE Output
    BY <1>3, OutputStep
  <1>4. CASE Colours
    BY <1>4, ColoursStep
  <1>5. CASE MovePointer
    BY <1>5, MovePointerStep
  <1>6. CASE HidePointer
    BY <1>6, HidePointerStep
  <1>7. CASE InputEvent
    BY <1>7, ScrollStep, RotateStep, ZoomStep DEF InputEvent
  <1>8. CASE Flipped
    BY <1>8, FlippedStep
  <1>9. CASE Leave
    BY <1>9, LeaveStep
  <1>10. CASE Enter
    BY <1>10, EnterStep
  <1>11. CASE UNCHANGED vars
    BY <1>11, StutterStep
  <1> QED
    BY <1>1, <1>2, <1>3, <1>4, <1>5, <1>6, <1>7, <1>8, <1>9, <1>10, <1>11 DEF Next

\* Whatever the console is used for, one terminal at most is awake, the
\* terminal in front; it takes part in the flip that is outstanding; every screen
\* of an open session is as large as its terminal; and the cursor plane belongs to
\* the others while another VT is in front (seat_switch, redraw_all_text,
\* display_pageflip, terminal_update_size, drm_video_sleep).
THEOREM CoreCorrect == Spec => []Inv
  <1>1. Inv /\ [Next]_vars => Inv'
    BY NextStep
  <1> QED
    BY <1>1, InitCore, PTL DEF Spec

\* The screens of every open session draw rows as long as those of its console,
\* for every number of sessions, displays and fonts (terminal_update_size,
\* font_set, terminal_add_display, terminal_rm_display).
THEOREM RowsFitCorrect == Spec => []RowsFit
  <1>1. Inv => RowsFit
    BY NowFacts DEF Inv, Core, Most, SizeOk, RowsFit
  <1> QED
    BY <1>1, CoreCorrect, PTL

\* The renderer never draws into the buffer that the display shows
\* (redraw_all_text, display_pageflip, do_redraw_screen).
THEOREM NoTearCorrect == Spec => NoTear
  <1>1. Inv /\ [Next]_vars =>
          [UNCHANGED <<shown, mode, width>> =>
             \A b \in {0, 1} : buf'[b] # buf[b] => b # scanned']_vars
    <2> SUFFICES ASSUME Inv, [Next]_vars, UNCHANGED <<shown, mode, width>>
                 PROVE  \A b \in {0, 1} : buf'[b] # buf[b] => b # scanned'
      OBVIOUS
    <2>1. Clean(Now, Now')
      BY NextStep DEF Tearless
    <2>2. Now.buf = buf /\ Now'.buf = buf' /\ Now'.scanned = scanned'
      BY DEF Now
    <2> QED
      BY <2>1, <2>2 DEF Clean
  <1> QED
    BY <1>1, CoreCorrect, PTL DEF Spec, NoTear

-----------------------------------------------------------------------------
\* The frame that is on its way is drawn from scratch, and no pointer is shown.
LEMMA InitFaith == Init => Faith
  <1> SUFFICES ASSUME Init PROVE Faith
    OBVIOUS
  <1> DEFINE r == Now
  <1>1. /\ r.wide = wide /\ r.blob = blob /\ r.need = need /\ r.pending = pending /\ r.mode = mode
        /\ r.width = width /\ r.cursor = cursor /\ r.pointer = pointer /\ r.plane = plane
        /\ r.open = open
    BY NowFacts
  <1> HIDE DEF r
  <1>2. r.wide[current] = {} /\ r.blob = NoBlob /\ r.need /\ current \in r.pending
    BY <1>1 DEF Init
  <1>3. View(r, current)
    <2>1. Scratch(r, current)
      BY <1>2 DEF Scratch
    <2>2. Bulk(r, current)
      BY <1>2, <2>1, BulkScratch
    <2> QED
      BY <1>2, <2>2 DEF View
  <1>4. Alike(r, current)
    <2>1. PICK m \in Mode : mode = [t \in Terminal |-> m]
      BY DEF Init
    <2>2. r.open = Terminal /\ current \in Terminal
      BY <1>1 DEF Init
    <2> QED
      BY <1>1, <2>1, <2>2 DEF Alike
  <1>5. Pointing(r, current)
    <2>1. r.cursor = [active |-> HardwareCursor, visible |-> FALSE, at |-> 0,
                      origin |-> Border(r.mode[current], r.width[current])]
      BY <1>1 DEF Init
    <2>2. r.pointer[current] = 0 /\ r.plane = Hidden
      BY <1>1 DEF Init
    <2>3. /\ r.cursor.active = HardwareCursor /\ r.cursor.visible = FALSE
          /\ r.cursor.origin = Border(r.mode[current], r.width[current])
      BY <2>1
    <2> QED
      BY <2>2, <2>3 DEF Pointing
  <1>6. Aim(r, current)
    BY <1>2, <1>4, <1>5 DEF Aim
  <1> QED
    BY <1>3, <1>6 DEF Faith, Faithful, r

\* A display that has nothing left to do shows what the console in front holds,
\* with either renderer and whether its driver honours the damage or not; the
\* hardware cursor is where the pointer is, and leaves the display with the
\* console: for every number of sessions, displays and fonts and every length of
\* the rows (bbulk_draw_cell, bbulk_prepare, gltex_draw, drm_display_set_damage,
\* drm_prepare_commit, drm_video_sleep).
THEOREM ExactCorrect == Spec => []Exact
  <1>1. Inv /\ Faith /\ [Next]_vars => Faith'
    BY NextStep
  <1>2. Inv /\ Faith => Exact
    <2> SUFFICES ASSUME Inv, Faith PROVE Exact
      OBVIOUS
    <2> DEFINE r == Now
    <2>1. /\ Core(r, current, shown) /\ Faithful(r, current) /\ r.plane = plane /\ r.awake = awake
          /\ r.pending = pending /\ r.glass = glass /\ r.width = width /\ r.pointer = pointer
          /\ r.text = text /\ r.mode = mode
      BY NowFacts DEF Inv, Faith
    <2> HIDE DEF r
    <2>2. /\ r \in State /\ current \in Terminal /\ MaxCols \in Nat \ {0} /\ Lit \in r.plugged
          /\ SizeOk(r, current)
      BY <2>1, MaxColsFacts DEF Core, Most
    <2>3. ASSUME Plain, Settled PROVE ShowsText
      <3>1. Seen(r, current)
        BY <2>1, <2>3 DEF Settled, Faithful, View
      <3>2. r.cols[current][Lit] = width[current]
        BY <2>1, <2>2, <2>3, FitsFacts DEF Fits
      <3>3. \A c : Shown(r, current, c) = Wanted(c)
        BY <2>1, <3>2 DEF Shown, Pointed, Wanted
      <3> QED
        BY <2>1, <3>1, <3>2, <3>3 DEF Seen, Row, ShowsText
    <2>4. ASSUME Steady, Settled PROVE ShowsCursor
      <3>1. r.plane = PlaneOf(r, current)
        BY <2>1, <2>4 DEF Settled, Faithful, Aim
      <3> QED
        BY <2>1, <3>1 DEF PlaneOf, ShowsCursor
    <2>5. ~shown => plane \in {Hidden, Foreign}
      BY <2>1 DEF Core, Most
    <2> QED
      BY <2>3, <2>4, <2>5 DEF Plain, Steady, Exact
  <1> QED
    BY <1>1, <1>2, CoreCorrect, InitFaith, PTL DEF Spec
=============================================================================
