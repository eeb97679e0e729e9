---------------------------- MODULE PanelProofs ----------------------------
(***************************************************************************)
(* Proofs about the extension's panel: its width, its highlight and its    *)
(* theme, for every set of window widths that can hold an unfolded panel,  *)
(* every drag and every number of inputs; and what it shows of the room it *)
(* is in, for every set of rooms and every number of inputs.               *)
(***************************************************************************)
EXTENDS PanelLayout, RoomPanel, TLAPS


\* Fractions of a window's width.
Fractions == {f \in [n : Nat, d : Nat \ {0}] : f.n <= f.d}
Layouts == [folded : BOOLEAN, maximized : BOOLEAN, frac : Fractions, pre : Fractions]
Views == [width : Int, fixed : BOOLEAN, handle : BOOLEAN]

LayoutTyped ==
    /\ win \in Windows /\ view \in Views /\ frame \in BOOLEAN
    /\ mem \in Layouts /\ stored \in Layouts
    /\ mem.frac.n > 0 /\ mem.pre.n > 0 /\ stored.frac.n > 0
    /\ unfolds \in Seq(Fractions)

\* What an unfolded panel shows is what its fraction says, or the least usable width.
WidthIsFraction ==
    ~mem.folded /\ ~mem.maximized /\ ~frame =>
      view.width \in {Px(mem.frac, win), Most(MinExpandWidth, Px(mem.frac, win))}

\* A fraction an unfolding may apply leads back to the width the panel was folded from.
LeadsBack(f) == f.n > 0 /\ Most(MinExpandWidth, Px(f, win)) = Most(MinExpandWidth, before)

\* The width to come back to survives in memory, in storage and in the reads under way.
WayBack ==
    before # 0 =>
      /\ mem.folded /\ stored.folded
      /\ LeadsBack(mem.frac) /\ LeadsBack(stored.frac)
      /\ \A i \in DOMAIN unfolds : LeadsBack(unfolds[i])

LayoutInv == LayoutTyped /\ NoDeadZone /\ PanelFits /\ WidthIsFraction /\ WayBack

----------------------------------------------------------------------------
(* Widths and fractions.                                                   *)

LEMMA DivIs ==
    ASSUME NEW a \in Int, NEW b \in Int, b > 0, NEW q \in Int, b * q <= a, a < b * q + b
    PROVE  a \div b = q
OBVIOUS

LEMMA DivAtMost ==
    ASSUME NEW a \in Int, NEW b \in Int, b > 0, NEW q \in Int, a < b * q + b
    PROVE  a \div b <= q
OBVIOUS

LEMMA DivNat == ASSUME NEW a \in Nat, NEW b \in Int, b > 0 PROVE a \div b \in Nat
OBVIOUS

LEMMA TimesMonotone ==
    ASSUME NEW n \in Nat, NEW d \in Nat, NEW w \in Nat, n <= d PROVE n * w <= d * w
OBVIOUS

\* A fraction of a width is at most that width (contentScript.js:144).
LEMMA PxFits == ASSUME NEW f \in Fractions, NEW w \in Nat PROVE Px(f, w) \in Nat /\ Px(f, w) <= w
<1>1. f.n \in Nat /\ f.d \in Nat /\ f.d > 0 /\ f.n <= f.d
  BY DEF Fractions
<1> DEFINE n == f.n
           d == f.d
<1> HIDE DEF n, d
<1>2. n * w \in Nat /\ d * w \in Nat /\ n * w <= d * w /\ d \in Nat /\ n \in Nat /\ d > 0
  BY <1>1, TimesMonotone DEF n, d
<1> DEFINE a == 2 * n * w + d
           b == 2 * d
<1>3. a = 2 * (n * w) + d /\ b * w = 2 * (d * w)
  BY <1>2
<1>4. a \in Nat /\ b \in Int /\ b > 0 /\ a < b * w + b
  BY <1>2, <1>3
<1> HIDE DEF a, b
<1>5. a \div b \in Nat /\ a \div b <= w
  BY <1>4, DivNat, DivAtMost
<1> QED
  BY <1>5 DEF Px, a, b, n, d

\* The fraction that is stored for a width leads back to that width.
LEMMA PxOwn ==
    ASSUME NEW x \in Nat, NEW w \in Nat, w > 0 PROVE Px([n |-> x, d |-> w], w) = x
<1> DEFINE a == 2 * x * w + w
           b == 2 * w
<1>1. a \in Int /\ b \in Int /\ b > 0 /\ x * w \in Nat /\ a = 2 * (x * w) + w /\ b * x = 2 * (x * w)
  OBVIOUS
<1>2. b * x <= a /\ a < b * x + b
  BY <1>1
<1> HIDE DEF a, b
<1>3. a \div b = x
  BY <1>1, <1>2, DivIs
<1> QED
  BY <1>3 DEF Px, a, b

LEMMA WindowWide == ASSUME win \in Windows PROVE win \in Nat /\ win > 160
BY WindowsAssumption DEF MinExpandWidth, CollapseWidth

\* clampWidth keeps a usable width usable, and the sidebar's as it is.
LEMMA ClampedBounds ==
    ASSUME win \in Windows, NEW px \in Int
    PROVE  /\ Clamped(px) \in Nat /\ Clamped(px) > 0 /\ Clamped(px) <= win
           /\ px > CollapseWidth => Clamped(px) > CollapseWidth
           /\ px >= MinPanelWidth /\ px <= win => Clamped(px) = px
           /\ Clamped(MinPanelWidth) = MinPanelWidth
BY WindowWide DEF Clamped, Most, Least, MinPanelWidth, CollapseWidth

\* A width of the window makes a fraction.
LEMMA WidthFraction ==
    ASSUME win \in Windows, NEW w \in Nat, w <= win PROVE [n |-> w, d |-> win] \in Fractions
BY WindowWide DEF Fractions

\* A click that unfolds asks for a width that can be used and that the window has.
LEMMA ExpandedWidth ==
    ASSUME win \in Windows, NEW f \in Fractions
    PROVE  /\ Most(MinExpandWidth, Px(f, win)) \in Nat
           /\ Most(MinExpandWidth, Px(f, win)) > CollapseWidth
           /\ Most(MinExpandWidth, Px(f, win)) <= win
<1> DEFINE p == Px(f, win)
<1>1. p \in Nat /\ p <= win
  BY PxFits, WindowWide
<1> HIDE DEF p
<1>2. Most(MinExpandWidth, p) \in Nat /\ Most(MinExpandWidth, p) > CollapseWidth /\ Most(MinExpandWidth, p) <= win
  BY <1>1, WindowWide DEF Most, MinExpandWidth, CollapseWidth
<1> QED
  BY <1>2 DEF p

----------------------------------------------------------------------------
(* The two ways to a width: a page is loaded, or setPanelWidth is called.  *)

\* What initPanelWidth restores is a layout, and its initial style agrees with it.
LEMMA RestoredOK ==
    ASSUME win \in Windows, NEW s \in Layouts, NEW r, r = Restored(s), NEW v, v = InitialView(r)
    PROVE  /\ r \in Layouts /\ r.frac.n > 0 /\ r.pre.n > 0
           /\ s.frac.n > 0 => r.frac = s.frac
           /\ s.folded => r.folded
           /\ v \in Views
           /\ v.width = MinPanelWidth \/ v.width > CollapseWidth
           /\ ~(r.folded /\ r.maximized) => (r.folded <=> v.width = MinPanelWidth) /\ v.width <= win
           /\ ~r.folded /\ ~r.maximized => v.width = Px(r.frac, win)
<1> DEFINE frac == IF s.frac.n > 0 THEN s.frac ELSE LegacyFraction
           pre == IF s.pre.n > 0 THEN s.pre ELSE Quarter
           q == Px(frac, win)
<1>w. win \in Nat /\ win > 160
  BY WindowWide
<1>1. LegacyFraction \in Fractions /\ LegacyFraction.n > 0
  BY <1>w DEF LegacyFraction, Fractions, LegacyWidth, Least
<1>2. frac \in Fractions /\ frac.n > 0 /\ (s.frac.n > 0 => frac = s.frac)
  BY <1>1 DEF Layouts
<1>3. pre \in Fractions /\ pre.n > 0
  BY DEF Quarter, Layouts, Fractions
<1>4. q \in Nat /\ q <= win
  BY <1>2, <1>w, PxFits
<1> DEFINE fold == s.folded \/ q <= CollapseWidth
<1>5. r = [folded |-> fold, maximized |-> s.maximized, frac |-> frac, pre |-> pre]
  BY Zenon DEF Restored
<1>b. fold \in BOOLEAN /\ s.maximized \in BOOLEAN /\ (s.folded => fold) /\ (~fold => ~(q <= CollapseWidth))
  BY DEF Layouts
<1> HIDE DEF frac, pre, fold
<1>6. r \in Layouts
  BY <1>2, <1>3, <1>5, <1>b DEF Layouts
<1>7. r.frac = frac /\ r.pre = pre /\ r.maximized = s.maximized /\ r.folded = fold
  BY <1>5
<1> DEFINE px == Px(r.frac, win)
<1>8. px = q
  BY <1>7 DEF q
<1> HIDE DEF q
<1>9. ~r.folded => q > CollapseWidth
  BY <1>4, <1>7, <1>b DEF CollapseWidth
<1>p. px \in Nat /\ px <= win /\ (~r.folded => px > CollapseWidth)
  BY <1>4, <1>8, <1>9
<1> HIDE DEF px
<1>10. CASE r.maximized
  <2>1. v = Fullscreen
    BY <1>10 DEF InitialView
  <2>2. v \in Views /\ v.width = win
    BY <2>1, <1>w DEF Fullscreen, Views
  <2> QED
    BY <2>2, <1>2, <1>3, <1>6, <1>7, <1>b, <1>10, <1>w DEF MinPanelWidth, CollapseWidth
<1>11. CASE ~r.maximized
  <2>1. v = [width |-> IF r.folded THEN MinPanelWidth ELSE px, fixed |-> FALSE, handle |-> TRUE]
    BY <1>11, Zenon DEF InitialView, px
  <2>2. CASE r.folded
    BY <2>1, <2>2, <1>2, <1>3, <1>6, <1>7, <1>b, <1>w DEF Views, MinPanelWidth
  <2>3. CASE ~r.folded
    <3>1. v = [width |-> px, fixed |-> FALSE, handle |-> TRUE]
      BY <2>1, <2>3, Zenon
    <3>2. v \in Views /\ v.width = px
      BY <3>1, <1>p DEF Views
    <3>3. v.width = Px(r.frac, win)
      BY <3>2 DEF px
    <3>4. ~s.folded
      BY <1>7, <1>b, <2>3
    <3> QED
      BY <3>2, <3>3, <3>4, <2>3, <1>2, <1>3, <1>6, <1>7, <1>p DEF MinPanelWidth, CollapseWidth
  <2> QED
    BY <2>2, <2>3
<1> QED
  BY <1>10, <1>11

\* What setPanelWidth leaves behind when it folds, or is given a usable width.
Settled(m) ==
    /\ view' \in Views /\ mem' \in Layouts /\ stored' \in Layouts
    /\ mem'.frac.n > 0 /\ mem'.pre = m.pre
    /\ stored'.frac = mem'.frac /\ stored'.folded = mem'.folded
    /\ view'.width = MinPanelWidth \/ view'.width > CollapseWidth
    /\ mem'.folded <=> view'.width = MinPanelWidth
    /\ view'.width <= win
    /\ mem'.folded => mem'.frac = m.frac
    /\ ~mem'.folded => view'.width = Px(mem'.frac, win)

LEMMA SetPanelWidthOK ==
    ASSUME win \in Windows, view \in Views, stored \in Layouts,
           NEW m \in Layouts, m.frac.n > 0, NEW px \in Int, NEW fold \in BOOLEAN,
           fold \/ px > CollapseWidth,
           SetPanelWidth(m, px, fold)
    PROVE  Settled(m) /\ mem'.folded = fold /\ (~fold => view'.width = Clamped(px))
<1> DEFINE w == IF fold THEN Clamped(MinPanelWidth) ELSE Clamped(px)
           mx == m.maximized /\ (fold \/ w >= win - 1)
           fr == IF fold THEN m.frac ELSE [n |-> w, d |-> win]
<1>1. w \in Nat /\ w <= win /\ w > 0 /\ (fold => w = MinPanelWidth) /\ (~fold => w > CollapseWidth)
      /\ (~fold => w = Clamped(px))
  BY ClampedBounds, WindowWide DEF MinPanelWidth
<1>2. fr \in Fractions /\ fr.n > 0
  BY <1>1, WidthFraction DEF Layouts
<1>3. mx \in BOOLEAN
  OBVIOUS
<1>x. ~fold => Px(fr, win) = w
  BY <1>1, PxOwn, WindowWide
<1> HIDE DEF w
<1>4. /\ mem' = [folded |-> fold, maximized |-> mx, frac |-> fr, pre |-> m.pre]
      /\ stored' = [folded |-> fold, maximized |-> mx, frac |-> fr, pre |-> stored.pre]
      /\ view' = [view EXCEPT !.width = w]
  BY Zenon DEF SetPanelWidth, w
<1>y. fold => fr = m.frac
  OBVIOUS
<1> HIDE DEF mx, fr
<1>5. mem' \in Layouts
  BY <1>2, <1>3, <1>4, Zenon DEF Layouts
<1>6. stored' \in Layouts
  BY <1>2, <1>3, <1>4, Zenon DEF Layouts
<1>7. view' \in Views /\ view'.width = w
  BY <1>1, <1>4 DEF Views
<1>8. /\ mem'.folded = fold /\ mem'.frac = fr /\ mem'.pre = m.pre
      /\ stored'.frac = fr /\ stored'.folded = fold
  BY <1>4, Zenon
<1>9. fold <=> view'.width = MinPanelWidth
  BY <1>1, <1>7 DEF MinPanelWidth, CollapseWidth
<1>10. ~fold => view'.width = Px(mem'.frac, win)
  BY <1>7, <1>8, <1>x
<1> QED
  BY <1>1, <1>2, <1>5, <1>6, <1>7, <1>8, <1>9, <1>10, <1>y DEF Settled

LEMMA RequestWidthOK ==
    ASSUME win \in Windows, view \in Views, stored \in Layouts,
           NEW m \in Layouts, m.frac.n > 0, NEW px \in Int,
           RequestWidth(m, px)
    PROVE  Settled(m) /\ (px > CollapseWidth => ~mem'.folded /\ view'.width = Clamped(px))
<1> DEFINE fold == px <= CollapseWidth
<1>1. fold \in BOOLEAN /\ (fold \/ px > CollapseWidth) /\ (px > CollapseWidth => ~fold)
  BY DEF CollapseWidth
<1>2. SetPanelWidth(m, px, fold)
  BY Zenon DEF RequestWidth
<1> HIDE DEF fold
<1> QED
  BY <1>1, <1>2, SetPanelWidthOK, Zenon

----------------------------------------------------------------------------
(* Every step keeps LayoutInv.                                             *)

\* The variables LayoutInv is about.
shape == <<win, view, mem, stored, unfolds, frame, before>>

LEMMA AfterSettled ==
    ASSUME win \in Windows, NEW m \in Layouts, m.pre.n > 0, Settled(m), win' = win,
           unfolds' \in Seq(Fractions), frame' \in BOOLEAN
    PROVE  LayoutTyped' /\ NoDeadZone' /\ PanelFits' /\ WidthIsFraction'
<1>1. LayoutTyped' /\ NoDeadZone' /\ PanelFits'
  BY DEF Settled, LayoutTyped, NoDeadZone, PanelFits
<1>2. WidthIsFraction'
  BY DEF Settled, WidthIsFraction
<1> QED
  BY <1>1, <1>2

LEMMA InitOK == Init => LayoutInv
<1> SUFFICES ASSUME Init PROVE LayoutInv
  OBVIOUS
<1>1. win \in Windows /\ mem = Restored(NothingStored) /\ view = InitialView(mem)
      /\ stored = [NothingStored EXCEPT !.frac = mem.frac] /\ unfolds = <<>> /\ frame = FALSE /\ before = 0
  BY DEF Init
<1>2. NothingStored \in Layouts
  BY DEF NothingStored, NoFraction, Layouts, Fractions
<1>3. /\ mem \in Layouts /\ mem.frac.n > 0 /\ mem.pre.n > 0
      /\ view \in Views
      /\ view.width = MinPanelWidth \/ view.width > CollapseWidth
      /\ ~(mem.folded /\ mem.maximized) => (mem.folded <=> view.width = MinPanelWidth) /\ view.width <= win
      /\ ~mem.folded /\ ~mem.maximized => view.width = Px(mem.frac, win)
  BY <1>1, <1>2, RestoredOK
<1>4. stored \in Layouts /\ stored.frac = mem.frac
  BY <1>1, <1>2, <1>3 DEF Layouts
<1>b. frame \in BOOLEAN /\ unfolds \in Seq(Fractions)
  <2>1. frame \in BOOLEAN
    BY <1>1, Zenon
  <2>2. unfolds \in Seq(Fractions)
    BY <1>1
  <2> QED
    BY <2>1, <2>2
<1>5. LayoutTyped /\ NoDeadZone
  <2>1. win \in Windows
    BY <1>1
  <2> QED
    BY <2>1, <1>3, <1>4, <1>b DEF LayoutTyped, NoDeadZone
<1>p. PanelFits
  BY <1>3, Zenon DEF PanelFits
<1>6. WidthIsFraction
  BY <1>3 DEF WidthIsFraction
<1> QED
  BY <1>1, <1>5, <1>p, <1>6 DEF LayoutInv, WayBack

LEMMA ReloadOK == LayoutInv /\ Reload => LayoutInv'
<1> SUFFICES ASSUME LayoutInv, Reload PROVE LayoutInv'
  OBVIOUS
<1> USE DEF LayoutInv
<1>1. mem' = Restored(stored) /\ view' = InitialView(mem') /\ win' = win /\ before' = before
      /\ stored' = [stored EXCEPT !.frac = mem'.frac] /\ unfolds' = <<>> /\ frame' = FALSE
  BY DEF Reload
<1>2. /\ mem' \in Layouts /\ mem'.frac.n > 0 /\ mem'.pre.n > 0
      /\ mem'.frac = stored.frac /\ (stored.folded => mem'.folded)
      /\ view' \in Views
      /\ view'.width = MinPanelWidth \/ view'.width > CollapseWidth
      /\ ~(mem'.folded /\ mem'.maximized) => (mem'.folded <=> view'.width = MinPanelWidth) /\ view'.width <= win
      /\ ~mem'.folded /\ ~mem'.maximized => view'.width = Px(mem'.frac, win)
  BY <1>1, RestoredOK DEF LayoutTyped
<1>3. stored' \in Layouts /\ stored'.frac = stored.frac /\ stored'.folded = stored.folded
  BY <1>1, <1>2 DEF Layouts, LayoutTyped
<1>b. frame' \in BOOLEAN /\ unfolds' \in Seq(Fractions) /\ win' \in Windows
  <2>1. frame' \in BOOLEAN
    BY <1>1, Zenon
  <2>2. unfolds' \in Seq(Fractions) /\ win' \in Windows
    BY <1>1 DEF LayoutTyped
  <2> QED
    BY <2>1, <2>2
<1>4. LayoutTyped' /\ NoDeadZone'
  <2>1. stored'.frac.n > 0
    BY <1>3 DEF LayoutTyped
  <2> QED
    BY <2>1, <1>2, <1>3, <1>b DEF LayoutTyped, NoDeadZone
<1>p. PanelFits'
  BY <1>1, <1>2, Zenon DEF PanelFits
<1>5. WidthIsFraction'
  BY <1>1, <1>2 DEF WidthIsFraction
<1>6. WayBack'
  BY <1>1, <1>2, <1>3 DEF WayBack, LeadsBack
<1> QED
  BY <1>4, <1>p, <1>5, <1>6

LEMMA DragOK == ASSUME LayoutInv, NEW x \in DragWidths, Drag(x) PROVE LayoutInv'
<1> USE DEF LayoutInv, LayoutTyped
<1>1. Clamped(x) \in Int
  BY DragAssumption, ClampedBounds
<1>2. RequestWidth(mem, Clamped(x)) /\ win' = win /\ unfolds' = unfolds /\ frame' = frame /\ before' = 0
  BY DEF Drag
<1>3. Settled(mem)
  BY <1>1, <1>2, RequestWidthOK
<1> QED
  BY <1>2, <1>3, AfterSettled DEF WayBack

LEMMA SyncOK == LayoutInv /\ Sync => LayoutInv'
<1> SUFFICES ASSUME LayoutInv, Sync PROVE LayoutInv'
  OBVIOUS
<1> USE DEF LayoutInv
<1>1. win' = win /\ unfolds' = unfolds /\ frame' = FALSE /\ before' = before
  BY DEF Sync
<1>2. CASE mem.folded
  <2>1. mem' = mem /\ view' = view /\ stored' = stored
    BY <1>2 DEF Sync
  <2>2. LayoutTyped' /\ NoDeadZone' /\ WidthIsFraction' /\ WayBack'
    BY <2>1, <1>1, <1>2 DEF LayoutTyped, NoDeadZone, WidthIsFraction, WayBack, LeadsBack
  <2>3. PanelFits'
    BY <2>1, <1>1, <1>2, WindowWide DEF PanelFits, LayoutTyped, MinPanelWidth
  <2> QED
    BY <2>2, <2>3
<1>3. CASE ~mem.folded /\ mem.maximized
  <2>1. view' = [view EXCEPT !.width = win] /\ mem' = mem /\ stored' = stored
    BY <1>3 DEF Sync
  <2>2. view' \in Views /\ view'.width = win /\ win \in Nat /\ win > 160
    BY <2>1, WindowWide DEF Views, LayoutTyped
  <2>b. frame' \in BOOLEAN
    BY <1>1, Zenon
  <2>c. win' = win /\ unfolds' = unfolds
    BY <1>1
  <2>3. LayoutTyped' /\ NoDeadZone'
    BY <2>1, <2>2, <2>b, <2>c DEF LayoutTyped, NoDeadZone, MinPanelWidth, CollapseWidth
  <2>p. PanelFits'
    <3>1. ~mem'.folded /\ view'.width # MinPanelWidth /\ view'.width <= win'
      BY <2>1, <2>2, <1>1, <1>3 DEF MinPanelWidth
    <3> QED
      BY <3>1, Zenon DEF PanelFits
  <2>4. WidthIsFraction' /\ WayBack'
    BY <2>1, <1>1, <1>3 DEF WidthIsFraction, WayBack
  <2> QED
    BY <2>3, <2>p, <2>4
<1>4. CASE ~mem.folded /\ ~mem.maximized
  <2>1. RequestWidth(mem, Px(mem.frac, win))
    BY <1>4 DEF Sync
  <2>2. Px(mem.frac, win) \in Int
    BY PxFits, WindowWide DEF LayoutTyped, Layouts
  <2>3. Settled(mem)
    BY <2>1, <2>2, RequestWidthOK DEF LayoutTyped
  <2>4. LayoutTyped' /\ NoDeadZone' /\ PanelFits' /\ WidthIsFraction'
    BY <2>3, <1>1, AfterSettled DEF LayoutTyped
  <2>5. WayBack'
    BY <1>1, <1>4 DEF WayBack
  <2> QED
    BY <2>4, <2>5
<1> QED
  BY <1>2, <1>3, <1>4

LEMMA FoldOK == LayoutInv /\ Fold => LayoutInv'
<1> SUFFICES ASSUME LayoutInv, Fold PROVE LayoutInv'
  OBVIOUS
<1> USE DEF LayoutInv
<1>1. /\ SetPanelWidth(mem, MinPanelWidth, TRUE) /\ win' = win /\ unfolds' = unfolds /\ frame' = frame
      /\ before' = IF mem.folded THEN before
                    ELSE IF mem.maximized \/ frame \/ unfolds # <<>> THEN 0 ELSE view.width
  BY DEF Fold
<1>2. MinPanelWidth \in Int
  BY DEF MinPanelWidth
<1>3. Settled(mem) /\ mem'.folded = TRUE
  BY <1>1, <1>2, SetPanelWidthOK DEF LayoutTyped
<1>4. LayoutTyped' /\ NoDeadZone' /\ PanelFits' /\ WidthIsFraction'
  BY <1>1, <1>3, AfterSettled DEF LayoutTyped
<1>5. mem'.folded /\ stored'.folded /\ mem'.frac = mem.frac /\ stored'.frac = mem.frac
  BY <1>3 DEF Settled
<1>6. CASE mem.folded
  BY <1>1, <1>4, <1>5, <1>6 DEF WayBack, LeadsBack
<1>7. CASE ~mem.folded /\ before' # 0
  <2>1. ~mem.maximized /\ ~frame /\ unfolds = <<>> /\ before' = view.width
    BY <1>1, <1>7
  <2> DEFINE p == Px(mem.frac, win)
  <2>2. p \in Nat
    BY PxFits, WindowWide DEF LayoutTyped, Layouts
  <2>3. before' \in {p, Most(MinExpandWidth, p)}
    BY <2>1, <1>7 DEF WidthIsFraction
  <2> HIDE DEF p
  <2>4. Most(MinExpandWidth, p) = Most(MinExpandWidth, before')
    BY <2>2, <2>3 DEF Most, MinExpandWidth, CollapseWidth
  <2>5. LeadsBack(mem.frac)'
    BY <2>4, <1>1, <1>5, <1>3 DEF LeadsBack, p, LayoutTyped, Settled
  <2>6. LeadsBack(stored.frac)'
    BY <2>5, <1>5 DEF LeadsBack
  <2>7. unfolds' = <<>>
    BY <2>1, <1>1
  <2> QED
    BY <2>5, <2>6, <2>7, <1>4, <1>5 DEF WayBack
<1>8. CASE before' = 0
  BY <1>4, <1>8 DEF WayBack
<1> QED
  BY <1>4, <1>6, <1>7, <1>8

LEMMA UnfoldOK == LayoutInv /\ Unfold => LayoutInv'
<1> SUFFICES ASSUME LayoutInv, Unfold PROVE LayoutInv'
  OBVIOUS
<1> USE DEF LayoutInv
<1>1. unfolds' = Append(unfolds, stored.frac) /\ UNCHANGED <<win, view, mem, stored, frame, before>>
  BY DEF Unfold
<1>2. unfolds' \in Seq(Fractions)
  BY <1>1 DEF LayoutTyped, Layouts
<1>3. LayoutTyped' /\ NoDeadZone' /\ PanelFits' /\ WidthIsFraction'
  BY <1>1, <1>2 DEF LayoutTyped, NoDeadZone, PanelFits, WidthIsFraction
<1>4. ASSUME before' # 0, NEW i \in DOMAIN unfolds' PROVE LeadsBack(unfolds[i])'
  <2>1. unfolds'[i] = stored.frac \/ (i \in DOMAIN unfolds /\ unfolds'[i] = unfolds[i])
    BY <1>1 DEF LayoutTyped
  <2>2. LeadsBack(stored.frac) /\ (i \in DOMAIN unfolds => LeadsBack(unfolds[i]))
    BY <1>1, <1>4 DEF WayBack
  <2> QED
    BY <2>1, <2>2, <1>1 DEF LeadsBack
<1> QED
  BY <1>1, <1>3, <1>4 DEF WayBack, LeadsBack

\* What UNFOLD applies, in a state of the invariant.
LEMMA UnfoldFinishApplies ==
    ASSUME LayoutInv, UnfoldFinish
    PROVE  /\ win' = win /\ frame' = frame /\ before' = 0 /\ unfolds' \in Seq(Fractions)
           /\ \E m \in Layouts : m.pre.n > 0 /\ Settled(m)
           /\ before # 0 => view'.width = Most(MinExpandWidth, before)
<1> USE DEF LayoutInv, LayoutTyped
<1> DEFINE frac == IF Head(unfolds).n > 0 THEN Head(unfolds) ELSE mem.frac
           px == Most(MinExpandWidth, Px(frac, win))
           m == [mem EXCEPT !.frac = frac]
<1>1. /\ unfolds # <<>> /\ unfolds' = Tail(unfolds) /\ RequestWidth(m, px)
      /\ win' = win /\ frame' = frame /\ before' = 0
  BY DEF UnfoldFinish
<1>2. Head(unfolds) \in Fractions /\ unfolds' \in Seq(Fractions)
  BY <1>1
<1>3. frac \in Fractions /\ frac.n > 0
  BY <1>2 DEF Layouts
<1>4. px \in Int /\ px > CollapseWidth /\ px <= win
  BY <1>3, ExpandedWidth
<1>5. before # 0 => px = Most(MinExpandWidth, before)
  <2>1. before # 0 => LeadsBack(frac)
    BY <1>1 DEF WayBack
  <2> QED
    BY <2>1 DEF LeadsBack
<1> HIDE DEF frac, px
<1>6. m \in Layouts /\ m.frac.n > 0 /\ m.pre.n > 0
  BY <1>3 DEF Layouts
<1> HIDE DEF m
<1>7. Settled(m) /\ view'.width = Clamped(px)
  BY <1>1, <1>4, <1>6, RequestWidthOK
<1>8. Clamped(px) = px
  BY <1>4, ClampedBounds DEF MinPanelWidth, CollapseWidth
<1> QED
  BY <1>1, <1>2, <1>5, <1>6, <1>7, <1>8

LEMMA MaximizeOK == LayoutInv /\ Maximize => LayoutInv'
<1> SUFFICES ASSUME LayoutInv, Maximize PROVE LayoutInv'
  OBVIOUS
<1> USE DEF LayoutInv
<1>1. win' = win /\ unfolds' = unfolds /\ frame' = frame /\ before' = 0
  BY DEF Maximize
<1>f. mem.frac \in Fractions /\ mem.pre \in Fractions
  BY DEF LayoutTyped, Layouts
<1>2. WayBack'
  BY <1>1 DEF WayBack
<1>3. CASE mem.maximized
  <2> DEFINE px == Most(MinExpandWidth, Px(mem.pre, win))
  <2>1. /\ mem' = [mem EXCEPT !.folded = FALSE, !.maximized = FALSE, !.frac = mem.pre]
        /\ view' = [width |-> px, fixed |-> FALSE, handle |-> TRUE]
        /\ stored' = [stored EXCEPT !.folded = FALSE, !.maximized = FALSE]
    BY <1>3, Zenon DEF Maximize
  <2>2. px \in Int /\ px > CollapseWidth /\ px <= win
    BY <1>f, ExpandedWidth DEF LayoutTyped
  <2>3. /\ mem' \in Layouts /\ stored' \in Layouts
        /\ mem'.frac = mem.pre /\ mem'.pre = mem.pre /\ stored'.frac = stored.frac /\ ~mem'.folded
    BY <2>1, <1>f DEF Layouts, LayoutTyped
  <2>w. WidthIsFraction'
    BY <2>1, <2>3, <1>1 DEF WidthIsFraction
  <2> HIDE DEF px
  <2>4. view' \in Views /\ view'.width = px
    BY <2>1, <2>2 DEF Views
  <2>5. LayoutTyped' /\ NoDeadZone' /\ PanelFits'
    BY <2>2, <2>3, <2>4, <1>1 DEF LayoutTyped, NoDeadZone, PanelFits, MinPanelWidth, CollapseWidth
  <2> QED
    BY <2>5, <2>w, <1>2
<1>4. CASE ~mem.maximized
  <2>1. /\ mem' = [folded |-> FALSE, maximized |-> TRUE, frac |-> [n |-> 1, d |-> 1], pre |-> mem.frac]
        /\ view' = Fullscreen
        /\ stored' = [stored EXCEPT !.folded = FALSE, !.maximized = TRUE, !.pre = mem.frac]
    BY <1>4, Zenon DEF Maximize
  <2>2. [n |-> 1, d |-> 1] \in Fractions
    BY DEF Fractions
  <2>3. /\ mem' \in Layouts /\ stored' \in Layouts
        /\ mem'.frac.n = 1 /\ mem'.pre = mem.frac /\ stored'.frac = stored.frac
        /\ ~mem'.folded /\ mem'.maximized
    BY <2>1, <2>2, <1>f DEF Layouts, LayoutTyped
  <2>4. view' \in Views /\ view'.width = win /\ win \in Nat /\ win > 160
    BY <2>1, WindowWide DEF Views, Fullscreen, LayoutTyped
  <2>5. LayoutTyped' /\ NoDeadZone' /\ PanelFits' /\ WidthIsFraction'
    BY <2>3, <2>4, <1>1 DEF LayoutTyped, NoDeadZone, PanelFits, WidthIsFraction, MinPanelWidth, CollapseWidth
  <2> QED
    BY <2>5, <1>2
<1> QED
  BY <1>3, <1>4

LEMMA StepOK == LayoutInv /\ [Next]_vars => LayoutInv'
<1> SUFFICES ASSUME LayoutInv, [Next]_vars PROVE LayoutInv'
  OBVIOUS
<1>0. ASSUME UNCHANGED shape PROVE LayoutInv'
  BY <1>0 DEF shape, LayoutInv, LayoutTyped, NoDeadZone, PanelFits, WidthIsFraction, WayBack, LeadsBack
<1>1. ASSUME NEW w \in Windows, Resize(w) PROVE LayoutInv'
  BY <1>1 DEF Resize, LayoutInv, LayoutTyped, NoDeadZone, PanelFits, WidthIsFraction, WayBack
<1>2. CASE UnfoldFinish
  <2>1. PICK m \in Layouts : m.pre.n > 0 /\ Settled(m)
    BY <1>2, UnfoldFinishApplies
  <2>2. win \in Windows /\ win' = win /\ frame' \in BOOLEAN /\ before' = 0 /\ unfolds' \in Seq(Fractions)
    BY <1>2, UnfoldFinishApplies DEF LayoutInv, LayoutTyped
  <2> QED
    BY <2>1, <2>2, AfterSettled DEF LayoutInv, WayBack
<1>3. CASE EndDrag
  BY <1>3, <1>0 DEF EndDrag, layout, shape
<1>4. ASSUME NEW type \in HeaderOffers \cup SidebarOffers, Click(type) PROVE LayoutInv'
  BY <1>4, <1>0 DEF Click, layout, shape
<1>5. CASE PressPanel \/ Activate \/ NotActive
  BY <1>5, <1>0 DEF PressPanel, Activate, NotActive, layout, shape
<1>6. ASSUME NEW t \in Tabsets, PressTabset(t) PROVE LayoutInv'
  BY <1>6, <1>0 DEF PressTabset, layout, shape
<1>7. CASE StartTheme \/ ShowTheme
  BY <1>7, <1>0 DEF StartTheme, ShowTheme, layout, shape
<1>8. ASSUME NEW p \in Preferences, PreferTheme(p) PROVE LayoutInv'
  BY <1>8, <1>0 DEF PreferTheme, layout, shape
<1>9. ASSUME NEW x \in Themes, LeetCodeTheme(x) PROVE LayoutInv'
  BY <1>9, <1>0 DEF LeetCodeTheme, layout, shape
<1>10. CASE UNCHANGED vars
  BY <1>10, <1>0 DEF vars, layout, shape
<1> QED
  BY ReloadOK, DragOK, SyncOK, FoldOK, UnfoldOK, MaximizeOK, <1>1, <1>2, <1>3, <1>4, <1>5, <1>6, <1>7,
     <1>8, <1>9, <1>10 DEF Next

LEMMA LayoutInvariant == Spec => []LayoutInv
BY InitOK, StepOK, PTL DEF Spec

\* requestWidth, its callers and the styles set without it (contentScript.js:193-223):
\* whatever the windows, the drags and the order of clicks, resizes, reads and reloads,
\* the panel is the sidebar or wide enough to be used.
THEOREM NeverInDeadZone == Spec => []NoDeadZone
<1>1. LayoutInv => NoDeadZone
  BY DEF LayoutInv
<1> QED
  BY LayoutInvariant, <1>1, PTL

\* The panel's style agrees with panelFolded and with the window.
THEOREM PanelAlwaysFits == Spec => []PanelFits
<1>1. LayoutInv => PanelFits
  BY DEF LayoutInv
<1> QED
  BY LayoutInvariant, <1>1, PTL

\* setPanelWidth keeps the fraction when it folds, and no reload, read or click before the
\* unfolding loses it.
THEOREM UnfoldingRestores == Spec => UnfoldRestores
<1>1. LayoutInv /\ [Next]_vars => [UnfoldFinish /\ before # 0 => view'.width = Most(MinExpandWidth, before)]_vars
  BY UnfoldFinishApplies
<1> QED
  BY LayoutInvariant, <1>1, PTL DEF Spec, UnfoldRestores

----------------------------------------------------------------------------
(* The highlight.                                                          *)

\* What the pages send to the content script.
Kinds == HeaderOffers \cup SidebarOffers \cup {"ACTIVE"}

\* A panel that shows itself highlighted is about to be told otherwise, is about to tell
\* the content script, or the script knows.
HighlightInv ==
    /\ msgs \in Seq(Kinds) /\ notes \in Nat
    /\ active \in [script : BOOLEAN, shown : BOOLEAN, tabset : Tabsets \cup {"none"}]
    /\ active.script => active.tabset = "none"
    /\ active.shown /\ notes = 0 /\ (\A i \in DOMAIN msgs : msgs[i] # "ACTIVE") => active.script

\* ACTIVE and NOT_ACTIVE between the frames (contentScript.js:652): in whatever order they
\* cross, at rest at most one side is highlighted.
THEOREM OneIsHighlighted == Spec => []OneHighlighted
<1>1. Init => HighlightInv
  <2> SUFFICES ASSUME Init PROVE HighlightInv
    OBVIOUS
  <2>1. msgs = <<>> /\ notes = 0 /\ active \in [script : {FALSE}, shown : {FALSE}, tabset : Tabsets]
    BY DEF Init
  <2>2. PICK t \in Tabsets : active = [script |-> FALSE, shown |-> FALSE, tabset |-> t]
    BY <2>1
  <2> QED
    BY <2>1, <2>2 DEF HighlightInv
<1>2. HighlightInv /\ [Next]_vars => HighlightInv'
  <2> SUFFICES ASSUME HighlightInv, [Next]_vars PROVE HighlightInv'
    OBVIOUS
  <2>0. ASSUME UNCHANGED <<msgs, highlight>> PROVE HighlightInv'
    BY <2>0 DEF HighlightInv, highlight
  <2>1. ASSUME NEW type \in Kinds, Receive(type), type # "ACTIVE", UNCHANGED highlight PROVE HighlightInv'
    <3>1. msgs # <<>> /\ Head(msgs) # "ACTIVE" /\ msgs' = Tail(msgs) /\ active' = active /\ notes' = notes
      BY <2>1 DEF Receive, highlight
    <3>2. msgs' \in Seq(Kinds)
      BY <3>1 DEF HighlightInv
    <3>3. (\A i \in DOMAIN msgs' : msgs'[i] # "ACTIVE") => \A i \in DOMAIN msgs : msgs[i] # "ACTIVE"
      <4> SUFFICES ASSUME \A i \in DOMAIN msgs' : msgs'[i] # "ACTIVE", NEW i \in DOMAIN msgs
                   PROVE  msgs[i] # "ACTIVE"
        OBVIOUS
      <4>1. CASE i = 1
        BY <3>1, <4>1 DEF HighlightInv
      <4>2. CASE i # 1
        <5>1. i - 1 \in DOMAIN msgs' /\ msgs'[i - 1] = msgs[i]
          BY <3>1, <4>2 DEF HighlightInv
        <5> QED
          BY <5>1
      <4> QED
        BY <4>1, <4>2
    <3> QED
      BY <3>1, <3>2, <3>3 DEF HighlightInv
  <2>2. ASSUME NEW type \in Kinds, msgs' = Append(msgs, type), UNCHANGED highlight PROVE HighlightInv'
    <3>1. msgs' \in Seq(Kinds) /\ \A i \in DOMAIN msgs : i \in DOMAIN msgs' /\ msgs'[i] = msgs[i]
      BY <2>2 DEF HighlightInv
    <3> QED
      BY <2>2, <3>1 DEF HighlightInv, highlight
  <2>3. CASE Reload
    <3>1. msgs' = <<>> /\ notes' = 0 /\ \E t \in Tabsets : active' = [NobodyActive EXCEPT !.tabset = t]
      BY <2>3 DEF Reload
    <3>2. PICK t \in Tabsets : active' = [script |-> FALSE, shown |-> FALSE, tabset |-> t]
      BY <3>1 DEF NobodyActive
    <3>3. msgs' = <<>> /\ notes' = 0
      BY <3>1
    <3> QED
      BY <3>2, <3>3 DEF HighlightInv
  <2>4. CASE Fold
    <3>1. Receive("FOLD") /\ UNCHANGED highlight
      BY <2>4 DEF Fold
    <3>2. "FOLD" \in Kinds /\ "FOLD" # "ACTIVE"
      BY DEF Kinds, HeaderOffers, SidebarOffers
    <3> QED
      BY <3>1, <3>2, <2>1
  <2>5. CASE Unfold
    <3>1. Receive("UNFOLD") /\ UNCHANGED highlight
      BY <2>5 DEF Unfold
    <3>2. "UNFOLD" \in Kinds /\ "UNFOLD" # "ACTIVE"
      BY DEF Kinds, HeaderOffers, SidebarOffers
    <3> QED
      BY <3>1, <3>2, <2>1
  <2>6. CASE Maximize
    <3>1. Receive("MAXIMIZE") /\ UNCHANGED highlight
      BY <2>6 DEF Maximize
    <3>2. "MAXIMIZE" \in Kinds /\ "MAXIMIZE" # "ACTIVE"
      BY DEF Kinds, HeaderOffers, SidebarOffers
    <3> QED
      BY <3>1, <3>2, <2>1
  <2>7. ASSUME NEW type \in HeaderOffers \cup SidebarOffers, Click(type) PROVE HighlightInv'
    BY <2>7, <2>2 DEF Click, Kinds
  <2>8. CASE PressPanel
    <3>1. /\ active' = [active EXCEPT !.shown = TRUE] /\ notes' = notes
          /\ msgs' = Append(msgs, "ACTIVE")
      BY <2>8 DEF PressPanel
    <3>2. msgs' \in Seq(Kinds) /\ Len(msgs) + 1 \in DOMAIN msgs' /\ msgs'[Len(msgs) + 1] = "ACTIVE"
      BY <3>1 DEF HighlightInv, Kinds
    <3> QED
      BY <3>1, <3>2 DEF HighlightInv
  <2>9. CASE Activate
    <3>1. /\ msgs # <<>> /\ msgs' = Tail(msgs) /\ notes' = notes
          /\ active' = IF active.script THEN active ELSE [active EXCEPT !.script = TRUE, !.tabset = "none"]
      BY <2>9 DEF Activate, Receive
    <3>2. msgs' \in Seq(Kinds)
      BY <3>1 DEF HighlightInv
    <3>3. active'.script /\ active'.tabset = "none"
          /\ active' \in [script : BOOLEAN, shown : BOOLEAN, tabset : Tabsets \cup {"none"}]
      BY <3>1 DEF HighlightInv
    <3> QED
      BY <3>1, <3>2, <3>3 DEF HighlightInv
  <2>10. CASE NotActive
    <3>1. notes > 0 /\ notes' = notes - 1 /\ active' = [active EXCEPT !.shown = FALSE] /\ msgs' = msgs
      BY <2>10 DEF NotActive
    <3>2. active' = [script |-> active.script, shown |-> FALSE, tabset |-> active.tabset]
      BY <3>1 DEF HighlightInv
    <3>3. notes' \in Nat
      BY <3>1 DEF HighlightInv
    <3> QED
      BY <3>1, <3>2, <3>3 DEF HighlightInv
  <2>11. ASSUME NEW t \in Tabsets, PressTabset(t) PROVE HighlightInv'
    <3>1. notes' = notes + 1 /\ active' = [active EXCEPT !.script = FALSE, !.tabset = t] /\ msgs' = msgs
      BY <2>11 DEF PressTabset
    <3>2. active' = [script |-> FALSE, shown |-> active.shown, tabset |-> t]
      BY <3>1 DEF HighlightInv
    <3>3. notes' \in Nat /\ notes' # 0
      BY <3>1 DEF HighlightInv
    <3> QED
      BY <3>1, <3>2, <3>3 DEF HighlightInv
  <2>12. ASSUME NEW x \in DragWidths, Drag(x) PROVE HighlightInv'
    BY <2>12, <2>0 DEF Drag
  <2>13. ASSUME NEW w \in Windows, Resize(w) PROVE HighlightInv'
    BY <2>13, <2>0 DEF Resize
  <2>14. CASE EndDrag \/ Sync \/ UnfoldFinish \/ StartTheme \/ ShowTheme
    BY <2>14, <2>0 DEF EndDrag, Sync, UnfoldFinish, StartTheme, ShowTheme
  <2>15. ASSUME NEW p \in Preferences, PreferTheme(p) PROVE HighlightInv'
    BY <2>15, <2>0 DEF PreferTheme
  <2>16. ASSUME NEW x \in Themes, LeetCodeTheme(x) PROVE HighlightInv'
    BY <2>16, <2>0 DEF LeetCodeTheme
  <2>17. CASE UNCHANGED vars
    BY <2>17, <2>0 DEF vars
  <2> QED
    BY <2>3, <2>4, <2>5, <2>6, <2>7, <2>8, <2>9, <2>10, <2>11, <2>12, <2>13, <2>14, <2>15, <2>16, <2>17 DEF Next
<1>3. HighlightInv => OneHighlighted
  BY DEF HighlightInv, OneHighlighted
<1> QED
  BY <1>1, <1>2, <1>3, PTL DEF Spec

----------------------------------------------------------------------------
(* The theme.                                                              *)

\* A preference is shown at once; without one, LeetCode's theme is shown unless a read or
\* the panel's own start is still to come, or that start came last.
ThemeInv ==
    /\ theme \in [pref : Preferences, lc : Themes, shown : Themes \cup {"light"}]
    /\ start \in {"pending", "early", "late"} /\ reads \in Seq({"sync", "auto"})
    /\ theme.pref # "auto" => theme.shown = theme.pref
    /\ theme.pref = "auto" /\ reads = <<>> /\ start = "early" => theme.shown = theme.lc

\* syncTheme, the observers and useThemeSync (contentScript.js:350): the last callback shows
\* the theme that holds by then.
THEOREM ThemeIsFollowed == Spec => []ThemeFollows
<1>1. Init => ThemeInv
  BY DEF Init, ThemeInv, Preferences
<1>2. ThemeInv /\ [Next]_vars => ThemeInv'
  <2> SUFFICES ASSUME ThemeInv, [Next]_vars PROVE ThemeInv'
    OBVIOUS
  <2>0. ASSUME UNCHANGED look PROVE ThemeInv'
    BY <2>0 DEF ThemeInv, look
  <2>1. CASE Reload
    BY <2>1 DEF Reload, ThemeInv
  <2>2. CASE StartTheme
    BY <2>2 DEF StartTheme, ThemeInv, Preferences
  <2>3. ASSUME NEW p \in Preferences, PreferTheme(p) PROVE ThemeInv'
    <3>1. /\ theme' = [theme EXCEPT !.pref = p, !.shown = IF p = "auto" THEN @ ELSE p]
          /\ reads' = Append(reads, "sync") /\ start' = start
      BY <2>3 DEF PreferTheme
    <3>2. reads' \in Seq({"sync", "auto"}) /\ reads' # <<>>
      BY <3>1 DEF ThemeInv
    <3> QED
      BY <3>1, <3>2 DEF ThemeInv, Preferences
  <2>4. ASSUME NEW x \in Themes, LeetCodeTheme(x) PROVE ThemeInv'
    <3>1. theme' = [theme EXCEPT !.lc = x] /\ reads' = Append(reads, "auto") /\ start' = start
      BY <2>4 DEF LeetCodeTheme
    <3>2. reads' \in Seq({"sync", "auto"}) /\ reads' # <<>>
      BY <3>1 DEF ThemeInv
    <3> QED
      BY <3>1, <3>2 DEF ThemeInv, Preferences
  <2>5. CASE ShowTheme
    <3>1. reads # <<>> /\ reads' = Tail(reads)
          /\ theme' = [theme EXCEPT !.shown = IF Head(reads) = "sync" \/ theme.pref = "auto"
                                                 THEN Resolved(theme) ELSE @]
          /\ start' = IF start = "late" THEN "early" ELSE start
      BY <2>5 DEF ShowTheme
    <3>2. reads' \in Seq({"sync", "auto"})
      BY <3>1 DEF ThemeInv
    <3> QED
      BY <3>1, <3>2 DEF ThemeInv, Preferences, Resolved
  <2>6. ASSUME NEW x \in DragWidths, Drag(x) PROVE ThemeInv'
    BY <2>6, <2>0 DEF Drag
  <2>7. ASSUME NEW w \in Windows, Resize(w) PROVE ThemeInv'
    BY <2>7, <2>0 DEF Resize
  <2>8. ASSUME NEW type \in HeaderOffers \cup SidebarOffers, Click(type) PROVE ThemeInv'
    BY <2>8, <2>0 DEF Click
  <2>9. ASSUME NEW t \in Tabsets, PressTabset(t) PROVE ThemeInv'
    BY <2>9, <2>0 DEF PressTabset
  <2>10. CASE EndDrag \/ Sync \/ Fold \/ Unfold \/ UnfoldFinish \/ Maximize
    BY <2>10, <2>0 DEF EndDrag, Sync, Fold, Unfold, UnfoldFinish, Maximize
  <2>11. CASE PressPanel \/ Activate \/ NotActive
    BY <2>11, <2>0 DEF PressPanel, Activate, NotActive
  <2>12. CASE UNCHANGED vars
    BY <2>12, <2>0 DEF vars
  <2> QED
    BY <2>1, <2>2, <2>3, <2>4, <2>5, <2>6, <2>7, <2>8, <2>9, <2>10, <2>11, <2>12 DEF Next
<1>3. ThemeInv => ThemeFollows
  BY DEF ThemeInv, ThemeFollows, Resolved
<1> QED
  BY <1>1, <1>2, <1>3, PTL DEF Spec

-----------------------------------------------------------------------------
(* The room in the panel.                                                   *)

Messages == [type : {"user-joined", "chat-message", "join-round", "round-start", "system-announcement",
                     "next-problem"}, room : Rooms, n : Nat, k : Nat]
Rounds == [n : Nat, st : {"created", "started", "ended"}]
Endings == [at : {"off", "call", "done", "timer"}, room : Rooms \cup {0}]
Socks == [st : {"closed", "opening", "joining", "open"}, room : Rooms \cup {0}]
Panels == [user : BOOLEAN, room : Rooms \cup {0}, started : BOOLEAN, ended : BOOLEAN, timed : BOOLEAN,
           event : Messages \cup {[type |-> "none"]}, chatTab : BOOLEAN, folded : BOOLEAN, unread : Nat,
           crossed : BOOLEAN]

PanelTyped ==
    /\ member \in Rooms \cup {0} /\ round \in [Rooms -> Rounds]
    /\ history \in [Rooms -> Seq(Messages)] /\ wire \in Seq(Messages)
    /\ panel \in Panels
    /\ flow.at \in {"join", "joined", "details", "parts"} => flow.room \in Rooms
    /\ flow.at \in {"joined", "parts"} => panel.room = flow.room
    /\ ending \in Endings /\ (ending.at = "call" => ending.room \in Rooms)
    /\ sock \in Socks /\ (sock.st # "closed" => sock.room \in Rooms)

\* Nobody joins a round before it starts.
JoinedStarted ==
    \A r \in Rooms : \A i \in DOMAIN history[r] :
      history[r][i].k = 1 =>
        \/ history[r][i].n < round[r].n
        \/ history[r][i].n = round[r].n /\ round[r].st # "created"

\* Without a room, while one is joined and while the session is restored there is no socket.
NoStraySocket ==
    /\ sock.st # "open" => wire = <<>>
    /\ flow.at \in Boot \cup {"join", "joined"} \/ (flow.at \in {"idle", "login", "leave"} /\ panel.room = 0) => sock = Closed

\* A round that is not shown yet is on the wire.
OnItsWay ==
    /\ Mounted /\ ~panel.crossed /\ sock = [st |-> "open", room |-> panel.room]
    /\ round[panel.room].st = "started" /\ Joined(panel.room)
    => panel.started \/ \E i \in DOMAIN wire : wire[i] = OwnJoin(panel.room)

NoticeInv == PanelTyped /\ JoinedStarted /\ NoStraySocket /\ OnItsWay /\ UnreadHidden

----------------------------------------------------------------------------
(* The parts of the invariant that a step leaves alone.                    *)

LEMMA NothingMoves ==
    NoticeInv /\ UNCHANGED <<member, round, history, panel, flow, ending, sock, wire>> => NoticeInv'
BY DEF NoticeInv, PanelTyped, JoinedStarted, NoStraySocket, OnItsWay, UnreadHidden, InView,
       Joined, OwnJoin, Mounted, Ready

LEMMA NoticeStutter == NoticeInv /\ UNCHANGED panelVars => NoticeInv'
BY NothingMoves DEF panelVars, server, page, chat

LEMMA NoticeQuiet ==
    ASSUME NoticeInv,
           \/ \E q \in queries : Query(q)
           \/ \E t \in Places \cup {Elsewhere} : Route(t)
           \/ Resume \/ Expire
    PROVE  NoticeInv'
BY NothingMoves DEF Query, Route, Resume, Expire, server, page, chat

LEMMA FreshIsPanel ==
    ASSUME NEW user \in BOOLEAN, NEW folded \in BOOLEAN
    PROVE  /\ Fresh(user, folded) \in Panels /\ Fresh(user, folded).room = 0
           /\ Fresh(user, folded).unread = 0
BY DEF Fresh, Panels

LEMMA NoticeLoad ==
    ASSUME NoticeInv, Load, UNCHANGED server
    PROVE  NoticeInv'
<1>1. /\ flow'.at = "user" /\ panel' = Fresh(FALSE, panel.folded) /\ ending' = NotEnding
      /\ sock' = Closed /\ wire' = <<>> /\ UNCHANGED <<member, round, history>>
  BY DEF Load, Flow, server
<1>2. panel' \in Panels /\ panel'.room = 0 /\ panel'.unread = 0
  BY <1>1, FreshIsPanel DEF NoticeInv, PanelTyped, Panels
<1>3. PanelTyped'
  <2>1. wire' \in Seq(Messages)
    BY <1>1
  <2>2. ending' \in Endings /\ ending'.at = "off"
    BY <1>1 DEF NotEnding, Endings
  <2>3. sock' \in Socks /\ sock'.st = "closed"
    BY <1>1 DEF Closed, Socks
  <2> QED
    BY <1>1, <1>2, <2>1, <2>2, <2>3 DEF NoticeInv, PanelTyped
<1>4. JoinedStarted'
  BY <1>1 DEF NoticeInv, JoinedStarted
<1>5. NoStraySocket' /\ OnItsWay' /\ UnreadHidden'
  BY <1>1, <1>2 DEF NoStraySocket, OnItsWay, UnreadHidden, Mounted
<1> QED
  BY <1>3, <1>4, <1>5 DEF NoticeInv

LEMMA NoticeReload ==
    ASSUME NoticeInv,
           \/ \E t \in moves : Move(t)
           \/ \E t \in Places \cup {Elsewhere} : Browse(t)
    PROVE  NoticeInv'
BY NoticeLoad DEF Move, Browse

----------------------------------------------------------------------------
(* What the servers do.                                                    *)

\* The wire's part of the invariant for the sock of a step.
WireFine(w, s) == w \in Seq(Messages) /\ (s.st # "open" => w = <<>>)

\* A message goes to the end of the wire of a socket in its room, or nowhere.
LEMMA Sent ==
    ASSUME NEW r \in Rooms, NEW m \in Messages, PanelTyped, NoStraySocket, Broadcast(r, <<m>>)
    PROVE  /\ WireFine(wire', sock)
           /\ \A x : (\E i \in DOMAIN wire : wire[i] = x) => \E i \in DOMAIN wire' : wire'[i] = x
           /\ sock.st = "open" /\ sock.room = r => \E i \in DOMAIN wire' : wire'[i] = m
<1>1. /\ wire \in Seq(Messages) /\ Len(wire) \in Nat /\ DOMAIN wire = 1 .. Len(wire)
      /\ sock.st # "open" => wire = <<>>
  BY DEF PanelTyped, NoStraySocket
<1>2. CASE sock.st = "open" /\ sock.room = r
  <2>1. /\ wire' \in Seq(Messages) /\ DOMAIN wire' = 1 .. (Len(wire) + 1) /\ wire'[Len(wire) + 1] = m
        /\ \A i \in DOMAIN wire : wire'[i] = wire[i]
    BY <1>1, <1>2 DEF Broadcast
  <2> QED
    BY <1>1, <1>2, <2>1 DEF WireFine
<1>3. CASE ~(sock.st = "open" /\ sock.room = r)
  <2>1. wire' = wire
    BY <1>3 DEF Broadcast
  <2> QED
    BY <1>1, <1>3, <2>1 DEF WireFine
<1> QED
  BY <1>2, <1>3

\* What is kept for the replay is only added to.
LEMMA Kept ==
    ASSUME NEW r \in Rooms, NEW m \in Messages, PanelTyped,
           history' = [history EXCEPT ![r] = Append(@, m)]
    PROVE  /\ history' \in [Rooms -> Seq(Messages)]
           /\ \A x \in Rooms \ {r} : history'[x] = history[x]
           /\ \A x \in Rooms : \A i \in DOMAIN history'[x] :
                \/ x = r /\ history'[x][i] = m
                \/ i \in DOMAIN history[x] /\ history'[x][i] = history[x][i]
<1>1. /\ history' \in [Rooms -> Seq(Messages)]
      /\ \A x \in Rooms \ {r} : history'[x] = history[x]
      /\ Len(history[r]) \in Nat /\ DOMAIN history[r] = 1 .. Len(history[r])
      /\ DOMAIN history'[r] = 1 .. (Len(history[r]) + 1) /\ history'[r][Len(history[r]) + 1] = m
      /\ \A i \in DOMAIN history[r] : history'[r][i] = history[r][i]
  BY DEF PanelTyped
<1>2. ASSUME NEW t \in Seq(Messages), NEW u, NEW i \in DOMAIN u,
             DOMAIN u = 1 .. (Len(t) + 1), u[Len(t) + 1] = m, \A j \in DOMAIN t : u[j] = t[j]
      PROVE  u[i] = m \/ (i \in DOMAIN t /\ u[i] = t[i])
  BY <1>2
<1>3. \A i \in DOMAIN history'[r] : history'[r][i] = m \/ (i \in DOMAIN history[r] /\ history'[r][i] = history[r][i])
  <2>1. history[r] \in Seq(Messages)
    BY DEF PanelTyped
  <2> QED
    BY <1>1, <1>2, <2>1
<1> QED
  BY <1>1, <1>3

\* A round that is not shown yet stays on the wire, or comes onto it.
LEMMA StillOnItsWay ==
    ASSUME PanelTyped, OnItsWay, UNCHANGED <<panel, flow, sock>>,
           \A x : (\E i \in DOMAIN wire : wire[i] = x) => \E i \in DOMAIN wire' : wire'[i] = x,
           \A r \in Rooms :
             round'[r].st = "started" /\ Joined(r)' =>
               \/ round'[r] = round[r] /\ Joined(r)
               \/ sock.st = "open" /\ sock.room = r => \E i \in DOMAIN wire' : wire'[i] = OwnJoin(r)'
    PROVE  OnItsWay'
<1>1. SUFFICES ASSUME Mounted, ~panel.crossed, sock = [st |-> "open", room |-> panel.room],
                      round'[panel.room].st = "started", Joined(panel.room)'
               PROVE  panel.started \/ \E i \in DOMAIN wire' : wire'[i] = OwnJoin(panel.room)'
  BY DEF OnItsWay, Mounted, Ready
<1>2. panel.room \in Rooms /\ sock.st = "open" /\ sock.room = panel.room
  BY <1>1 DEF PanelTyped, Panels, Mounted
<1>3. CASE round'[panel.room] = round[panel.room] /\ Joined(panel.room)
  <2>1. panel.started \/ \E i \in DOMAIN wire : wire[i] = OwnJoin(panel.room)
    BY <1>1, <1>3 DEF OnItsWay
  <2>2. OwnJoin(panel.room)' = OwnJoin(panel.room)
    BY <1>3 DEF OwnJoin
  <2> QED
    BY <2>1, <2>2
<1>4. CASE \E i \in DOMAIN wire' : wire'[i] = OwnJoin(panel.room)'
  BY <1>4
<1> QED
  BY <1>1, <1>2, <1>3, <1>4

\* A step of the servers, which the panel learns of from the wire only.
LEMMA ServerStep ==
    ASSUME NoticeInv, UNCHANGED <<member, panel, flow, sock>>,
           ending' \in Endings, ending'.at = "call" => ending'.room \in Rooms,
           round' \in [Rooms -> Rounds], history' \in [Rooms -> Seq(Messages)],
           WireFine(wire', sock), JoinedStarted', OnItsWay'
    PROVE  NoticeInv'
<1>1. PanelTyped'
  BY DEF NoticeInv, PanelTyped, WireFine
<1>2. NoStraySocket' /\ UnreadHidden'
  BY DEF NoticeInv, NoStraySocket, UnreadHidden, InView, WireFine
<1> QED
  BY <1>1, <1>2 DEF NoticeInv

\* What is announced reaches the room, now and in every later replay; unless it is the user's
\* join of the round in progress, it changes nothing about who has joined.
LEMMA Announced ==
    ASSUME NEW r \in Rooms, NEW m \in Messages, NoticeInv, Announce(r, m),
           UNCHANGED <<member, panel, flow, sock>>,
           ending' \in Endings, ending'.at = "call" => ending'.room \in Rooms,
           round' \in [Rooms -> Rounds],
           \A x \in Rooms : round'[x].n = round[x].n /\ (round[x].st # "created" => round'[x].st # "created"),
           \A x \in Rooms : round'[x].st = "started" => round'[x] = round[x],
           m.k = 1 => m = OwnJoin(r) /\ round[r].st = "started"
    PROVE  NoticeInv'
<1>1. PanelTyped /\ JoinedStarted /\ NoStraySocket /\ OnItsWay
  BY DEF NoticeInv
<1>2. /\ history' \in [Rooms -> Seq(Messages)]
      /\ \A x \in Rooms \ {r} : history'[x] = history[x]
      /\ \A x \in Rooms : \A i \in DOMAIN history'[x] :
           \/ x = r /\ history'[x][i] = m
           \/ i \in DOMAIN history[x] /\ history'[x][i] = history[x][i]
  <2>1. history' = [history EXCEPT ![r] = Append(@, m)]
    BY DEF Announce
  <2> QED
    BY <1>1, <2>1, Kept
<1>3. /\ WireFine(wire', sock)
      /\ \A x : (\E i \in DOMAIN wire : wire[i] = x) => \E i \in DOMAIN wire' : wire'[i] = x
      /\ sock.st = "open" /\ sock.room = r => \E i \in DOMAIN wire' : wire'[i] = m
  BY <1>1, Sent DEF Announce
<1>4. \A x \in Rooms : OwnJoin(x)' = OwnJoin(x) /\ OwnJoin(x).n = round[x].n /\ OwnJoin(x).k = 1
  BY DEF OwnJoin, Message
<1>5. JoinedStarted'
  <2>1. SUFFICES ASSUME NEW x \in Rooms, NEW i \in DOMAIN history'[x], history'[x][i].k = 1
                 PROVE  \/ history'[x][i].n < round'[x].n
                        \/ history'[x][i].n = round'[x].n /\ round'[x].st # "created"
    BY DEF JoinedStarted
  <2>2. CASE x = r /\ history'[x][i] = m
    BY <1>4, <2>1, <2>2
  <2>3. CASE i \in DOMAIN history[x] /\ history'[x][i] = history[x][i]
    BY <1>1, <2>1, <2>3 DEF JoinedStarted
  <2> QED
    BY <1>2, <2>2, <2>3
<1>6. OnItsWay'
  <2>1. ASSUME NEW x \in Rooms, round'[x].st = "started", Joined(x)', ~Joined(x) PROVE x = r /\ m = OwnJoin(x)'
    <3>1. PICK i \in DOMAIN history'[x] : history'[x][i] = OwnJoin(x)
      BY <1>4, <2>1 DEF Joined
    <3> QED
      BY <1>2, <1>4, <2>1, <3>1 DEF Joined
  <2> QED
    BY <1>1, <1>3, <2>1, StillOnItsWay
<1> QED
  BY <1>2, <1>3, <1>5, <1>6, ServerStep

LEMMA NoticeNewRound ==
    ASSUME NoticeInv, NEW r \in Rooms, NewRound(r)
    PROVE  NoticeInv'
<1>1. /\ round' = [round EXCEPT ![r] = [n |-> round[r].n + 1, st |-> "created"]]
      /\ UNCHANGED <<member, history, flow, panel, ending, sock, wire>>
  BY DEF NewRound, page, chat
<1>2. PanelTyped /\ JoinedStarted /\ NoStraySocket /\ OnItsWay
  BY DEF NoticeInv
<1>3. /\ \A x \in Rooms : round[x] \in Rounds /\ (x # r => round'[x] = round[x])
      /\ round'[r] = [n |-> round[r].n + 1, st |-> "created"] /\ round' \in [Rooms -> Rounds]
  BY <1>1, <1>2 DEF PanelTyped, Rounds
<1>4. WireFine(wire', sock)
  BY <1>1, <1>2 DEF WireFine, PanelTyped, NoStraySocket
<1>5. JoinedStarted'
  <2>1. ASSUME NEW i \in DOMAIN history[r], history[r][i].k = 1 PROVE history[r][i].n < round[r].n + 1
    <3>1. history[r] \in Seq(Messages) /\ round[r].n \in Nat
      BY <1>2, <1>3 DEF PanelTyped, Rounds
    <3>2. history[r][i] \in Messages
      BY <2>1, <3>1
    <3>3. history[r][i].n \in Nat
      BY <3>2 DEF Messages
    <3> QED
      BY <1>2, <2>1, <3>1, <3>3 DEF JoinedStarted
  <2> QED
    BY <1>1, <1>2, <1>3, <2>1 DEF JoinedStarted
<1>6. OnItsWay'
  <2>1. \A x \in Rooms : round'[x].st = "started" /\ Joined(x)' => round'[x] = round[x] /\ Joined(x)
    BY <1>1, <1>3 DEF Joined, OwnJoin
  <2> QED
    BY <1>1, <1>2, <2>1, StillOnItsWay
<1> QED
  BY <1>1, <1>2, <1>3, <1>4, <1>5, <1>6, ServerStep DEF PanelTyped

LEMMA NoticeStartRound ==
    ASSUME NoticeInv, NEW r \in Rooms, StartRound(r)
    PROVE  NoticeInv'
<1>2. PanelTyped /\ JoinedStarted /\ NoStraySocket /\ OnItsWay
  BY DEF NoticeInv
<1> DEFINE m == Message("round-start", r, round[r].n, 0)
<1>0. m \in Messages
  BY <1>2 DEF PanelTyped, Rounds, Message, Messages
<1>1. /\ round[r].st = "created" /\ round' = [round EXCEPT ![r].st = "started"] /\ Broadcast(r, <<m>>)
      /\ UNCHANGED <<member, history, flow, panel, ending, sock>>
  BY DEF StartRound, page
<1> HIDE DEF m
<1>3. /\ \A x \in Rooms : round[x] \in Rounds /\ round'[x].n = round[x].n /\ (x # r => round'[x] = round[x])
      /\ round'[r].st = "started" /\ round' \in [Rooms -> Rounds]
  BY <1>1, <1>2 DEF PanelTyped, Rounds
<1>4. /\ WireFine(wire', sock)
      /\ \A x : (\E i \in DOMAIN wire : wire[i] = x) => \E i \in DOMAIN wire' : wire'[i] = x
  BY <1>0, <1>1, <1>2, Sent
<1>5. JoinedStarted'
  BY <1>1, <1>2, <1>3 DEF JoinedStarted
<1>6. OnItsWay'
  <2>1. ~Joined(r)'
    <3>1. \A i \in DOMAIN history[r] : history[r][i] # OwnJoin(r)'
      <4>1. OwnJoin(r)'.k = 1 /\ OwnJoin(r)'.n = round[r].n
        BY <1>3 DEF OwnJoin, Message
      <4>2. round[r].n \in Nat
        BY <1>3 DEF Rounds
      <4> QED
        BY <1>1, <1>2, <4>1, <4>2 DEF JoinedStarted
    <3> QED
      BY <1>1, <3>1 DEF Joined
  <2>2. \A x \in Rooms : round'[x].st = "started" /\ Joined(x)' => round'[x] = round[x] /\ Joined(x)
    BY <1>1, <1>3, <2>1 DEF Joined, OwnJoin
  <2> QED
    BY <1>1, <1>2, <1>4, <2>2, StillOnItsWay
<1> QED
  BY <1>1, <1>2, <1>3, <1>4, <1>5, <1>6, ServerStep DEF PanelTyped

\* However a round ends, what is announced is only a line of the chat.
LEMMA Ended ==
    ASSUME NoticeInv, NEW r \in Rooms, End(r), UNCHANGED <<member, panel, flow, sock>>,
           ending' \in Endings, ending'.at = "call" => ending'.room \in Rooms
    PROVE  NoticeInv'
<1> DEFINE m == Message("system-announcement", r, 0, 0)
<1>1. m \in Messages /\ m.k = 0
  BY DEF Message, Messages
<1>2. /\ round \in [Rooms -> Rounds] /\ round[r].st = "started" /\ round' = [round EXCEPT ![r].st = "ended"]
      /\ Announce(r, m)
  BY DEF NoticeInv, PanelTyped, End
<1> HIDE DEF m
<1>3. /\ round' \in [Rooms -> Rounds]
      /\ \A x \in Rooms : round'[x].n = round[x].n /\ (x # r => round'[x] = round[x])
      /\ round'[r].st = "ended"
  BY <1>2 DEF Rounds
<1>4. /\ \A x \in Rooms : round'[x].n = round[x].n /\ (round[x].st # "created" => round'[x].st # "created")
      /\ \A x \in Rooms : round'[x].st = "started" => round'[x] = round[x]
  BY <1>3
<1> QED
  BY <1>1, <1>2, <1>3, <1>4, Announced

LEMMA NoticeEnd ==
    ASSUME NoticeInv, EndHandled \/ \E r \in Rooms : EndRound(r)
    PROVE  NoticeInv'
<1>1. ending \in Endings /\ (ending.at = "call" => ending.room \in Rooms)
  BY DEF NoticeInv, PanelTyped
<1>2. UNCHANGED <<member, panel, flow, sock>>
  BY DEF EndHandled, EndRound, page
<1>3. CASE \E r \in Rooms : EndRound(r)
  <2>1. ending' = ending /\ \E r \in Rooms : End(r)
    BY <1>3 DEF EndRound, page
  <2> QED
    BY <1>1, <1>2, <2>1, Ended
<1>4. CASE EndHandled
  <2>1. /\ ending.room \in Rooms /\ ending' \in Endings /\ ending'.at = "done"
        /\ End(ending.room) \/ UNCHANGED <<round, history, wire>>
    BY <1>1, <1>4 DEF EndHandled, Endings
  <2>2. CASE End(ending.room)
    BY <1>2, <2>1, <2>2, Ended
  <2>3. CASE UNCHANGED <<round, history, wire>>
    <3>1. PanelTyped'
      BY <1>2, <2>1, <2>3 DEF NoticeInv, PanelTyped
    <3>2. JoinedStarted' /\ NoStraySocket' /\ UnreadHidden'
      BY <1>2, <2>3 DEF NoticeInv, JoinedStarted, NoStraySocket, UnreadHidden, InView
    <3>3. OnItsWay'
      BY <1>2, <2>3 DEF NoticeInv, OnItsWay, Mounted, Ready, Joined, OwnJoin
    <3> QED
      BY <3>1, <3>2, <3>3 DEF NoticeInv
  <2> QED
    BY <2>1, <2>2, <2>3
<1> QED
  BY <1>3, <1>4

LEMMA NoticeNextProblem ==
    ASSUME NoticeInv, NEW r \in Rooms, NEW k \in Problems, NextProblem(r, k)
    PROVE  NoticeInv'
<1>2. PanelTyped /\ JoinedStarted /\ NoStraySocket /\ OnItsWay
  BY DEF NoticeInv
<1> DEFINE m == Message("next-problem", r, round[r].n, k)
<1>0. m \in Messages
  BY <1>2, PanelProblemsAssumption DEF PanelTyped, Rounds, Message, Messages
<1>1. Broadcast(r, <<m>>) /\ UNCHANGED <<member, round, history, flow, panel, ending, sock>>
  BY DEF NextProblem, page
<1> HIDE DEF m
<1>4. /\ WireFine(wire', sock)
      /\ \A x : (\E i \in DOMAIN wire : wire[i] = x) => \E i \in DOMAIN wire' : wire'[i] = x
  BY <1>0, <1>1, <1>2, Sent
<1>5. JoinedStarted'
  BY <1>1, <1>2 DEF JoinedStarted
<1>6. OnItsWay'
  <2>1. \A x \in Rooms : round'[x].st = "started" /\ Joined(x)' => round'[x] = round[x] /\ Joined(x)
    BY <1>1 DEF Joined, OwnJoin
  <2> QED
    BY <1>1, <1>2, <1>4, <2>1, StillOnItsWay
<1> QED
  BY <1>1, <1>2, <1>4, <1>5, <1>6, ServerStep DEF PanelTyped

\* The user's own join-round, kept and sent: whoever is told nothing of it hears it in the replay.
LEMMA NoticeJoinRound ==
    ASSUME NoticeInv, NEW r \in Rooms, JoinRound(r)
    PROVE  NoticeInv'
<1>1. /\ round[r].st = "started" /\ Announce(r, OwnJoin(r))
      /\ UNCHANGED <<member, round, flow, panel, ending, sock>>
  BY DEF JoinRound, page
<1>2. PanelTyped
  BY DEF NoticeInv
<1>3. OwnJoin(r) \in Messages
  BY <1>2 DEF PanelTyped, Rounds, OwnJoin, Message, Messages
<1> QED
  BY <1>1, <1>2, <1>3, Announced DEF PanelTyped

LEMMA NoticeOthers ==
    ASSUME NoticeInv, NEW r \in Rooms, NEW type \in {"chat-message", "user-joined", "join-round"}, Others(r, type)
    PROVE  NoticeInv'
<1> DEFINE m == Message(type, r, 0, 0)
<1>1. m \in Messages /\ m.k = 0
  BY DEF Message, Messages
<1>2. Announce(r, m) /\ UNCHANGED <<member, round, flow, panel, ending, sock>>
  BY DEF Others, page
<1> HIDE DEF m
<1> QED
  BY <1>1, <1>2, Announced DEF NoticeInv, PanelTyped

----------------------------------------------------------------------------
(* The chat's socket.                                                      *)

LEMMA NoticeSocket ==
    ASSUME NoticeInv, SocketOpen \/ SocketClose
    PROVE  NoticeInv'
<1>1. UNCHANGED <<member, round, history, panel, flow, ending>>
  BY DEF SocketOpen, SocketClose, server, page
<1>2. PanelTyped /\ JoinedStarted /\ NoStraySocket /\ UnreadHidden
  BY DEF NoticeInv
<1>3. /\ wire' = <<>> /\ sock'.st # "open" /\ (sock'.st # "closed" => sock'.room \in Rooms)
      /\ sock' \in Socks
      /\ sock = Closed => sock' = Closed
  <2>1. CASE SocketOpen
    <3>1. sock.st = "opening" /\ sock' = [sock EXCEPT !.st = "joining"] /\ wire' = wire
      BY <2>1 DEF SocketOpen
    <3>2. wire = <<>>
      BY <1>2, <3>1 DEF NoStraySocket
    <3>3. sock.room \in Rooms /\ sock \in Socks
      BY <1>2, <3>1 DEF PanelTyped
    <3> QED
      BY <3>1, <3>2, <3>3 DEF Closed, Socks
  <2>2. CASE SocketClose
    BY <1>2, <2>2 DEF SocketClose, Closed, Socks
  <2> QED
    BY <2>1, <2>2
<1>4. PanelTyped'
  <2>1. wire' \in Seq(Messages)
    BY <1>3
  <2> QED
    BY <1>1, <1>2, <1>3, <2>1 DEF PanelTyped
<1>5. JoinedStarted'
  BY <1>1, <1>2 DEF JoinedStarted
<1>6. NoStraySocket' /\ UnreadHidden'
  BY <1>1, <1>2, <1>3 DEF NoStraySocket, UnreadHidden, InView
<1>7. OnItsWay'
  BY <1>3 DEF OnItsWay
<1> QED
  BY <1>4, <1>5, <1>6, <1>7 DEF NoticeInv

\* The replay tells of a round the user has joined (useChatSocket.ts onopen, join-room).
LEMMA NoticeSubscribe ==
    ASSUME NoticeInv, Subscribe
    PROVE  NoticeInv'
<1>1. /\ sock.st = "joining" /\ sock' = [sock EXCEPT !.st = "open"] /\ wire' = history[sock.room]
      /\ UNCHANGED <<member, round, history, panel, flow, ending>>
  BY DEF Subscribe, server, page
<1>2. PanelTyped /\ JoinedStarted /\ NoStraySocket /\ UnreadHidden
  BY DEF NoticeInv
<1>3. /\ sock.room \in Rooms /\ sock' \in Socks
      /\ sock'.st = "open" /\ sock'.room = sock.room /\ sock # Closed /\ wire' \in Seq(Messages)
  BY <1>1, <1>2 DEF PanelTyped, Closed, Socks
<1>4. PanelTyped'
  BY <1>1, <1>2, <1>3 DEF PanelTyped
<1>5. JoinedStarted'
  BY <1>1, <1>2 DEF JoinedStarted
<1>6. NoStraySocket' /\ UnreadHidden'
  BY <1>1, <1>2, <1>3 DEF NoStraySocket, UnreadHidden, InView
<1>7. OnItsWay'
  <2>1. sock' = [st |-> "open", room |-> panel.room] => sock.room = panel.room
    BY <1>3
  <2> QED
    BY <1>1, <2>1 DEF OnItsWay, Joined, OwnJoin
<1> QED
  BY <1>4, <1>5, <1>6, <1>7 DEF NoticeInv

\* What is left of the wire when its first message is taken.
LEMMA Taken ==
    ASSUME PanelTyped, wire # <<>>
    PROVE  /\ Head(wire) \in Messages /\ Tail(wire) \in Seq(Messages)
           /\ \A j \in DOMAIN wire : wire[j] = Head(wire) \/ \E i \in DOMAIN Tail(wire) : Tail(wire)[i] = wire[j]
<1>1. /\ wire \in Seq(Messages) /\ Len(wire) \in Nat /\ Len(wire) > 0 /\ DOMAIN wire = 1 .. Len(wire)
      /\ Head(wire) = wire[1] /\ Tail(wire) \in Seq(Messages)
      /\ DOMAIN Tail(wire) = 1 .. (Len(wire) - 1)
      /\ \A i \in 1 .. (Len(wire) - 1) : Tail(wire)[i] = wire[i + 1]
  BY DEF PanelTyped
<1>2. 1 \in DOMAIN wire
  BY <1>1
<1>3. Head(wire) \in Messages
  BY <1>1, <1>2
<1>5. ASSUME NEW j \in DOMAIN wire, j # 1 PROVE \E i \in DOMAIN Tail(wire) : Tail(wire)[i] = wire[j]
  <2>1. j - 1 \in DOMAIN Tail(wire) /\ (j - 1) + 1 = j
    BY <1>1, <1>5
  <2> QED
    BY <1>1, <2>1
<1> QED
  BY <1>1, <1>3, <1>5

\* A message is handled: the panel stays in its room, still shows the round if it did, and if
\* it was told of the user's joining it does.
LEMMA Handled ==
    ASSUME NoticeInv, wire # <<>>, wire' = Tail(wire),
           UNCHANGED <<member, round, history, flow, ending, sock>>,
           panel' \in Panels, panel'.room = panel.room, panel'.crossed = panel.crossed, UnreadHidden',
           panel.started => panel'.started,
           Mounted /\ Head(wire) = OwnJoin(panel.room) => panel'.started
    PROVE  NoticeInv'
<1>1. PanelTyped /\ JoinedStarted /\ NoStraySocket /\ OnItsWay
  BY DEF NoticeInv
<1>2. /\ Tail(wire) \in Seq(Messages)
      /\ \A j \in DOMAIN wire : wire[j] = Head(wire) \/ \E i \in DOMAIN Tail(wire) : Tail(wire)[i] = wire[j]
  BY <1>1, Taken
<1>3. PanelTyped'
  BY <1>1, <1>2 DEF PanelTyped
<1>4. JoinedStarted' /\ NoStraySocket'
  BY <1>1 DEF JoinedStarted, NoStraySocket
<1>5. OnItsWay'
  <2>1. SUFFICES ASSUME Mounted, ~panel.crossed, sock = [st |-> "open", room |-> panel.room],
                        round[panel.room].st = "started", Joined(panel.room), ~panel'.started
                 PROVE  \E i \in DOMAIN wire' : wire'[i] = OwnJoin(panel.room)
    BY DEF OnItsWay, Mounted, Ready, Joined, OwnJoin
  <2>2. PICK j \in DOMAIN wire : wire[j] = OwnJoin(panel.room)
    BY <1>1, <2>1 DEF OnItsWay
  <2> QED
    BY <1>2, <2>1, <2>2
<1> QED
  BY <1>3, <1>4, <1>5 DEF NoticeInv

----------------------------------------------------------------------------
(* The panel and the events of the round.                                  *)

\* The chat comes into view, or an event is shown: what that does to the panel's record.
LEMMA ClearedPanel ==
    ASSUME NEW p \in Panels
    PROVE  /\ ClearUnread(p) \in Panels
           /\ ClearUnread(p).room = p.room /\ ClearUnread(p).crossed = p.crossed /\ ClearUnread(p).started = p.started
           /\ InView(ClearUnread(p)) => ClearUnread(p).unread = 0
BY DEF ClearUnread, Panels, InView

\* What an event of the round does to the panel (the effect of lastGameEvent).
LEMMA GameEventPanel ==
    ASSUME NEW p \in Panels, NEW e \in Messages, InView(p) => p.unread = 0, GameEvent(p, e)
    PROVE  /\ panel' \in Panels /\ panel'.room = p.room /\ panel'.crossed = p.crossed
           /\ InView(panel') => panel'.unread = 0
           /\ p.started => panel'.started
           /\ e.type = "join-round" /\ e.k = 1 => panel'.started
<1>1. \/ panel' = [p EXCEPT !.event = e, !.started = TRUE, !.ended = FALSE, !.timed = TRUE]
      \/ panel' = [p EXCEPT !.event = e] /\ ~(e.type = "join-round" /\ e.k = 1)
  BY DEF GameEvent, RoundData
<1> QED
  BY <1>1 DEF Panels, InView

LEMMA NoticeOnGameEvent ==
    ASSUME NoticeInv, OnGameEvent
    PROVE  NoticeInv'
<1>1. /\ wire # <<>> /\ wire' = Tail(wire)
      /\ UNCHANGED <<member, round, history, flow, ending, sock>>
  BY DEF OnGameEvent, server
<1>2. panel \in Panels /\ (InView(panel) => panel.unread = 0) /\ Head(wire) \in Messages
  BY <1>1, Taken DEF NoticeInv, PanelTyped, UnreadHidden
<1>3. CASE Mounted
  <2>1. GameEvent(panel, Head(wire))
    BY <1>3 DEF OnGameEvent
  <2>2. /\ panel' \in Panels /\ panel'.room = panel.room /\ panel'.crossed = panel.crossed
        /\ InView(panel') => panel'.unread = 0
        /\ panel.started => panel'.started
        /\ Head(wire).type = "join-round" /\ Head(wire).k = 1 => panel'.started
    BY <1>2, <2>1, GameEventPanel
  <2>3. OwnJoin(panel.room).type = "join-round" /\ OwnJoin(panel.room).k = 1
    BY DEF OwnJoin, Message
  <2>4. UnreadHidden'
    BY <2>2 DEF UnreadHidden, InView
  <2> QED
    BY <1>1, <2>2, <2>3, <2>4, Handled
<1>4. CASE ~Mounted
  <2>1. panel' = [panel EXCEPT !.event = Head(wire)]
    BY <1>4 DEF OnGameEvent
  <2>2. /\ panel' \in Panels /\ panel'.room = panel.room /\ panel'.crossed = panel.crossed
        /\ panel'.started = panel.started /\ UnreadHidden'
    BY <1>2, <2>1 DEF Panels, UnreadHidden, InView
  <2> QED
    BY <1>1, <1>4, <2>2, Handled
<1> QED
  BY <1>3, <1>4

LEMMA NoticeOnChat ==
    ASSUME NoticeInv, OnChat \/ OnUserJoined \/ OnAnnouncement
    PROVE  NoticeInv'
<1>1. /\ wire # <<>> /\ wire' = Tail(wire)
      /\ Head(wire).type \in {"chat-message", "user-joined", "system-announcement"}
      /\ UNCHANGED <<member, round, history, flow, ending, sock>>
  BY DEF OnChat, OnUserJoined, OnAnnouncement, server, page
<1>2. panel \in Panels /\ UnreadHidden
  BY DEF NoticeInv, PanelTyped
<1>3. /\ panel' \in Panels /\ panel'.room = panel.room /\ panel'.crossed = panel.crossed
      /\ panel'.started = panel.started /\ UnreadHidden'
  <2>1. CASE OnChat
    <3>1. panel' = [panel EXCEPT !.unread = IF suppress \/ InView(panel) THEN @ ELSE @ + 1]
      BY <2>1 DEF OnChat
    <3> QED
      BY <1>2, <3>1 DEF Panels, UnreadHidden, InView
  <2>2. CASE OnUserJoined \/ OnAnnouncement
    <3>1. panel' = panel
      BY <2>2 DEF OnUserJoined, OnAnnouncement, page
    <3> QED
      BY <1>2, <3>1 DEF UnreadHidden, InView
  <2> QED
    BY <2>1, <2>2
<1>4. OwnJoin(panel.room).type = "join-round"
  BY DEF OwnJoin, Message
<1> QED
  BY <1>1, <1>3, <1>4, Handled

----------------------------------------------------------------------------
(* What the user does with the panel, and handleEndRound.                  *)

\* The user folds the panel, chooses a tab or asks for something: the panel stays in its room.
LEMMA InRoomStep ==
    ASSUME NoticeInv, UNCHANGED <<member, round, history, sock, wire>>,
           panel' \in Panels, panel'.room = panel.room, panel'.crossed = panel.crossed,
           panel'.started = panel.started, UnreadHidden',
           flow' = flow \/ (flow = Idle /\ flow'.at \in {"leave", "login", "logout"}),
           flow'.at = "leave" /\ flow' # flow => panel.room # 0,
           ending' \in Endings,
           ending'.at = "call" => ending'.room \in Rooms
    PROVE  NoticeInv'
<1>1. PanelTyped /\ JoinedStarted /\ NoStraySocket /\ OnItsWay
  BY DEF NoticeInv
<1>2. PanelTyped'
  BY <1>1 DEF PanelTyped
<1>3. JoinedStarted'
  BY <1>1 DEF JoinedStarted
<1>4. Mounted' => Mounted
  BY DEF Mounted, Ready, Idle, Flow, Boot
<1>5. OnItsWay'
  BY <1>1, <1>4 DEF OnItsWay, Joined, OwnJoin
<1>6. NoStraySocket'
  BY <1>1 DEF NoStraySocket, Idle, Flow, Boot
<1> QED
  BY <1>2, <1>3, <1>5, <1>6 DEF NoticeInv

LEMMA NoticeChoose ==
    ASSUME NoticeInv, ChooseTab \/ SelectTabAndUnfold \/ FoldOrUnfold
    PROVE  NoticeInv'
<1>1. panel \in Panels /\ UNCHANGED <<member, round, history, sock, wire, flow, ending>>
  BY DEF NoticeInv, PanelTyped, ChooseTab, SelectTabAndUnfold, FoldOrUnfold, server, chat
<1>2. \E p \in Panels :
        p.room = panel.room /\ p.crossed = panel.crossed /\ p.started = panel.started /\ panel' = ClearUnread(p)
  <2>1. CASE ChooseTab
    <3> DEFINE p == [panel EXCEPT !.chatTab = ~@]
    <3>1. p \in Panels /\ p.room = panel.room /\ p.crossed = panel.crossed /\ p.started = panel.started
      BY <1>1 DEF Panels
    <3> QED
      BY <2>1, <3>1 DEF ChooseTab
  <2>2. CASE SelectTabAndUnfold
    <3>1. PICK c \in BOOLEAN : panel' = ClearUnread([panel EXCEPT !.chatTab = c])
      BY <2>2 DEF SelectTabAndUnfold
    <3> DEFINE p == [panel EXCEPT !.chatTab = c]
    <3>2. p \in Panels /\ p.room = panel.room /\ p.crossed = panel.crossed /\ p.started = panel.started
      BY <1>1 DEF Panels
    <3> QED
      BY <3>1, <3>2
  <2>3. CASE FoldOrUnfold
    <3> DEFINE p == [panel EXCEPT !.folded = ~@]
    <3>1. p \in Panels /\ p.room = panel.room /\ p.crossed = panel.crossed /\ p.started = panel.started
      BY <1>1 DEF Panels
    <3> QED
      BY <2>3, <3>1 DEF FoldOrUnfold
  <2> QED
    BY <2>1, <2>2, <2>3
<1>3. /\ panel' \in Panels /\ panel'.room = panel.room /\ panel'.crossed = panel.crossed
      /\ panel'.started = panel.started /\ (InView(panel') => panel'.unread = 0)
  BY <1>2, ClearedPanel
<1>4. UnreadHidden'
  BY <1>3 DEF UnreadHidden, InView
<1>5. /\ ending' \in Endings
      /\ ending'.at = "call" => ending'.room \in Rooms
      /\ flow'.at = "leave" /\ flow' # flow => panel.room # 0
  BY <1>1 DEF NoticeInv, PanelTyped
<1> QED
  BY <1>1, <1>3, <1>4, <1>5, InRoomStep

LEMMA NoticeAsk ==
    ASSUME NoticeInv, LeaveClick \/ LogoutClick \/ LoginClick \/ EndClick \/ EndTimer
    PROVE  NoticeInv'
<1>1. UNCHANGED <<member, round, history, sock, wire>>
  BY DEF LeaveClick, LogoutClick, LoginClick, EndClick, EndTimer, server, chat
<1>2. /\ panel' \in Panels /\ panel'.room = panel.room /\ panel'.crossed = panel.crossed
      /\ panel'.started = panel.started /\ UnreadHidden'
  <2>1. panel \in Panels /\ UnreadHidden
    BY DEF NoticeInv, PanelTyped
  <2>2. panel' = panel \/ panel' = [panel EXCEPT !.timed = FALSE]
    BY DEF LeaveClick, LogoutClick, LoginClick, EndClick, EndTimer
  <2> QED
    BY <2>1, <2>2 DEF Panels, UnreadHidden, InView
<1>3. /\ flow' = flow \/ (flow = Idle /\ flow'.at \in {"leave", "login", "logout"})
      /\ flow'.at = "leave" /\ flow' # flow => panel.room # 0
  <2>1. CASE EndClick \/ EndTimer
    BY <2>1 DEF EndClick, EndTimer
  <2>2. CASE LeaveClick
    BY <2>2 DEF LeaveClick, Flow, Mounted
  <2>3. CASE LogoutClick \/ LoginClick
    BY <2>3 DEF LogoutClick, LoginClick, Flow
  <2> QED
    BY <2>1, <2>2, <2>3
<1>4. /\ ending' \in Endings
      /\ ending'.at = "call" => ending'.room \in Rooms
  <2>1. CASE EndClick
    BY <2>1 DEF EndClick, NoticeInv, PanelTyped, Panels, Mounted, Endings
  <2>2. CASE EndTimer
    BY <2>2 DEF EndTimer, NotEnding, Endings
  <2>3. CASE LeaveClick \/ LogoutClick \/ LoginClick
    BY <2>3 DEF LeaveClick, LogoutClick, LoginClick, NoticeInv, PanelTyped
  <2> QED
    BY <2>1, <2>2, <2>3
<1> QED
  BY <1>1, <1>2, <1>3, <1>4, InRoomStep

\* The answer to handleEndRound hides no round, unless it crosses over.
LEMMA NoticeEndAnswer ==
    ASSUME NoticeInv, EndAnswer
    PROVE  NoticeInv'
<1>1. /\ UNCHANGED <<member, round, history, flow, sock, wire>>
      /\ \/ /\ panel' = [panel EXCEPT !.started = FALSE, !.ended = TRUE,
                             !.crossed = @ \/ (panel.room # 0 /\ round[panel.room].st = "started")]
            /\ ending' = [ending EXCEPT !.at = "timer"]
         \/ ending' = NotEnding /\ UNCHANGED panel
  BY DEF EndAnswer, server, chat
<1>2. PanelTyped /\ JoinedStarted /\ NoStraySocket /\ OnItsWay /\ UnreadHidden /\ panel \in Panels
  BY DEF NoticeInv, PanelTyped
<1>3. ending' \in Endings /\ ending'.at # "call"
  BY <1>1, <1>2 DEF PanelTyped, NotEnding, Endings
<1>4. CASE UNCHANGED panel
  <2>1. UnreadHidden'
    BY <1>2, <1>4 DEF UnreadHidden, InView
  <2> QED
    BY <1>1, <1>2, <1>3, <1>4, <2>1, InRoomStep
<1>5. CASE panel' = [panel EXCEPT !.started = FALSE, !.ended = TRUE,
                       !.crossed = @ \/ (panel.room # 0 /\ round[panel.room].st = "started")]
  <2>1. /\ panel' \in Panels /\ panel'.room = panel.room /\ UnreadHidden'
        /\ panel.room # 0 /\ round[panel.room].st = "started" => panel'.crossed
    BY <1>2, <1>5 DEF Panels, UnreadHidden, InView
  <2>2. PanelTyped'
    BY <1>1, <1>2, <1>3, <2>1 DEF PanelTyped
  <2>3. JoinedStarted' /\ NoStraySocket'
    BY <1>1, <1>2, <2>1 DEF JoinedStarted, NoStraySocket
  <2>4. OnItsWay'
    BY <1>1, <2>1 DEF OnItsWay, Mounted
  <2> QED
    BY <2>1, <2>2, <2>3, <2>4 DEF NoticeInv
<1> QED
  BY <1>1, <1>4, <1>5

----------------------------------------------------------------------------
(* The session and the room.                                               *)

\* What a step that leaves no open socket has to keep.
LEMMA Unconnected ==
    ASSUME NoticeInv, UNCHANGED <<round, ending>>, member' \in Rooms \cup {0}, panel' \in Panels, UnreadHidden',
           history' \in [Rooms -> Seq(Messages)], JoinedStarted',
           flow'.at \in {"join", "joined", "details", "parts"} => flow'.room \in Rooms,
           flow'.at \in {"joined", "parts"} => panel'.room = flow'.room,
           wire' = <<>>,
           \/ sock' = Closed
           \/ sock' = [st |-> "opening", room |-> panel'.room] /\ flow' = Idle /\ panel'.room \in Rooms
    PROVE  NoticeInv'
<1>1. /\ sock' \in Socks
      /\ sock'.st # "open" /\ (sock'.st # "closed" => sock'.room \in Rooms)
  BY DEF Closed, Socks
<1>2. wire' \in Seq(Messages)
  OBVIOUS
<1>3. PanelTyped'
  BY <1>1, <1>2 DEF NoticeInv, PanelTyped
<1>5. NoStraySocket'
  BY PanelRoomsAssumption DEF NoStraySocket, Idle, Flow, Boot
<1>6. OnItsWay'
  BY <1>1 DEF OnItsWay
<1> QED
  BY <1>3, <1>5, <1>6 DEF NoticeInv

\* The same when the servers keep what they have.
LEMMA UnconnectedPanel ==
    ASSUME NoticeInv, UNCHANGED <<round, history, ending>>, member' \in Rooms \cup {0},
           panel' \in Panels, UnreadHidden',
           flow'.at \in {"join", "joined", "details", "parts"} => flow'.room \in Rooms,
           flow'.at \in {"joined", "parts"} => panel'.room = flow'.room,
           wire' = <<>>,
           \/ sock' = Closed
           \/ sock' = [st |-> "opening", room |-> panel'.room] /\ flow' = Idle /\ panel'.room \in Rooms
    PROVE  NoticeInv'
<1>1. /\ history' \in [Rooms -> Seq(Messages)] /\ JoinedStarted'
  BY DEF NoticeInv, PanelTyped, JoinedStarted
<1> QED
  BY <1>1, Unconnected

\* The session is restored without a socket, up to the page of the room (useSessionInit.ts).
LEMMA NoticeRestore ==
    ASSUME NoticeInv, Restore
    PROVE  NoticeInv'
<1>1. UNCHANGED <<member, round, history, ending>> /\ member \in Rooms \cup {0} /\ panel \in Panels
  BY DEF NoticeInv, PanelTyped, Restore, BootUser, BootAuth, BootActive, BootDetails, BootParts, server, Rest
<1>2. flow.at \in Boot /\ sock = Closed /\ wire = <<>>
  <2>1. flow.at \in Boot
    BY DEF Restore, BootUser, BootAuth, BootActive, BootDetails, BootParts, Boot
  <2>2. sock = Closed
    BY <2>1 DEF NoticeInv, NoStraySocket
  <2> QED
    BY <2>1, <2>2 DEF NoticeInv, NoStraySocket, Closed
<1>3. CASE BootUser \/ BootAuth \/ BootActive
  <2>1. sock' = Closed /\ wire' = <<>>
    BY <1>2, <1>3 DEF BootUser, BootAuth, BootActive, chat
  <2>2. panel' = panel \/ panel' = [panel EXCEPT !.user = TRUE]
    BY <1>3 DEF BootUser, BootAuth, BootActive, Arrive
  <2>3. panel' \in Panels /\ UnreadHidden'
    BY <1>1, <2>2 DEF Panels, NoticeInv, UnreadHidden, InView
  <2>4. /\ flow'.at \in {"auth", "idle", "active", "details"}
        /\ flow'.at = "details" => flow'.room \in Rooms
    BY <1>1, <1>3 DEF BootUser, BootAuth, BootActive, Arrive, Idle, Flow
  <2> QED
    BY <1>1, <2>1, <2>3, <2>4, UnconnectedPanel
<1>4. CASE BootDetails
  <2>1. sock' = Closed /\ wire' = <<>> /\ flow.room \in Rooms
    BY <1>2, <1>4 DEF BootDetails, chat, NoticeInv, PanelTyped
  <2>2. \/ flow'.at = "parts" /\ flow'.room = flow.room /\ panel' = InRoom(panel, flow.room)
        \/ flow'.at = "idle" /\ panel' = panel
    BY <1>4 DEF BootDetails, Arrive, Idle, Flow
  <2>3. panel' \in Panels /\ UnreadHidden' /\ (flow'.at = "parts" => panel'.room = flow'.room)
    <3>1. CASE panel' = InRoom(panel, flow.room) /\ flow'.room = flow.room
      BY <1>1, <2>1, <3>1 DEF InRoom, Panels, UnreadHidden
    <3>2. CASE panel' = panel /\ flow'.at = "idle"
      BY <1>1, <3>2 DEF NoticeInv, UnreadHidden, InView
    <3> QED
      BY <2>2, <3>1, <3>2
  <2> QED
    BY <1>1, <2>1, <2>2, <2>3, UnconnectedPanel
<1>5. CASE BootParts
  <2>1. /\ flow' = Idle /\ sock' = [st |-> "opening", room |-> flow.room] /\ wire' = <<>>
        /\ flow.room \in Rooms /\ panel.room = flow.room
    BY <1>2, <1>5 DEF BootParts, NoticeInv, PanelTyped
  <2>2. PICK b, c, t \in BOOLEAN : panel' = [panel EXCEPT !.started = b, !.ended = c, !.timed = t]
    BY <1>5 DEF BootParts
  <2>3. panel' \in Panels /\ UnreadHidden' /\ panel'.room = flow.room
    <3>1. /\ panel' \in Panels /\ panel'.room = panel.room /\ panel'.unread = panel.unread
          /\ panel'.chatTab = panel.chatTab /\ panel'.folded = panel.folded
      BY <1>1, <2>2 DEF Panels
    <3>2. UnreadHidden
      BY DEF NoticeInv
    <3> QED
      BY <2>1, <3>1, <3>2 DEF UnreadHidden, InView
  <2>4. flow'.at = "idle"
    BY <2>1 DEF Idle, Flow
  <2> QED
    BY <1>1, <2>1, <2>3, <2>4, UnconnectedPanel
<1> QED
  BY <1>3, <1>4, <1>5 DEF Restore

\* A toolbar is mounted on a room's fresh state, and may take an old event for a new one.
LEMMA MountedPanel ==
    ASSUME NEW p \in Panels, InView(p) => p.unread = 0, Mount(p)
    PROVE  panel' \in Panels /\ panel'.room = p.room /\ (InView(panel') => panel'.unread = 0)
<1>1. CASE p.event.type = "none"
  BY <1>1 DEF Mount
<1>2. CASE p.event.type # "none"
  <2>1. p.event \in Messages /\ GameEvent(p, p.event)
    BY <1>2 DEF Mount, Panels
  <2> QED
    BY <2>1, GameEventPanel
<1> QED
  BY <1>1, <1>2

\* Every message of u is one of s, of a or of b.
MadeOf(u, s, a, b) ==
    \A i \in DOMAIN u :
      \/ \E j \in DOMAIN s : u[i] = s[j]
      \/ \E j \in DOMAIN a : u[i] = a[j]
      \/ \E j \in DOMAIN b : u[i] = b[j]

LEMMA InThree ==
    ASSUME NEW s \in Seq(Messages), NEW a \in Seq(Messages), NEW b \in Seq(Messages), NEW u, u = s \o a \o b
    PROVE  MadeOf(u, s, a, b)
<1> SUFFICES ASSUME NEW i \in DOMAIN u
             PROVE  \/ \E j \in DOMAIN s : u[i] = s[j]
                    \/ \E j \in DOMAIN a : u[i] = a[j]
                    \/ \E j \in DOMAIN b : u[i] = b[j]
  BY DEF MadeOf
<1>1. /\ Len(s) \in Nat /\ Len(a) \in Nat /\ Len(b) \in Nat /\ s \o a \in Seq(Messages)
      /\ DOMAIN s = 1 .. Len(s) /\ DOMAIN a = 1 .. Len(a) /\ DOMAIN b = 1 .. Len(b)
      /\ Len(s \o a) = Len(s) + Len(a) /\ Len(u) = Len(s) + Len(a) + Len(b)
      /\ DOMAIN u = 1 .. Len(u)
  OBVIOUS
<1>2. i \in Int /\ 1 <= i /\ i <= Len(s) + Len(a) + Len(b)
  BY <1>1
<1>3. CASE i <= Len(s)
  <2>1. i \in DOMAIN s /\ u[i] = s[i]
    BY <1>1, <1>2, <1>3
  <2> QED
    BY <2>1
<1>4. CASE Len(s) < i /\ i <= Len(s) + Len(a)
  <2>1. i - Len(s) \in DOMAIN a /\ u[i] = a[i - Len(s)]
    BY <1>1, <1>2, <1>4
  <2> QED
    BY <2>1
<1>5. CASE Len(s) + Len(a) < i
  <2>1. i - (Len(s) + Len(a)) \in DOMAIN b /\ u[i] = b[i - (Len(s) + Len(a))]
    BY <1>1, <1>2, <1>5
  <2> QED
    BY <2>1
<1> QED
  BY <1>1, <1>2, <1>3, <1>4, <1>5

LEMMA NoticeJoinAnswer ==
    ASSUME NoticeInv, JoinAnswer
    PROVE  NoticeInv'
<1>0. flow.at = "join" /\ flow.room \in Rooms
  BY DEF JoinAnswer, NoticeInv, PanelTyped
<1> PICK r \in Rooms : r = flow.room
  BY <1>0
<1> DEFINE a == IF member = r THEN <<>> ELSE <<Message("user-joined", r, 0, 0)>>
           b == IF round[r].st = "started" THEN <<OwnJoin(r)>> ELSE <<>>
           p == [InRoom(panel, r) EXCEPT !.ended = round[r].st = "ended"]
<1>1. flow.at = "join" /\ UNCHANGED <<round, sock, wire, ending>>
  BY DEF JoinAnswer, chat, Rest
<1>2. r \in Rooms /\ panel \in Panels /\ sock = Closed /\ wire = <<>> /\ member \in Rooms \cup {0}
      /\ round[r] \in Rounds
  BY <1>1 DEF NoticeInv, PanelTyped, NoStraySocket, Closed
<1>3. CASE UNCHANGED <<member, history>> /\ Arrive(panel)
  <2>1. flow'.at = "idle" /\ panel' = panel
    BY <1>3 DEF Arrive, Idle, Flow
  <2>2. UnreadHidden'
    BY <2>1 DEF NoticeInv, UnreadHidden, InView
  <2> QED
    BY <1>1, <1>2, <1>3, <2>1, <2>2, UnconnectedPanel
<1>4. CASE /\ member' = r /\ history' = [history EXCEPT ![r] = @ \o a \o b]
           /\ flow' = Flow("joined", r) /\ Mount(p)
  <2>1. p \in Panels /\ p.room = r /\ p.unread = 0
    BY <1>2 DEF InRoom, Panels
  <2>2. /\ Message("user-joined", r, 0, 0) \in Messages /\ Message("user-joined", r, 0, 0).k = 0
        /\ OwnJoin(r) \in Messages /\ OwnJoin(r).n = round[r].n
    BY <1>2 DEF OwnJoin, Message, Messages, Rounds
  <2>3. panel' \in Panels /\ panel'.room = r /\ (InView(panel') => panel'.unread = 0)
    <3> HIDE DEF p
    <3> QED
      BY <1>4, <2>1, MountedPanel
  <2>4. UnreadHidden'
    BY <2>3 DEF UnreadHidden, InView
  <2>5. flow'.at = "joined" /\ flow'.room = r
    BY <1>4 DEF Flow
  <2>6. /\ history[r] \in Seq(Messages) /\ a \in Seq(Messages) /\ b \in Seq(Messages)
        /\ \A i \in DOMAIN a : a[i].k = 0
        /\ \A i \in DOMAIN b : b[i].n = round[r].n /\ round[r].st = "started"
    BY <1>2, <2>2 DEF NoticeInv, PanelTyped
  <2>7. /\ history' \in [Rooms -> Seq(Messages)] /\ history'[r] = history[r] \o a \o b
        /\ \A x \in Rooms \ {r} : history'[x] = history[x]
    <3>1. history \in [Rooms -> Seq(Messages)]
      BY DEF NoticeInv, PanelTyped
    <3> HIDE DEF a, b
    <3>2. history[r] \o a \o b \in Seq(Messages)
      BY <2>6
    <3> QED
      BY <1>2, <1>4, <3>1, <3>2
  <2>8. \A i \in DOMAIN history'[r] :
          \/ \E j \in DOMAIN history[r] : history'[r][i] = history[r][j]
          \/ \E j \in DOMAIN a : history'[r][i] = a[j]
          \/ \E j \in DOMAIN b : history'[r][i] = b[j]
    <3> HIDE DEF a, b
    <3>1. history[r] \in Seq(Messages) /\ a \in Seq(Messages) /\ b \in Seq(Messages)
      BY <2>6
    <3>2. history'[r] = history[r] \o a \o b
      BY <2>7
    <3>3. MadeOf(history'[r], history[r], a, b)
      BY <3>1, <3>2, InThree
    <3> QED
      BY <3>3 DEF MadeOf
  <2> HIDE DEF a, b, p
  <2>9. JoinedStarted'
    <3>1. JoinedStarted
      BY DEF NoticeInv
    <3>2. ASSUME NEW i \in DOMAIN history'[r], history'[r][i].k = 1
          PROVE  \/ history'[r][i].n < round[r].n
                 \/ history'[r][i].n = round[r].n /\ round[r].st # "created"
      <4>1. CASE \E j \in DOMAIN history[r] : history'[r][i] = history[r][j]
        BY <1>2, <3>1, <3>2, <4>1 DEF JoinedStarted
      <4>2. CASE \E j \in DOMAIN a : history'[r][i] = a[j]
        BY <2>6, <3>2, <4>2
      <4>3. CASE \E j \in DOMAIN b : history'[r][i] = b[j]
        BY <2>6, <4>3
      <4> QED
        BY <2>8, <4>1, <4>2, <4>3
    <3>3. SUFFICES ASSUME NEW x \in Rooms, NEW i \in DOMAIN history'[x], history'[x][i].k = 1
                   PROVE  \/ history'[x][i].n < round[x].n
                          \/ history'[x][i].n = round[x].n /\ round[x].st # "created"
      BY <1>1 DEF JoinedStarted
    <3>4. CASE x # r
      BY <2>7, <3>1, <3>3, <3>4 DEF JoinedStarted
    <3>5. CASE x = r
      BY <3>2, <3>3, <3>5
    <3> QED
      BY <3>4, <3>5
  <2> QED
    BY <1>1, <1>2, <1>4, <2>3, <2>4, <2>5, <2>7, <2>9, Unconnected
<1> HIDE DEF a, b, p
<1>5. \/ UNCHANGED <<member, history>> /\ Arrive(panel)
      \/ /\ member' = r /\ history' = [history EXCEPT ![r] = @ \o a \o b]
         /\ flow' = Flow("joined", r) /\ Mount(p)
  BY DEF JoinAnswer, a, b, p
<1> QED
  BY <1>3, <1>4, <1>5

LEMMA NoticeJoin ==
    ASSUME NoticeInv, JoinFinish \/ \E r \in Rooms : JoinClick(r)
    PROVE  NoticeInv'
<1>1. /\ UNCHANGED <<member, round, history, ending, panel, wire>> /\ panel \in Panels /\ member \in Rooms \cup {0}
  BY DEF NoticeInv, PanelTyped, JoinFinish, JoinClick, server, chat, Rest
<1>2. UnreadHidden'
  BY <1>1 DEF NoticeInv, UnreadHidden, InView
<1>3. CASE JoinFinish
  <2>1. /\ flow.at = "joined" /\ flow' = Idle /\ sock' = [st |-> "opening", room |-> flow.room]
    BY <1>3 DEF JoinFinish
  <2>2. flow.room \in Rooms /\ panel.room = flow.room /\ wire = <<>>
    BY <2>1 DEF NoticeInv, PanelTyped, NoStraySocket, Closed
  <2>3. flow'.at = "idle"
    BY <2>1 DEF Idle, Flow
  <2> QED
    BY <1>1, <1>2, <2>1, <2>2, <2>3, UnconnectedPanel
<1>4. ASSUME NEW r \in Rooms, JoinClick(r) PROVE NoticeInv'
  <2>1. flow = Idle /\ panel.room = 0 /\ flow' = Flow("join", r) /\ sock' = sock
    BY <1>4 DEF JoinClick, MayJoin, chat
  <2>2. sock = Closed /\ wire = <<>>
    BY <2>1 DEF NoticeInv, NoStraySocket, Idle, Flow, Closed
  <2>3. flow'.at = "join" /\ flow'.room = r
    BY <2>1 DEF Flow
  <2> QED
    BY <1>1, <1>2, <2>1, <2>2, <2>3, UnconnectedPanel
<1> QED
  BY <1>3, <1>4

LEMMA NoticeLeave ==
    ASSUME NoticeInv, LeaveAnswer \/ LeaveFinish
    PROVE  NoticeInv'
<1>1. PanelTyped /\ JoinedStarted /\ NoStraySocket /\ OnItsWay /\ UnreadHidden /\ panel \in Panels
  BY DEF NoticeInv, PanelTyped
<1>2. CASE LeaveFinish
  <2>1. /\ UNCHANGED <<member, round, history, ending, panel>> /\ sock' = Closed /\ wire' = <<>>
        /\ flow'.at = "idle"
    BY <1>2 DEF LeaveFinish, Arrive, Idle, Flow, server, Rest
  <2>2. UnreadHidden' /\ member' \in Rooms \cup {0}
    BY <1>1, <2>1 DEF PanelTyped, UnreadHidden, InView
  <2> QED
    BY <1>1, <2>1, <2>2, UnconnectedPanel
<1>3. CASE LeaveAnswer
  <2>1. flow.at = "leave" /\ UNCHANGED <<round, history, sock, wire, ending>>
    BY <1>3 DEF LeaveAnswer, chat, Rest
  <2>2. JoinedStarted'
    BY <1>1, <2>1 DEF JoinedStarted
  <2>3. CASE UNCHANGED member /\ Arrive(panel)
    <3>1. panel' = panel /\ member' = member /\ flow'.at = "idle"
      BY <2>3 DEF Arrive, Idle, Flow
    <3>2. PanelTyped'
      BY <1>1, <2>1, <3>1 DEF PanelTyped
    <3>3. NoStraySocket' /\ UnreadHidden'
      BY <1>1, <2>1, <3>1 DEF NoStraySocket, UnreadHidden, InView, Boot
    <3>4. OnItsWay'
      BY <1>1, <2>1, <3>1 DEF OnItsWay, Mounted, Ready, Boot, Joined, OwnJoin
    <3> QED
      BY <2>2, <3>2, <3>3, <3>4 DEF NoticeInv
  <2>4. CASE /\ member' = IF member = flow.room THEN 0 ELSE member
             /\ panel' = Fresh(panel.user, panel.folded) /\ flow' = Flow("left", 0)
    <3>1. panel' \in Panels /\ panel'.room = 0 /\ panel'.unread = 0 /\ flow'.at = "left"
      BY <1>1, <2>4, FreshIsPanel DEF Panels, Flow
    <3>2. PanelTyped'
      BY <1>1, <2>1, <2>4, <3>1 DEF PanelTyped
    <3>3. NoStraySocket' /\ UnreadHidden' /\ OnItsWay'
      BY <1>1, <2>1, <3>1 DEF NoStraySocket, UnreadHidden, OnItsWay, Mounted, Boot
    <3> QED
      BY <2>2, <3>2, <3>3 DEF NoticeInv
  <2> QED
    BY <1>3, <2>3, <2>4 DEF LeaveAnswer
<1> QED
  BY <1>2, <1>3

LEMMA NoticeLog ==
    ASSUME NoticeInv, LogoutAnswer \/ LoginAnswer
    PROVE  NoticeInv'
<1>1. PanelTyped /\ JoinedStarted /\ NoStraySocket /\ OnItsWay /\ UnreadHidden /\ panel \in Panels
  BY DEF NoticeInv, PanelTyped
<1>2. CASE LogoutAnswer
  <2>1. /\ UNCHANGED <<round, history, ending>> /\ member' \in {member, 0}
        /\ panel' = Fresh(FALSE, panel.folded) /\ sock' = Closed /\ wire' = <<>> /\ flow'.at = "idle"
    BY <1>2 DEF LogoutAnswer, Idle, Flow, Rest
  <2>2. panel' \in Panels /\ UnreadHidden' /\ member' \in Rooms \cup {0}
    BY <1>1, <2>1, FreshIsPanel DEF Panels, PanelTyped, UnreadHidden
  <2> QED
    BY <2>1, <2>2, UnconnectedPanel
<1>3. CASE LoginAnswer
  <2>1. /\ flow.at = "login" /\ flow'.at = "idle" /\ UNCHANGED <<member, round, history, sock, wire, ending>>
        /\ panel' = panel \/ panel' = [panel EXCEPT !.user = TRUE]
    BY <1>3 DEF LoginAnswer, Idle, Flow, server, chat, Rest
  <2>2. /\ panel' \in Panels /\ panel'.room = panel.room /\ panel'.started = panel.started
        /\ panel'.crossed = panel.crossed /\ UnreadHidden'
    BY <1>1, <2>1 DEF Panels, UnreadHidden, InView
  <2>3. PanelTyped'
    BY <1>1, <2>1, <2>2 DEF PanelTyped
  <2>4. JoinedStarted' /\ NoStraySocket'
    BY <1>1, <2>1, <2>2 DEF JoinedStarted, NoStraySocket, Boot
  <2>5. OnItsWay'
    BY <1>1, <2>1, <2>2 DEF OnItsWay, Mounted, Ready, Boot, Joined, OwnJoin
  <2> QED
    BY <2>2, <2>3, <2>4, <2>5 DEF NoticeInv
<1> QED
  BY <1>2, <1>3

----------------------------------------------------------------------------
(* Every step.                                                             *)

LEMMA NoticeInit == PanelInit => NoticeInv
<1> SUFFICES ASSUME PanelInit PROVE NoticeInv
  OBVIOUS
<1>1. /\ member \in Rooms \cup {0} /\ round = [r \in Rooms |-> [n |-> 1, st |-> "created"]]
      /\ flow.at = "user" /\ panel = Fresh(FALSE, FALSE) /\ ending = NotEnding /\ sock = Closed /\ wire = <<>>
  BY PanelRoomsAssumption DEF PanelInit, Flow
<1>2. \A r \in Rooms :
        /\ history[r] \in Seq(Messages)
        /\ \A i \in DOMAIN history[r] : history[r][i].k = 0
  <2> TAKE r \in Rooms
  <2>1. Message("user-joined", r, 0, 0) \in Messages /\ Message("user-joined", r, 0, 0).k = 0
    BY DEF Message, Messages
  <2>2. history[r] = <<Message("user-joined", r, 0, 0)>> \/ history[r] = <<>>
    BY DEF PanelInit
  <2>3. CASE history[r] = <<>>
    BY <2>3
  <2>4. CASE history[r] = <<Message("user-joined", r, 0, 0)>>
    BY <2>1, <2>4
  <2> QED
    BY <2>2, <2>3, <2>4
<1>3. history \in [Rooms -> Seq(Messages)]
  BY <1>2 DEF PanelInit
<1>4. panel \in Panels /\ panel.room = 0 /\ panel.unread = 0
  BY <1>1, FreshIsPanel
<1>5. PanelTyped
  <2>1. wire \in Seq(Messages) /\ ending \in Endings /\ ending.at = "off"
    BY <1>1 DEF NotEnding, Endings
  <2>2. sock \in Socks /\ sock.st = "closed"
    BY <1>1 DEF Closed, Socks
  <2>3. round \in [Rooms -> Rounds]
    BY <1>1 DEF Rounds
  <2> QED
    BY <1>1, <1>3, <1>4, <2>1, <2>2, <2>3 DEF PanelTyped
<1>7. JoinedStarted
  BY <1>2 DEF JoinedStarted
<1>8. NoStraySocket /\ OnItsWay /\ UnreadHidden
  BY <1>1, <1>4 DEF NoStraySocket, OnItsWay, UnreadHidden, Mounted
<1> QED
  BY <1>5, <1>7, <1>8 DEF NoticeInv

LEMMA NoticeStep == NoticeInv /\ [PanelNext]_panelVars => NoticeInv'
<1> SUFFICES ASSUME NoticeInv, [PanelNext]_panelVars PROVE NoticeInv'
  OBVIOUS
<1>1. CASE UNCHANGED panelVars
  BY <1>1, NoticeStutter
<1>2. CASE Inputs
  <2>1. CASE \E r \in Rooms : NewRound(r) \/ StartRound(r) \/ EndRound(r) \/ JoinClick(r)
    BY <2>1, NoticeNewRound, NoticeStartRound, NoticeEnd, NoticeJoin
  <2>2. CASE \E r \in Rooms, type \in {"chat-message", "user-joined", "join-round"} : Others(r, type)
    BY <2>2, NoticeOthers
  <2>3. CASE \E r \in Rooms, k \in Problems : NextProblem(r, k)
    BY <2>3, NoticeNextProblem
  <2>4. CASE \E t \in Places \cup {Elsewhere} : Browse(t) \/ Route(t)
    BY <2>4, NoticeReload, NoticeQuiet
  <2>5. CASE Expire \/ EndClick \/ SocketClose \/ ChooseTab \/ SelectTabAndUnfold \/ FoldOrUnfold
             \/ LeaveClick \/ LogoutClick \/ LoginClick
    BY <2>5, NoticeQuiet, NoticeAsk, NoticeSocket, NoticeChoose
  <2> QED
    BY <1>2, <2>1, <2>2, <2>3, <2>4, <2>5 DEF Inputs
<1>3. CASE Steps
  <2>1. CASE \E r \in Rooms : JoinRound(r)
    BY <2>1, NoticeJoinRound
  <2>2. CASE (\E q \in queries : Query(q)) \/ (\E t \in moves : Move(t)) \/ Resume
    BY <2>2, NoticeQuiet, NoticeReload
  <2>3. CASE EndHandled \/ EndAnswer \/ EndTimer
    BY <2>3, NoticeEnd, NoticeEndAnswer, NoticeAsk
  <2>4. CASE SocketOpen \/ Subscribe \/ OnChat \/ OnUserJoined \/ OnAnnouncement \/ OnGameEvent
    BY <2>4, NoticeSocket, NoticeSubscribe, NoticeOnChat, NoticeOnGameEvent
  <2>5. CASE Restore
    BY <2>5, NoticeRestore
  <2>6. CASE JoinAnswer \/ JoinFinish \/ LeaveAnswer \/ LeaveFinish \/ LogoutAnswer \/ LoginAnswer
    BY <2>6, NoticeJoinAnswer, NoticeJoin, NoticeLeave, NoticeLog
  <2> QED
    BY <1>3, <2>1, <2>2, <2>3, <2>4, <2>5, <2>6 DEF Steps
<1> QED
  BY <1>1, <1>2, <1>3 DEF PanelNext

LEMMA NoticeInvariant == PanelSpec => []NoticeInv
BY NoticeInit, NoticeStep, PTL DEF PanelSpec

\* A round the user has joined is shown as running once all that rtc-service sent has been
\* handled, for any number of rooms and inputs, however its start falls between the panel's
\* loading, its look at the room, its socket and the replay (useRoomEvents.ts, useSessionInit.ts,
\* useChatSocket.ts); the invariant says more: until it is shown, the user's join-round is on
\* the wire.
THEOREM RoundIsNoticed == PanelSpec => []RoundNoticed
<1>1. NoticeInv => RoundNoticed
  <2> SUFFICES ASSUME NoticeInv, Mounted, ~panel.crossed, sock = [st |-> "open", room |-> panel.room],
                      wire = <<>>, round[panel.room].st = "started", Joined(panel.room)
               PROVE  panel.started
    BY DEF RoundNoticed
  <2>1. panel.started \/ \E i \in DOMAIN wire : wire[i] = OwnJoin(panel.room)
    BY DEF NoticeInv, OnItsWay
  <2>2. DOMAIN wire = {}
    OBVIOUS
  <2> QED
    BY <2>1, <2>2
<1> QED
  BY <1>1, NoticeInvariant, PTL

\* Nothing is counted as unread while the chat is in view (useChatSocket.ts, clearUnread).
THEOREM UnreadIsHidden == PanelSpec => []UnreadHidden
BY NoticeInvariant, PTL DEF NoticeInv
=============================================================================
