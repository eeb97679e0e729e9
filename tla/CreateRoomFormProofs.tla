------------------------ MODULE CreateRoomFormProofs ------------------------
(***************************************************************************)
(* Proofs about the create-room page, for every set of topics, companies   *)
(* and problems, every answer of the server, and any limits and bounds.    *)
(***************************************************************************)
EXTENDS CreateRoomForm, FiniteSetTheorems, TLAPS

Forms == [num : [Levels -> Nat], total : Nat, any : BOOLEAN, anyCount : Nat,
          topics : SUBSET Topics, companies : SUBSET Companies, flags : SUBSET Flags,
          recent : BOOLEAN, step : Nat, touched : BOOLEAN]

\* A form within its limits.
Within(f) ==
    /\ f \in Forms
    /\ f.total = Sum(f.num) /\ f.total \in 1..MaxProblems
    /\ f.anyCount \in 1..MaxProblems /\ f.step \in 0..LastStep

FormInv ==
    /\ Within(form) /\ (form.recent => form.companies # {})
    /\ IsFiniteSet(chosen) /\ Cardinality(chosen) <= MaxChosen

\* At most one request for the number is under way, for the filters that are shown.
OneRequest ==
    \/ requests = {}
    \/ /\ loading /\ tab = "filter"
       /\ \E at \in {"debounce", "fetch"} : requests = {[key |-> Key(form), at |-> at]}

CountInv == OneRequest /\ CountIsCurrent

CreationsTyped ==
    creations \subseteq [from : {"filter", "choose"}, at : {"room", "round", "join", "enter"},
                         mine : BOOLEAN, want : Nat, key : Keys, blind : BOOLEAN]

Inv == FormInv /\ CountInv /\ CreationsTyped /\ NeverTooMany

----------------------------------------------------------------------------
(* The form.                                                               *)

LEMMA KeyTyped == ASSUME NEW f \in Forms PROVE Key(f) \in Keys
BY DEF Key, Keys, Forms, Difficulties

LEMMA RequestedTyped == ASSUME NEW f, Within(f) PROVE Requested(f) \in Nat
BY DEF Within, Requested, Forms

LEMMA PristineWithin == Within(PristineForm) /\ ~PristineForm.recent
<1>1. PristineForm.num = [l \in Levels |-> IF l = "easy" THEN 1 ELSE 0] /\ PristineForm.total = 1
  BY DEF PristineForm
<1>2. Sum(PristineForm.num) = 1
  BY <1>1 DEF Sum, Levels
<1>3. PristineForm \in Forms
  BY DEF PristineForm, Forms, Levels, Flags
<1> QED
  BY <1>1, <1>2, <1>3, LimitsAssumption DEF Within, PristineForm

\* One more, or one less, problem of a difficulty.
LEMMA SumChanges ==
    ASSUME NEW num \in [Levels -> Nat], NEW l \in Levels, NEW n \in Nat
    PROVE  /\ [num EXCEPT ![l] = n] \in [Levels -> Nat]
           /\ Sum([num EXCEPT ![l] = n]) = Sum(num) - num[l] + n
           /\ Sum(num) \in Nat /\ num[l] <= Sum(num)
BY DEF Levels, Sum

\* The clicks in the wizard that change the form and nothing else.
WizardChange ==
    \/ \E l \in Levels : Increment(l) \/ Decrement(l)
    \/ AnyDifficulty
    \/ \E t \in Topics : ChooseTopic(t)
    \/ \E c \in Companies : ChooseCompany(c)
    \/ \E x \in Flags : ChooseFlag(x)
    \/ ChooseRecent
    \/ \E n \in 0..LastStep : OpenStep(n)

\* Each of them gives the form a value within its limits.
LEMMA ChangeWithin ==
    ASSUME Within(form), WizardChange
    PROVE  tab = "filter" /\ \E f : Within(f) /\ Becomes(f)
<1> USE DEF Within
<1>n. form.num \in [Levels -> Nat] /\ form \in Forms
  BY DEF Forms
<1>1. ASSUME NEW l \in Levels, Increment(l) PROVE tab = "filter" /\ \E f : Within(f) /\ Becomes(f)
  <2>1. CASE form.total >= MaxProblems
    <3> DEFINE f == [form EXCEPT !.touched = TRUE]
    <3>1. tab = "filter" /\ Becomes(f)
      BY <1>1, <2>1 DEF Increment, Wizard
    <3>2. Within(f)
      BY DEF Forms
    <3> QED
      BY <3>1, <3>2
  <2>2. CASE ~(form.total >= MaxProblems)
    <3> DEFINE f == [form EXCEPT !.touched = TRUE, !.num[l] = @ + 1, !.total = @ + 1]
               num == [form.num EXCEPT ![l] = form.num[l] + 1]
    <3>1. tab = "filter" /\ Becomes(f)
      BY <1>1, <2>2 DEF Increment, Wizard
    <3>2. num \in [Levels -> Nat] /\ Sum(num) = form.total + 1
      BY <1>n, SumChanges
    <3>3. f = [form EXCEPT !.touched = TRUE, !.num = num, !.total = form.total + 1]
      BY <1>n DEF Forms
    <3> HIDE DEF num, f
    <3>t. form.total + 1 \in Nat
      OBVIOUS
    <3>4. f \in Forms
      BY <1>n, <3>t, <3>2, <3>3 DEF Forms
    <3>5. Within(f)
      BY <2>2, <3>2, <3>3, <3>4, LimitsAssumption DEF Forms
    <3> QED
      BY <3>1, <3>5
  <2> QED
    BY <2>1, <2>2
<1>2. ASSUME NEW l \in Levels, Decrement(l) PROVE tab = "filter" /\ \E f : Within(f) /\ Becomes(f)
  <2>1. CASE form.total <= 1 \/ form.num[l] <= 0
    <3> DEFINE f == [form EXCEPT !.touched = TRUE]
    <3>1. tab = "filter" /\ Becomes(f)
      BY <1>2, <2>1 DEF Decrement, Wizard
    <3>2. Within(f)
      BY DEF Forms
    <3> QED
      BY <3>1, <3>2
  <2>2. CASE ~(form.total <= 1 \/ form.num[l] <= 0)
    <3> DEFINE f == [form EXCEPT !.touched = TRUE, !.num[l] = @ - 1, !.total = @ - 1]
               num == [form.num EXCEPT ![l] = form.num[l] - 1]
    <3>1. tab = "filter" /\ Becomes(f)
      BY <1>2, <2>2 DEF Decrement, Wizard
    <3>0. form.num[l] - 1 \in Nat
      BY <1>n, <2>2
    <3>2. num \in [Levels -> Nat] /\ Sum(num) = form.total - 1
      BY <1>n, <3>0, SumChanges
    <3>3. f = [form EXCEPT !.touched = TRUE, !.num = num, !.total = form.total - 1]
      BY <1>n DEF Forms
    <3> HIDE DEF num, f
    <3>t. form.total - 1 \in Nat
      BY <2>2
    <3>4. f \in Forms
      BY <1>n, <3>t, <3>2, <3>3 DEF Forms
    <3>5. Within(f)
      BY <2>2, <3>2, <3>3, <3>4, LimitsAssumption DEF Forms
    <3> QED
      BY <3>1, <3>5
  <2> QED
    BY <2>1, <2>2
<1>3. ASSUME AnyDifficulty PROVE tab = "filter" /\ \E f : Within(f) /\ Becomes(f)
  <2> DEFINE more == IF form.anyCount < MaxProblems THEN form.anyCount + 1 ELSE MaxProblems
             less == IF form.anyCount > 1 THEN form.anyCount - 1 ELSE 1
             f1 == [form EXCEPT !.touched = TRUE, !.any = ~@]
             f2 == [form EXCEPT !.touched = TRUE, !.anyCount = more]
             f3 == [form EXCEPT !.touched = TRUE, !.anyCount = less]
  <2>1. tab = "filter" /\ (Becomes(f1) \/ Becomes(f2) \/ Becomes(f3))
    BY <1>3, Zenon DEF AnyDifficulty, Wizard
  <2>2. more \in 1..MaxProblems /\ less \in 1..MaxProblems /\ more \in Nat /\ less \in Nat
    BY LimitsAssumption
  <2> HIDE DEF more, less
  <2>3. Within(f1)
    BY DEF Forms
  <2>4. Within(f2) /\ Within(f3)
    <3>1. f2 \in Forms /\ f3 \in Forms
      BY <2>2 DEF Forms
    <3> QED
      BY <2>2, <3>1 DEF Forms
  <2> HIDE DEF f1, f2, f3
  <2> QED
    BY <2>1, <2>3, <2>4
<1>4. ASSUME NEW t \in Topics, ChooseTopic(t) PROVE tab = "filter" /\ \E f : Within(f) /\ Becomes(f)
  <2> DEFINE f == [form EXCEPT !.topics = Toggle(@, t)]
  <2>1. tab = "filter" /\ Becomes(f)
    BY <1>4 DEF ChooseTopic, Wizard
  <2>2. Toggle(form.topics, t) \in SUBSET Topics
    BY DEF Forms, Toggle
  <2>3. Within(f)
    BY <2>2 DEF Forms
  <2> QED
    BY <2>1, <2>3
<1>5. ASSUME NEW c \in Companies, ChooseCompany(c) PROVE tab = "filter" /\ \E f : Within(f) /\ Becomes(f)
  <2> DEFINE f == [form EXCEPT !.companies = Toggle(@, c)]
  <2>1. tab = "filter" /\ Becomes(f)
    BY <1>5 DEF ChooseCompany, Wizard
  <2>2. Toggle(form.companies, c) \in SUBSET Companies
    BY DEF Forms, Toggle
  <2>3. Within(f)
    BY <2>2 DEF Forms
  <2> QED
    BY <2>1, <2>3
<1>6. ASSUME NEW x \in Flags, ChooseFlag(x) PROVE tab = "filter" /\ \E f : Within(f) /\ Becomes(f)
  <2> DEFINE f == [form EXCEPT !.flags = Toggle(@, x)]
  <2>1. tab = "filter" /\ Becomes(f)
    BY <1>6 DEF ChooseFlag, Wizard
  <2>2. Toggle(form.flags, x) \in SUBSET Flags
    BY DEF Forms, Toggle
  <2>3. Within(f)
    BY <2>2 DEF Forms
  <2> QED
    BY <2>1, <2>3
<1>7. ASSUME ChooseRecent PROVE tab = "filter" /\ \E f : Within(f) /\ Becomes(f)
  <2> DEFINE f == [form EXCEPT !.recent = ~@]
  <2>1. tab = "filter" /\ Becomes(f)
    BY <1>7 DEF ChooseRecent, Wizard
  <2>2. Within(f)
    BY DEF Forms
  <2> QED
    BY <2>1, <2>2
<1>8. ASSUME NEW n \in 0..LastStep, OpenStep(n) PROVE tab = "filter" /\ \E f : Within(f) /\ Becomes(f)
  <2> DEFINE f == [form EXCEPT !.step = n]
  <2>1. tab = "filter" /\ Becomes(f)
    BY <1>8 DEF OpenStep, Wizard
  <2>2. Within(f)
    BY LimitsAssumption DEF Forms
  <2> QED
    BY <2>1, <2>2
<1> QED
  BY <1>1, <1>2, <1>3, <1>4, <1>5, <1>6, <1>7, <1>8 DEF WizardChange

----------------------------------------------------------------------------
(* Every step keeps Inv.                                                   *)

\* The effect leaves the number of the new filters, or asks for it.
LEMMA LookUpOK ==
    ASSUME NEW k, LookUp(k), tab' = "filter", Key(form)' = k
    PROVE  CountInv'
<1>1. CASE k \in cache
  BY <1>1 DEF LookUp, CountInv, OneRequest, CountIsCurrent
<1>2. CASE k \notin cache
  <2>1. loading' = TRUE /\ requests' = {Asking(k)}
    BY <1>2 DEF LookUp
  <2> QED
    BY <2>1 DEF CountInv, OneRequest, CountIsCurrent, Asking
<1> QED
  BY <1>1, <1>2

LEMMA BecomesOK ==
    ASSUME Inv, tab = "filter", NEW f, Within(f), Becomes(f)
    PROVE  Inv'
<1> DEFINE rec == f.recent /\ f.companies # {}
           g == [f EXCEPT !.recent = rec]
<1>1. /\ form' = g /\ UNCHANGED <<tab, chosen, creations>>
      /\ IF Key(g) = Key(form) THEN UNCHANGED <<count, loading, requests, failed>>
           ELSE LookUp(Key(g)) /\ failed' = FALSE
  BY DEF Becomes, creating
<1>2. rec \in BOOLEAN /\ (rec => f.companies # {})
  OBVIOUS
<1> HIDE DEF rec
<1>3. Within(g) /\ (g.recent => g.companies # {})
  BY <1>2 DEF Within, Forms
<1> HIDE DEF g
<1>4. FormInv'
  BY <1>1, <1>3 DEF Inv, FormInv, Within
<1>5. CountInv'
  <2>1. CASE Key(g) = Key(form)
    <3>1. Key(form)' = Key(form) /\ UNCHANGED <<count, loading, requests, failed, tab>>
      BY <1>1, <2>1
    <3> QED
      BY <3>1 DEF Inv, CountInv, OneRequest, CountIsCurrent
  <2>2. CASE Key(g) # Key(form)
    BY <1>1, <2>2, LookUpOK
  <2> QED
    BY <2>1, <2>2
<1>6. CreationsTyped' /\ NeverTooMany'
  BY <1>1 DEF Inv, CreationsTyped, NeverTooMany
<1> QED
  BY <1>4, <1>5, <1>6 DEF Inv

LEMMA ResetOK == Inv /\ Reset => Inv'
<1> SUFFICES ASSUME Inv, Reset PROVE Inv'
  OBVIOUS
<1>1. form' = PristineForm /\ LookUp(Key(PristineForm)) /\ tab = "filter" /\ UNCHANGED <<tab, chosen, creations>>
  BY DEF Reset, Wizard, creating
<1>2. FormInv'
  BY <1>1, PristineWithin DEF Inv, FormInv, Within
<1>3. CountInv'
  BY <1>1, LookUpOK
<1> QED
  BY <1>1, <1>2, <1>3 DEF Inv, CreationsTyped, NeverTooMany

\* handlePrimaryAction: what the button's number says is what the new creation may ask for.
LEMMA PrimaryOK == Inv /\ Primary => Inv'
<1> SUFFICES ASSUME Inv, Primary PROVE Inv'
  OBVIOUS
<1>0. tab = "filter" /\ ButtonFree /\ UNCHANGED <<tab, count, loading, requests, failed, chosen>>
  BY DEF Primary, Wizard
<1>f. Within(form) /\ form \in Forms
  BY DEF Inv, FormInv, Within
<1>1. CASE ShowsCreate /\ Create("filter", Requested(form), Key(form), failed \/ count = NoCount) /\ UNCHANGED form
  <2> DEFINE blind == failed \/ count = NoCount
             c == [from |-> "filter", at |-> "room", mine |-> TRUE, want |-> Requested(form),
                   key |-> Key(form), blind |-> blind]
  <2>1. creations' = creations \cup {c}
    BY <1>1, Zenon DEF Create
  <2>2. Key(form) \in Keys /\ Requested(form) \in Nat
    BY <1>f, KeyTyped, RequestedTyped
  <2>3. ~blind => Requested(form) <= Pool(Key(form))
    <3> SUFFICES ASSUME ~blind PROVE Requested(form) <= Pool(Key(form))
      OBVIOUS
    <3>1. ~loading /\ ~failed /\ count # NoCount /\ ~(count < Requested(form))
      BY <1>0, <1>1 DEF ButtonFree, NotEnough
    <3>2. count = Pool(Key(form))
      BY <3>1, <1>0 DEF Inv, CountInv, CountIsCurrent
    <3> QED
      BY <3>1, <3>2, <2>2, PoolAssumption
  <2>4. blind \in BOOLEAN
    OBVIOUS
  <2> HIDE DEF blind
  <2>5. c \in [from : {"filter", "choose"}, at : {"room", "round", "join", "enter"},
                mine : BOOLEAN, want : Nat, key : Keys, blind : BOOLEAN]
    BY <2>2, <2>4
  <2>6. CreationsTyped'
    BY <2>1, <2>5 DEF Inv, CreationsTyped
  <2>7. ~c.blind => c.want <= Pool(c.key)
    BY <2>3
  <2> HIDE DEF c
  <2>8. NeverTooMany'
    BY <2>1, <2>7 DEF Inv, NeverTooMany
  <2>9. FormInv' /\ CountInv'
    BY <1>0, <1>1 DEF Inv, FormInv, Within, CountInv, OneRequest, CountIsCurrent
  <2> QED
    BY <2>6, <2>8, <2>9 DEF Inv
<1>2. CASE ~ShowsCreate /\ form' = [form EXCEPT !.step = @ + 1] /\ UNCHANGED <<submitting, creating>>
  <2>1. form.step + 1 \in 0..LastStep /\ form.step + 1 \in Nat
    BY <1>2, <1>f, LimitsAssumption DEF ShowsCreate, Within
  <2>2. Within(form)' /\ form'.recent = form.recent /\ form'.companies = form.companies
    BY <1>2, <1>f, <2>1 DEF Within, Forms
  <2>3. Key(form)' = Key(form)
    BY <1>2, <1>f DEF Key, Difficulties, Forms
  <2>4. FormInv'
    BY <2>2, <1>0 DEF Inv, FormInv
  <2>5. CountInv'
    BY <2>3, <1>0 DEF Inv, CountInv, OneRequest, CountIsCurrent
  <2>6. CreationsTyped' /\ NeverTooMany'
    BY <1>2 DEF creating, Inv, CreationsTyped, NeverTooMany
  <2> QED
    BY <2>4, <2>5, <2>6 DEF Inv
<1> QED
  BY <1>1, <1>2 DEF Primary

\* What a step needs to know when the filters, their number and its request stay.
FiltersStay == UNCHANGED <<tab, form, count, loading, requests, failed>>

LEMMA FiltersStayOK == ASSUME Inv, FiltersStay PROVE Within(form)' /\ (form.recent => form.companies # {})' /\ CountInv'
BY DEF FiltersStay, Inv, FormInv, Within, CountInv, OneRequest, CountIsCurrent

LEMMA PickProblemOK == ASSUME Inv, NEW p \in Problems, PickProblem(p) PROVE Inv'
<1>1. chosen' = Selected(p) /\ FiltersStay /\ creations' = creations
  BY DEF PickProblem, filters, creating, FiltersStay
<1>2. IsFiniteSet(chosen) /\ Cardinality(chosen) <= MaxChosen /\ Cardinality(chosen) \in Nat
  BY FS_CardinalityType DEF Inv, FormInv
<1>3. IsFiniteSet(chosen') /\ Cardinality(chosen') <= MaxChosen
  <2>1. CASE p \in chosen
    <3>1. chosen' = chosen \ {p}
      BY <1>1, <2>1 DEF Selected, Toggle
    <3> QED
      BY <3>1, <1>2, <2>1, FS_RemoveElement, LimitsAssumption
  <2>2. CASE p \notin chosen /\ Cardinality(chosen) < MaxChosen
    <3>1. chosen' = chosen \cup {p}
      BY <1>1, <2>2 DEF Selected, Toggle
    <3>2. IsFiniteSet(chosen') /\ Cardinality(chosen') = Cardinality(chosen) + 1
      BY <3>1, <1>2, <2>2, FS_AddElement
    <3> QED
      BY <3>2, <1>2, <2>2, LimitsAssumption
  <2>3. CASE p \notin chosen /\ ~(Cardinality(chosen) < MaxChosen)
    BY <1>1, <1>2, <2>3 DEF Selected
  <2> QED
    BY <2>1, <2>2, <2>3
<1> QED
  BY <1>1, <1>3, FiltersStayOK DEF Inv, FormInv, CreationsTyped, NeverTooMany

LEMMA NoneChosen == IsFiniteSet({}) /\ Cardinality({}) = 0
BY FS_EmptySet

LEMMA CreateChosenOK == Inv /\ CreateChosen => Inv'
<1> SUFFICES ASSUME Inv, CreateChosen PROVE Inv'
  OBVIOUS
<1> DEFINE c == [from |-> "choose", at |-> "room", mine |-> TRUE, want |-> Cardinality(chosen),
                 key |-> Key(form), blind |-> TRUE]
<1>1. creations' = creations \cup {c} /\ chosen' = chosen /\ FiltersStay
  BY DEF CreateChosen, Create, filters, FiltersStay
<1>2. Key(form) \in Keys /\ Cardinality(chosen) \in Nat
  BY KeyTyped, FS_CardinalityType DEF Inv, FormInv, Within
<1>3. c \in [from : {"filter", "choose"}, at : {"room", "round", "join", "enter"},
              mine : BOOLEAN, want : Nat, key : Keys, blind : BOOLEAN] /\ c.blind
  BY <1>2
<1> HIDE DEF c
<1>4. CreationsTyped' /\ NeverTooMany'
  BY <1>1, <1>3 DEF Inv, CreationsTyped, NeverTooMany
<1> QED
  BY <1>1, <1>4, FiltersStayOK DEF Inv, FormInv

\* Every creation goes back to one that was there, whose request it keeps.
ComesFrom(d, old) ==
    \E c \in old, at \in {"room", "round", "join", "enter"}, mine \in BOOLEAN :
        d = [c EXCEPT !.at = at, !.mine = mine]

Descend(new, old) == \A d \in new : ComesFrom(d, old)

LEMMA DescendOK == ASSUME Inv, Descend(creations', creations) PROVE CreationsTyped' /\ NeverTooMany'
<1> SUFFICES ASSUME NEW d \in creations'
             PROVE  /\ d \in [from : {"filter", "choose"}, at : {"room", "round", "join", "enter"},
                               mine : BOOLEAN, want : Nat, key : Keys, blind : BOOLEAN]
                    /\ ~d.blind => d.want <= Pool(d.key)
  BY DEF CreationsTyped, NeverTooMany
<1>1. PICK c \in creations, at \in {"room", "round", "join", "enter"}, mine \in BOOLEAN :
        d = [c EXCEPT !.at = at, !.mine = mine]
  BY DEF Descend, ComesFrom
<1>2. /\ c \in [from : {"filter", "choose"}, at : {"room", "round", "join", "enter"},
                 mine : BOOLEAN, want : Nat, key : Keys, blind : BOOLEAN]
      /\ ~c.blind => c.want <= Pool(c.key)
  BY DEF Inv, CreationsTyped, NeverTooMany
<1> QED
  BY <1>1, <1>2

\* A creation that stays as it is, moves on, or loses its tab.
LEMMA DescendCases ==
    ASSUME Inv, NEW c \in creations, NEW d \in creations \cup {[c EXCEPT !.at = "round"], [c EXCEPT !.at = "join"],
                                                              [c EXCEPT !.at = "enter"], [c EXCEPT !.mine = FALSE]}
    PROVE  ComesFrom(d, creations)
<1> USE DEF ComesFrom
<1>t. \A b \in creations : b \in [from : {"filter", "choose"}, at : {"room", "round", "join", "enter"},
                                 mine : BOOLEAN, want : Nat, key : Keys, blind : BOOLEAN]
  BY DEF Inv, CreationsTyped
<1>1. CASE d \in creations
  <2>1. d = [d EXCEPT !.at = d.at, !.mine = d.mine] /\ d.mine \in BOOLEAN /\ d.at \in {"room", "round", "join", "enter"}
    BY <1>t, <1>1
  <2> QED
    BY <2>1, <1>1
<1>2. CASE \E at \in {"round", "join", "enter"} : d = [c EXCEPT !.at = at]
  <2>1. PICK at \in {"round", "join", "enter"} : d = [c EXCEPT !.at = at]
    BY <1>2
  <2>2. d = [c EXCEPT !.at = at, !.mine = c.mine] /\ c.mine \in BOOLEAN
    BY <1>t, <2>1
  <2> QED
    BY <2>2
<1>3. CASE d = [c EXCEPT !.mine = FALSE]
  <2>1. d = [c EXCEPT !.at = c.at, !.mine = FALSE] /\ c.at \in {"room", "round", "join", "enter"}
    BY <1>t, <1>3
  <2> QED
    BY <2>1
<1> QED
  BY <1>1, <1>2, <1>3

LEMMA RequestOK == ASSUME Inv, NEW c \in creations, Request(c) \/ RequestFails(c) PROVE Inv'
<1>1. chosen' = chosen /\ FiltersStay
  BY DEF Request, RequestFails, filters, FiltersStay
<1>2. creations' \subseteq creations \cup {[c EXCEPT !.at = "round"], [c EXCEPT !.at = "join"], [c EXCEPT !.at = "enter"]}
  BY DEF Request, RequestFails, Moves, Settled
<1>3. Descend(creations', creations)
  <2> SUFFICES ASSUME NEW d \in creations' PROVE ComesFrom(d, creations)
    BY DEF Descend
  <2>1. d \in creations \cup {[c EXCEPT !.at = "round"], [c EXCEPT !.at = "join"],
                              [c EXCEPT !.at = "enter"], [c EXCEPT !.mine = FALSE]}
    BY <1>2
  <2> QED
    BY <2>1, DescendCases
<1> QED
  BY <1>1, <1>3, DescendOK, FiltersStayOK DEF Inv, FormInv

LEMMA OrphanedOK == ASSUME Inv, NEW S \in SUBSET creations PROVE Descend(Orphaned(S), creations)
<1> SUFFICES ASSUME NEW d \in Orphaned(S) PROVE ComesFrom(d, creations)
  BY DEF Descend
<1>1. PICK c \in S : d = [c EXCEPT !.mine = FALSE]
  BY DEF Orphaned
<1>2. c \in creations /\ d \in creations \cup {[c EXCEPT !.at = "round"], [c EXCEPT !.at = "join"],
                                              [c EXCEPT !.at = "enter"], [c EXCEPT !.mine = FALSE]}
  BY <1>1
<1> QED
  BY <1>2, DescendCases

\* The tab goes away: Enter and Cancel.
LEMMA UnmountOK ==
    ASSUME Inv, Unmount, form' = form, tab' # "filter", Descend(creations', creations)
    PROVE  Inv'
<1>1. CountInv'
  BY DEF Unmount, CountInv, OneRequest, CountIsCurrent
<1>2. FormInv'
  BY NoneChosen, LimitsAssumption DEF Unmount, Inv, FormInv, Within
<1> QED
  BY <1>1, <1>2, DescendOK DEF Inv

LEMMA ShowTabOK == ASSUME Inv, NEW t \in {"filter", "choose"}, ShowTab(t) PROVE Inv'
<1>1. tab' = t /\ chosen' = {} /\ form' = PristineForm /\ creations' = Orphaned(creations)
  BY DEF ShowTab
<1>2. FormInv'
  BY <1>1, PristineWithin, NoneChosen, LimitsAssumption DEF FormInv, Within
<1>3. CreationsTyped' /\ NeverTooMany'
  BY <1>1, OrphanedOK, DescendOK
<1> DEFINE k == Key(PristineForm)
<1>4. CountInv'
  <2>1. CASE t = "choose"
    BY <2>1, <1>1 DEF ShowTab, CountInv, OneRequest, CountIsCurrent
  <2>2. CASE t = "filter" /\ k \in cache
    BY <2>2, <1>1 DEF ShowTab, CountInv, OneRequest, CountIsCurrent
  <2>3. CASE t = "filter" /\ k \notin cache
    <3>1. loading' = TRUE /\ requests' = {Asking(k)} /\ tab' = "filter" /\ Key(form)' = k
      BY <2>3, <1>1 DEF ShowTab
    <3> QED
      BY <3>1 DEF CountInv, OneRequest, CountIsCurrent, Asking
  <2> QED
    BY <2>1, <2>2, <2>3
<1> QED
  BY <1>2, <1>3, <1>4 DEF Inv

\* The request for the number is answered, fails, or is sent after 300 ms.
LEMMA AnswerOK == ASSUME Inv, NEW r \in requests, Debounce(r) \/ Answer(r) \/ AnswerFails(r) PROVE Inv'
<1>1. /\ requests = {r} /\ loading /\ tab = "filter"
      /\ r.key = Key(form) /\ r = [key |-> Key(form), at |-> r.at]
  BY DEF Inv, CountInv, OneRequest
<1>2. UNCHANGED <<tab, form, chosen, creations>>
  BY DEF Debounce, Answer, AnswerFails, creating
<1>k. Key(form)' = Key(form)
  BY <1>2
<1>3. FormInv' /\ CreationsTyped' /\ NeverTooMany'
  BY <1>2 DEF Inv, FormInv, Within, CreationsTyped, NeverTooMany
<1>4. CountInv'
  <2>1. CASE Debounce(r)
    <3>1. requests' = {[key |-> Key(form), at |-> "fetch"]} /\ loading' = loading
      BY <2>1, <1>1 DEF Debounce
    <3> QED
      BY <3>1, <1>1, <1>2, <1>k DEF CountInv, OneRequest, CountIsCurrent
  <2>2. CASE Answer(r)
    BY <2>2, <1>1, <1>k DEF Answer, CountInv, OneRequest, CountIsCurrent
  <2>3. CASE AnswerFails(r)
    BY <2>3, <1>1, <1>k DEF AnswerFails, CountInv, OneRequest, CountIsCurrent
  <2> QED
    BY <2>1, <2>2, <2>3
<1> QED
  BY <1>3, <1>4 DEF Inv

LEMMA InitOK == Init => Inv
<1> SUFFICES ASSUME Init PROVE Inv
  OBVIOUS
<1>1. /\ tab = "filter" /\ form = PristineForm /\ chosen = {} /\ creations = {}
      /\ loading = TRUE /\ requests = {Asking(Key(PristineForm))}
  BY DEF Init
<1>3. CountInv
  BY <1>1 DEF CountInv, OneRequest, CountIsCurrent, Asking
<1>4. FormInv
  BY <1>1, PristineWithin, NoneChosen, LimitsAssumption DEF FormInv
<1> QED
  BY <1>1, <1>3, <1>4 DEF Inv, CreationsTyped, NeverTooMany

LEMMA StepOK == Inv /\ [Next]_vars => Inv'
<1> SUFFICES ASSUME Inv, [Next]_vars PROVE Inv'
  OBVIOUS
<1>0. ASSUME FiltersStay, UNCHANGED creations, chosen' = chosen \/ chosen' = {} PROVE Inv'
  BY <1>0, FiltersStayOK, NoneChosen, LimitsAssumption DEF Inv, FormInv, CreationsTyped, NeverTooMany
<1>1. CASE WizardChange
  BY <1>1, ChangeWithin, BecomesOK DEF Inv, FormInv
<1>2. ASSUME NEW c \in creations, Enter(c) PROVE Inv'
  <2>1. Unmount /\ form' = form /\ tab' # "filter" /\ creations' = Orphaned(creations \ {c})
    BY <1>2 DEF Enter
  <2> QED
    BY <2>1, OrphanedOK, UnmountOK
<1>3. CASE Cancel
  <2>1. Unmount /\ form' = form /\ tab' # "filter" /\ creations' = Orphaned(creations)
    BY <1>3 DEF Cancel
  <2> QED
    BY <2>1, OrphanedOK, UnmountOK
<1>4. ASSUME NEW x \in Catalogues, Load(x) \/ LoadAgain(x) \/ LoadFails(x) PROVE Inv'
  BY <1>4, <1>0 DEF Load, LoadAgain, LoadFails, filters, creating, FiltersStay
<1>5. CASE ResetSelection
  BY <1>5, <1>0 DEF ResetSelection, filters, creating, FiltersStay
<1>6. CASE UNCHANGED vars
  BY <1>6, <1>0 DEF vars, filters, creating, FiltersStay
<1> QED
  BY ResetOK, PrimaryOK, PickProblemOK, CreateChosenOK, RequestOK, ShowTabOK, AnswerOK,
     <1>1, <1>2, <1>3, <1>4, <1>5, <1>6 DEF Next, System, WizardChange

LEMMA Invariance == Spec => []Inv
BY InitOK, StepOK, PTL DEF Spec

\* increment, decrement, their limits and the picker's cap (useRoomChoice.ts:248,
\* useProblemPicker): whatever the order of the clicks, the total beside the three numbers is
\* their sum, and all of them stay within their limits.
THEOREM FormStaysWithin == Spec => []FormOK
<1>1. Inv => FormOK
  BY DEF Inv, FormInv, Within, Forms, FormOK
<1> QED
  BY Invariance, <1>1, PTL

\* The effect of useRoomChoice.ts:233 and its cleanup: an answer to an older question is
\* never shown as the number of the filters that are chosen.
THEOREM CountStaysCurrent == Spec => []CountIsCurrent
<1>1. Inv => CountIsCurrent
  BY DEF Inv, CountInv
<1> QED
  BY Invariance, <1>1, PTL

\* handlePrimaryAction: no creation asks for more problems than match its filters, unless
\* their number was not known.
THEOREM NeverAsksForTooMany == Spec => []NeverTooMany
<1>1. Inv => NeverTooMany
  BY DEF Inv
<1> QED
  BY Invariance, <1>1, PTL
=============================================================================
