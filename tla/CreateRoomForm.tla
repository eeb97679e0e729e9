--------------------------- MODULE CreateRoomForm ---------------------------
(***************************************************************************)
(* The create-room page of the extension's panel: the filter wizard        *)
(* (useRoomChoice, filter-problems-tab), the picker of problems            *)
(* (useProblemPicker, choose-problems-tab) and the requests of createRoom  *)
(* (useRoomInit).                                                          *)
(*                                                                         *)
(* Every change of the filters runs an effect that looks the number of     *)
(* matching problems up, in a cache or, 300 ms later, on the server; the   *)
(* effect's cleanup aborts the request before it.  The tab that is not     *)
(* shown is not mounted: its state is gone, what it has sent goes on.      *)
(***************************************************************************)
EXTENDS Integers, FiniteSets

CONSTANTS
    Topics, Companies, \* what can be selected
    Problems,          \* the catalogue of the picker
    Pool(_),           \* how many problems match the filters of a key
    MaxProblems,       \* problems a round may ask for
    MaxChosen,         \* MAX_CHOSEN_PROBLEMS
    MaxRetries,        \* retries after 429
    LastStep,          \* LAST_STEP of the wizard
    MaxInputs,         \* bound: what the user does
    MaxFaults          \* bound: failed requests

ASSUME LimitsAssumption ==
    /\ MaxProblems \in Nat \ {0} /\ MaxChosen \in Nat \ {0}
    /\ MaxRetries \in Nat /\ LastStep \in Nat
ASSUME FormBoundsAssumption == MaxInputs \in Nat /\ MaxFaults \in Nat

Levels == {"easy", "medium", "hard"}
NoCount == -1
Flags == {"blind75", "neetcode150", "excludePaid"}
Catalogues == {"topics", "companies", "problems"}

\* What the number of matching problems depends on.
Keys == [difficulties : SUBSET Levels, topics : SUBSET Topics, companies : SUBSET Companies,
         flags : SUBSET Flags, recent : BOOLEAN]

ASSUME PoolAssumption == \A k \in Keys : Pool(k) \in Nat

VARIABLES
    tab,        \* the tab shown: filter, choose; or where the panel went: left, room
    form,       \* the state of the filter wizard
    chosen,     \* the problems picked in the other tab
    submitting, \* isSubmittingCreate of the tab shown
    count,      \* availableCount
    loading,    \* isLoadingFilter
    requests,   \* the effect's request for the number of problems
    cache,      \* useProblemCountStore: the keys whose number is known
    lists,      \* topics, companies and problems: loading, loaded or failed
    creations,  \* createRoom calls under way
    rooms,      \* rooms those calls created that nobody has entered
    inputs, faults,
    failed      \* history: the last request for the number failed

filters == <<form, count, loading, requests, cache, failed>>
creating == <<creations, rooms>>
vars == <<tab, filters, chosen, submitting, lists, creating, inputs, faults>>

Sum(num) == num["easy"] + num["medium"] + num["hard"]

\* resetFilters, and the state a mounted tab starts with.
PristineForm ==
    [num |-> [l \in Levels |-> IF l = "easy" THEN 1 ELSE 0], total |-> 1, any |-> FALSE,
     anyCount |-> 1, topics |-> {}, companies |-> {}, flags |-> {"excludePaid"}, recent |-> FALSE,
     step |-> 0, touched |-> FALSE]

\* activeDifficulties
Difficulties(f) == IF f.any THEN {} ELSE {l \in Levels : f.num[l] > 0}

\* buildProblemCountKey; the order of the choices does not matter.
Key(f) ==
    [difficulties |-> Difficulties(f),
     topics |-> f.topics, companies |-> f.companies, flags |-> f.flags, recent |-> f.recent]

\* requestedTotal
Requested(f) == IF f.any THEN f.anyCount ELSE Sum(f.num)

Loading == [at |-> "loading", attempt |-> 0]
Asking(k) == [key |-> k, at |-> "debounce"]

Init ==
    /\ tab = "filter" /\ form = PristineForm /\ chosen = {} /\ submitting = FALSE
    /\ count = NoCount /\ loading = TRUE /\ requests = {Asking(Key(PristineForm))} /\ cache = {}
    /\ lists = [c \in Catalogues |-> IF c = "problems" THEN [Loading EXCEPT !.at = "idle"] ELSE Loading]
    /\ creations = {} /\ rooms = 0
    /\ inputs = 0 /\ faults = 0 /\ failed = FALSE

Input == inputs < MaxInputs /\ inputs' = inputs + 1
Fault == faults < MaxFaults /\ faults' = faults + 1

----------------------------------------------------------------------------
(* The number of matching problems.                                        *)

\* Mutant: the cleanup does not abort the request before.
LookUpKeepsOld(k) ==
    IF k \in cache
      THEN count' = Pool(k) /\ loading' = FALSE /\ UNCHANGED requests
      ELSE loading' = TRUE /\ requests' = requests \cup {Asking(k)} /\ UNCHANGED count

\* Mutant: a number found in the cache leaves the button loading.
LookUpStaysLoading(k) ==
    IF k \in cache
      THEN count' = Pool(k) /\ requests' = {} /\ UNCHANGED loading
      ELSE loading' = TRUE /\ requests' = {Asking(k)} /\ UNCHANGED count

\* The effect that depends on the filters, its cleanup first.
LookUp(k) ==
    IF k \in cache
      THEN count' = Pool(k) /\ loading' = FALSE /\ requests' = {}
      ELSE loading' = TRUE /\ requests' = {Asking(k)} /\ UNCHANGED count

\* The form becomes f; recentlyAsked goes with the last company.
Becomes(f) ==
    LET g == [f EXCEPT !.recent = @ /\ f.companies # {}]
    IN  /\ form' = g
        /\ IF Key(g) = Key(form) THEN UNCHANGED <<count, loading, requests, failed>>
             ELSE LookUp(Key(g)) /\ failed' = FALSE
        /\ UNCHANGED <<tab, chosen, submitting, cache, lists, creating, faults>>

\* 300 ms without another change.
Debounce(r) ==
    /\ r.at = "debounce"
    /\ requests' = (requests \ {r}) \cup {[r EXCEPT !.at = "fetch"]}
    /\ UNCHANGED <<tab, form, count, loading, cache, failed, chosen, submitting, lists, creating,
                   inputs, faults>>

\* GET /problems/count is answered.
Answer(r) ==
    /\ r.at = "fetch"
    /\ requests' = requests \ {r}
    /\ count' = Pool(r.key) /\ loading' = FALSE /\ failed' = FALSE
    /\ cache' = cache \cup {r.key}
    /\ UNCHANGED <<tab, form, chosen, submitting, lists, creating, inputs, faults>>

\* It fails, and the number stays what it was; or no number comes with it.
AnswerFails(r) ==
    /\ Fault /\ r.at = "fetch"
    /\ requests' = requests \ {r}
    /\ loading' = FALSE
    /\ \/ failed' = TRUE /\ UNCHANGED count
       \/ failed' = FALSE /\ count' = NoCount
    /\ UNCHANGED <<tab, form, cache, chosen, submitting, lists, creating, inputs>>

----------------------------------------------------------------------------
(* The wizard.                                                             *)

Wizard == tab = "filter" /\ Input

\* Mutant: the total is compared after it has passed the limit.
IncrementLate(l) ==
    /\ Wizard /\ ~form.any
    /\ IF form.total > MaxProblems THEN Becomes([form EXCEPT !.touched = TRUE])
         ELSE Becomes([form EXCEPT !.touched = TRUE, !.num[l] = @ + 1, !.total = @ + 1])

\* increment
Increment(l) ==
    /\ Wizard /\ ~form.any
    /\ IF form.total >= MaxProblems THEN Becomes([form EXCEPT !.touched = TRUE])
         ELSE Becomes([form EXCEPT !.touched = TRUE, !.num[l] = @ + 1, !.total = @ + 1])

\* decrement
Decrement(l) ==
    /\ Wizard /\ ~form.any
    /\ IF form.total <= 1 \/ form.num[l] <= 0 THEN Becomes([form EXCEPT !.touched = TRUE])
         ELSE Becomes([form EXCEPT !.touched = TRUE, !.num[l] = @ - 1, !.total = @ - 1])

\* The checkbox of any difficulty and its number.
AnyDifficulty ==
    /\ Wizard
    /\ \/ Becomes([form EXCEPT !.touched = TRUE, !.any = ~@])
       \/ Becomes([form EXCEPT !.touched = TRUE, !.anyCount = IF @ < MaxProblems THEN @ + 1 ELSE MaxProblems])
       \/ Becomes([form EXCEPT !.touched = TRUE, !.anyCount = IF @ > 1 THEN @ - 1 ELSE 1])

\* A topic, a company or a list is chosen or given up.
Toggle(set, x) == IF x \in set THEN set \ {x} ELSE set \cup {x}

ChooseTopic(t) ==
    Wizard /\ lists["topics"].at = "loaded" /\ Becomes([form EXCEPT !.topics = Toggle(@, t)])
ChooseCompany(c) ==
    Wizard /\ lists["companies"].at = "loaded" /\ Becomes([form EXCEPT !.companies = Toggle(@, c)])
ChooseFlag(x) == Wizard /\ Becomes([form EXCEPT !.flags = Toggle(@, x)])
ChooseRecent == Wizard /\ form.companies # {} /\ Becomes([form EXCEPT !.recent = ~@])

\* A section of the accordion is opened.
OpenStep(n) == Wizard /\ form.step # n /\ Becomes([form EXCEPT !.step = n])

\* handleReset: its new arrays run the effect again even if nothing else changes.
Reset ==
    /\ Wizard
    /\ form' = PristineForm
    /\ LookUp(Key(PristineForm)) /\ failed' = FALSE
    /\ UNCHANGED <<tab, chosen, submitting, cache, lists, creating, faults>>

----------------------------------------------------------------------------
(* Creating the room.                                                      *)

Create(from, want, key, blind) ==
    /\ submitting' = TRUE
    /\ creations' = creations \cup {[from |-> from, at |-> "room", mine |-> TRUE,
                                     want |-> want, key |-> key, blind |-> blind]}
    /\ UNCHANGED rooms

ShowsCreate == (form.step = 0 /\ ~form.touched) \/ form.step = LastStep
NotEnough == count # NoCount /\ count < Requested(form)

\* Mutant: the button can be pressed while the number is being loaded.
PrimaryWhileLoading ==
    /\ Wizard /\ ~submitting /\ ShowsCreate /\ ~NotEnough
    /\ Create("filter", Requested(form), Key(form), failed \/ count = NoCount)
    /\ UNCHANGED <<tab, filters, chosen, lists, faults>>

\* The button is not disabled.
ButtonFree == ~submitting /\ ~loading /\ ~(ShowsCreate /\ NotEnough)

\* handlePrimaryAction: it creates the room or opens the next section.
Primary ==
    /\ Wizard /\ ButtonFree
    /\ \/ /\ ShowsCreate
          /\ Create("filter", Requested(form), Key(form), failed \/ count = NoCount)
          /\ UNCHANGED form
       \/ /\ ~ShowsCreate
          /\ form' = [form EXCEPT !.step = @ + 1]
          /\ UNCHANGED <<submitting, creating>>
    /\ UNCHANGED <<tab, count, loading, requests, cache, failed, chosen, lists, faults>>

\* selectProblems cuts what is past the cap.
Selected(p) == IF p \in chosen \/ Cardinality(chosen) < MaxChosen THEN Toggle(chosen, p) ELSE chosen

\* The picker offers the problems that were loaded.
PickProblem(p) ==
    /\ tab = "choose" /\ Input /\ lists["problems"].at = "loaded"
    /\ chosen' = Selected(p)
    /\ UNCHANGED <<tab, filters, submitting, lists, creating, faults>>

\* resetSelection
ResetSelection ==
    /\ tab = "choose" /\ chosen # {} /\ Input
    /\ chosen' = {}
    /\ UNCHANGED <<tab, filters, submitting, lists, creating, faults>>

\* The picker's Create button is not disabled.
PickerFree == tab = "choose" /\ ~submitting /\ chosen # {}

\* handleCreateRoom of the picker.
CreateChosen ==
    /\ Input /\ PickerFree
    /\ Create("choose", Cardinality(chosen), Key(form), TRUE)
    /\ UNCHANGED <<tab, filters, chosen, lists, faults>>

Moves(c, d) == creations' = (creations \ {c}) \cup {d}
Settled(c) == creations' = creations \ {c} /\ submitting' = (submitting /\ ~c.mine)

\* POST /rooms, POST /rooms/:id/rounds/create, POST /rooms/:id/join.
Request(c) ==
    /\ \/ c.at = "room" /\ Moves(c, [c EXCEPT !.at = "round"]) /\ rooms' = rooms + 1
       \/ c.at = "round" /\ Moves(c, [c EXCEPT !.at = "join"]) /\ UNCHANGED rooms
       \/ c.at = "join" /\ Moves(c, [c EXCEPT !.at = "enter"]) /\ rooms' = rooms - 1
    /\ UNCHANGED <<tab, filters, chosen, submitting, lists, inputs, faults>>

\* One of them fails: the form shows why, what was created before stays.
RequestFails(c) ==
    /\ c.at # "enter" /\ Fault
    /\ Settled(c)
    /\ UNCHANGED <<tab, filters, chosen, lists, rooms, inputs>>

\* Not mounted, the tab's effects are cleaned up.
Unmount == requests' = {} /\ loading' = FALSE /\ submitting' = FALSE /\ chosen' = {}
Orphaned(set) == {[c EXCEPT !.mine = FALSE] : c \in set}

\* initRoom and the way to the room page, wherever the panel has gone meanwhile.
Enter(c) ==
    /\ c.at = "enter"
    /\ tab' = "room" /\ Unmount
    /\ creations' = Orphaned(creations \ {c})
    /\ UNCHANGED <<form, count, cache, failed, lists, rooms, inputs, faults>>

\* The other tab is shown.
ShowTab(t) ==
    /\ Input /\ tab \in {"filter", "choose"} /\ tab # t
    /\ tab' = t /\ chosen' = {} /\ submitting' = FALSE
    /\ creations' = Orphaned(creations)
    /\ lists' = [x \in Catalogues |->
                   IF (x = "problems") = (t = "choose") THEN Loading ELSE [Loading EXCEPT !.at = "idle"]]
    /\ form' = PristineForm /\ failed' = FALSE
    /\ IF t = "choose" THEN requests' = {} /\ loading' = FALSE /\ count' = NoCount
         ELSE IF Key(PristineForm) \in cache
           THEN count' = Pool(Key(PristineForm)) /\ loading' = FALSE /\ requests' = {}
           ELSE count' = NoCount /\ loading' = TRUE /\ requests' = {Asking(Key(PristineForm))}
    /\ UNCHANGED <<cache, rooms, faults>>

\* Cancel: back to the choice of a room.
Cancel ==
    /\ Input /\ tab \in {"filter", "choose"}
    /\ tab' = "left" /\ Unmount
    /\ creations' = Orphaned(creations)
    /\ UNCHANGED <<form, count, cache, failed, lists, rooms, faults>>

----------------------------------------------------------------------------
(* loadTopics, loadCompanies, loadProblems.                                *)

Load(x) ==
    /\ lists[x].at = "loading"
    /\ lists' = [lists EXCEPT ![x].at = "loaded"]
    /\ UNCHANGED <<tab, filters, chosen, submitting, creating, inputs, faults>>

\* 429 is tried again, after a delay that doubles, three times.
LoadAgain(x) ==
    /\ lists[x].at = "loading" /\ lists[x].attempt < MaxRetries /\ Fault
    /\ lists' = [lists EXCEPT ![x].attempt = @ + 1]
    /\ UNCHANGED <<tab, filters, chosen, submitting, creating, inputs>>

\* Anything else, and another 429, is final.
LoadFails(x) ==
    /\ lists[x].at = "loading" /\ Fault
    /\ lists' = [lists EXCEPT ![x].at = "failed"]
    /\ UNCHANGED <<tab, filters, chosen, submitting, creating, inputs>>

----------------------------------------------------------------------------
System ==
    \/ \E r \in requests : Debounce(r) \/ Answer(r) \/ AnswerFails(r)
    \/ \E c \in creations : Request(c) \/ RequestFails(c) \/ Enter(c)
    \/ \E x \in Catalogues : Load(x) \/ LoadAgain(x) \/ LoadFails(x)

Next ==
    \/ System
    \/ \E l \in Levels : Increment(l) \/ Decrement(l)
    \/ AnyDifficulty
    \/ \E t \in Topics : ChooseTopic(t)
    \/ \E c \in Companies : ChooseCompany(c)
    \/ \E x \in Flags : ChooseFlag(x)
    \/ ChooseRecent
    \/ \E n \in 0..LastStep : OpenStep(n)
    \/ Reset \/ Primary
    \/ \E p \in Problems : PickProblem(p)
    \/ ResetSelection \/ CreateChosen
    \/ \E t \in {"filter", "choose"} : ShowTab(t)
    \/ Cancel

Spec == Init /\ [][Next]_vars

\* Timers fire and every fetch is answered or fails.
FairSpec == Spec /\ WF_vars(System)

----------------------------------------------------------------------------
\* The wizard never asks for no problem or for more than ten: whatever the order of the
\* clicks, the total it keeps beside the three numbers is their sum and stays within the
\* limits; what is picked by hand stays within its cap.
FormOK ==
    /\ form.num \in [Levels -> Nat]
    /\ form.total = Sum(form.num) /\ form.total \in 1..MaxProblems
    /\ form.anyCount \in 1..MaxProblems /\ form.step \in 0..LastStep
    /\ form.recent => form.companies # {}
    /\ IsFiniteSet(chosen) /\ Cardinality(chosen) <= MaxChosen

\* "so the Create/Next button can't be clicked against a count that's about to change":
\* once the button is free, the number on it is that of the filters chosen, not of the
\* filters of an older request, unless its request failed.
CountIsCurrent ==
    tab = "filter" /\ ~loading /\ ~failed => count \in {NoCount, Pool(Key(form))}

\* No creation asks for more problems than match the filters it was made with, unless
\* their number was not known.
NeverTooMany ==
    \A c \in creations : ~c.blind => c.want <= Pool(c.key)

\* The button does not load forever, and every creation ends.
ButtonComesBack == (loading \/ creations # {}) ~> (~loading /\ creations = {})
=============================================================================
