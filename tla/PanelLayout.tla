---------------------------- MODULE PanelLayout ----------------------------
(***************************************************************************)
(* The panel that contentScript.js adds to a LeetCode page: its width, its *)
(* folded and maximized forms, which survive reloads in chrome.storage,    *)
(* the highlight it shares with LeetCode's own tabsets, and its theme.     *)
(*                                                                         *)
(* The pages inside the panel ask for changes by messages (messageScript), *)
(* and an unfolding reads the storage before it acts.  A width is stored   *)
(* as a fraction of the window's width.                                    *)
(***************************************************************************)
EXTENDS Integers, Sequences

CONSTANTS
    Windows,     \* widths of the window
    DragWidths,  \* widths the pointer asks for
    Themes,      \* dark, light
    Tabsets,     \* LeetCode's tabsets
    MaxInputs    \* bound: what the user and LeetCode do

MinPanelWidth == 36
CollapseWidth == 120
MinExpandWidth == CollapseWidth + 40
LegacyWidth == 384

ASSUME WindowsAssumption == \A w \in Windows : w \in Int /\ w > MinExpandWidth
ASSUME DragAssumption == DragWidths \subseteq Int
ASSUME LayoutBoundAssumption == MaxInputs \in Nat

VARIABLES
    win,     \* window.innerWidth
    view,    \* the panel's style: width, position: fixed, the handle shown
    mem,     \* panelFolded, panelMaximized, panelWidthFraction, preMaximizeFraction
    stored,  \* the same in storage.local
    msgs,    \* messages from the pages in the panel
    unfolds, \* fractions that UNFOLD has read and not yet applied
    frame,   \* a frame is requested after the window's resize
    dragging,
    active,  \* script: panelActive; shown: isActive in the panel; tabset: LeetCode's active one
    notes,   \* NOT_ACTIVE messages to the panel
    theme,   \* pref: themePreference; lc: LeetCode's theme; shown: that of the panel
    reads,   \* the content script's reads of themePreference whose callbacks are to run
    start,   \* the panel's own read: pending, early (others came after it) or late
    inputs,
    before   \* history: the width the panel was folded from, 0 if that is not to come back

layout == <<view, mem, stored, unfolds, before>>
highlight == <<active, notes>>
look == <<theme, reads, start>>
vars == <<win, layout, msgs, frame, dragging, highlight, look, inputs>>

Least(a, b) == IF a < b THEN a ELSE b
Most(a, b) == IF a > b THEN a ELSE b

\* Math.round(f * w)
Px(f, w) == (2 * f.n * w + f.d) \div (2 * f.d)

NoFraction == [n |-> 0, d |-> 1]
Quarter == [n |-> 1, d |-> 4]

\* applyPanelWidth, clampWidth
Clamped(px) == Most(MinPanelWidth, Least(win, px))

Input == inputs < MaxInputs /\ inputs' = inputs + 1

----------------------------------------------------------------------------
(* The width.                                                              *)

\* The fraction of the width that older versions stored: 0.05 to 1.
LegacyFraction ==
    IF 20 * LegacyWidth < win THEN [n |-> 1, d |-> 20] ELSE [n |-> Least(LegacyWidth, win), d |-> win]

\* initPanelWidth: the fraction stored, or the width older versions stored.
Restored(s) ==
    LET frac == IF s.frac.n > 0 THEN s.frac ELSE LegacyFraction
    IN  [folded |-> s.folded \/ Px(frac, win) <= CollapseWidth, maximized |-> s.maximized,
         frac |-> frac, pre |-> IF s.pre.n > 0 THEN s.pre ELSE Quarter]

\* applyMaximizedLayout
Fullscreen == [width |-> win, fixed |-> TRUE, handle |-> FALSE]

\* The style a page starts with.
InitialView(m) ==
    IF m.maximized THEN Fullscreen
      ELSE [width |-> IF m.folded THEN MinPanelWidth ELSE Px(m.frac, win), fixed |-> FALSE, handle |-> TRUE]

NothingStored == [folded |-> FALSE, maximized |-> FALSE, frac |-> NoFraction, pre |-> NoFraction]
NobodyActive == [script |-> FALSE, shown |-> FALSE, tabset |-> "none"]

Init ==
    /\ win \in Windows
    /\ mem = Restored(NothingStored) /\ view = InitialView(mem)
    /\ stored = [NothingStored EXCEPT !.frac = mem.frac]
    /\ msgs = <<>> /\ unfolds = <<>> /\ frame = FALSE /\ dragging = FALSE
    /\ active \in [script : {FALSE}, shown : {FALSE}, tabset : Tabsets]
    /\ notes = 0
    /\ theme \in [pref : {"auto"}, lc : Themes, shown : Themes]
    /\ reads = <<"sync">> /\ start = "pending"
    /\ inputs = 0 /\ before = 0

\* The page is loaded again: only the storage is kept.
Reload ==
    /\ Input
    /\ mem' = Restored(stored) /\ view' = InitialView(mem')
    /\ stored' = [stored EXCEPT !.frac = mem'.frac]
    /\ msgs' = <<>> /\ unfolds' = <<>> /\ frame' = FALSE /\ dragging' = FALSE
    /\ \E t \in Tabsets : active' = [NobodyActive EXCEPT !.tabset = t]
    /\ notes' = 0 /\ reads' = <<"sync">> /\ start' = "pending"
    /\ UNCHANGED <<win, theme, before>>

\* Mutant: folding stores the folded width as the fraction to come back to.
SetPanelWidthForgets(m, px, fold) ==
    LET w == IF fold THEN Clamped(MinPanelWidth) ELSE Clamped(px)
        max == m.maximized /\ (fold \/ w >= win - 1)
        frac == [n |-> w, d |-> win]
    IN  /\ view' = [view EXCEPT !.width = w]
        /\ mem' = [folded |-> fold, maximized |-> max, frac |-> frac, pre |-> m.pre]
        /\ stored' = [folded |-> fold, maximized |-> max, frac |-> frac, pre |-> stored.pre]

\* setPanelWidth: a width short of the window's ends the maximized form.
SetPanelWidth(m, px, fold) ==
    LET w == IF fold THEN Clamped(MinPanelWidth) ELSE Clamped(px)
        max == m.maximized /\ (fold \/ w >= win - 1)
        frac == IF fold THEN m.frac ELSE [n |-> w, d |-> win]
    IN  /\ view' = [view EXCEPT !.width = w]
        /\ mem' = [folded |-> fold, maximized |-> max, frac |-> frac, pre |-> m.pre]
        /\ stored' = [folded |-> fold, maximized |-> max, frac |-> frac, pre |-> stored.pre]

\* Mutant: a narrow width is set as it is.
RequestWidthUnchecked(m, px) == SetPanelWidth(m, px, FALSE)

\* requestWidth: a width that is too narrow to be used folds the panel.
RequestWidth(m, px) == SetPanelWidth(m, px, px <= CollapseWidth)

\* beginDrag and pointermove.
Drag(x) ==
    /\ Input /\ view.handle
    /\ dragging' = TRUE
    /\ RequestWidth(mem, Clamped(x))
    /\ before' = 0
    /\ UNCHANGED <<win, msgs, unfolds, frame, highlight, look>>

EndDrag ==
    /\ dragging
    /\ dragging' = FALSE
    /\ UNCHANGED <<win, layout, msgs, frame, highlight, look, inputs>>

\* The window is resized; a frame is requested.
Resize(w) ==
    /\ Input /\ w # win
    /\ win' = w /\ frame' = TRUE /\ before' = 0
    /\ UNCHANGED <<view, mem, stored, unfolds, msgs, dragging, highlight, look>>

\* The frame after a resize of the window, or one after a change of LeetCode's content.
MaySync == frame \/ ~dragging

\* Mutant: the maximized panel keeps the width it has.
SyncKeepsMaximized ==
    /\ MaySync
    /\ frame' = FALSE
    /\ IF mem.folded \/ mem.maximized THEN UNCHANGED <<view, mem, stored>>
         ELSE RequestWidth(mem, Px(mem.frac, win))
    /\ UNCHANGED <<win, unfolds, before, msgs, dragging, highlight, look, inputs>>

\* syncPanelWidth
Sync ==
    /\ MaySync
    /\ frame' = FALSE
    /\ IF mem.folded THEN UNCHANGED <<view, mem, stored>>
         ELSE IF mem.maximized
           THEN view' = [view EXCEPT !.width = win] /\ UNCHANGED <<mem, stored>>
           ELSE RequestWidth(mem, Px(mem.frac, win))
    /\ UNCHANGED <<win, unfolds, before, msgs, dragging, highlight, look, inputs>>

\* The buttons of the header, and of the sidebar.
HeaderOffers == {"FOLD", "MAXIMIZE"}
SidebarOffers == {"UNFOLD", "MAXIMIZE"}

\* The pages show the sidebar when their width is at most 36 (useIsFolded).
Offered == IF view.width <= MinPanelWidth THEN SidebarOffers ELSE HeaderOffers

\* messageScript
Click(type) ==
    /\ Input /\ type \in Offered
    /\ msgs' = Append(msgs, type)
    /\ UNCHANGED <<win, layout, frame, dragging, highlight, look>>

Receive(type) == msgs # <<>> /\ Head(msgs) = type /\ msgs' = Tail(msgs)

Fold ==
    /\ Receive("FOLD")
    /\ SetPanelWidth(mem, MinPanelWidth, TRUE)
    /\ before' = IF mem.folded THEN before
                  ELSE IF mem.maximized \/ frame \/ unfolds # <<>> THEN 0 ELSE view.width
    /\ UNCHANGED <<win, unfolds, frame, dragging, highlight, look, inputs>>

\* UNFOLD reads the storage first.
Unfold ==
    /\ Receive("UNFOLD")
    /\ unfolds' = Append(unfolds, stored.frac)
    /\ UNCHANGED <<win, view, mem, stored, before, frame, dragging, highlight, look, inputs>>

UnfoldFinish ==
    LET frac == IF Head(unfolds).n > 0 THEN Head(unfolds) ELSE mem.frac
    IN  /\ unfolds # <<>>
        /\ unfolds' = Tail(unfolds)
        /\ RequestWidth([mem EXCEPT !.frac = frac], Most(MinExpandWidth, Px(frac, win)))
        /\ before' = 0
        /\ UNCHANGED <<win, msgs, frame, dragging, highlight, look, inputs>>

\* MAXIMIZE: to the whole window and back; the fraction itself is not stored.
Maximize ==
    /\ Receive("MAXIMIZE")
    /\ IF mem.maximized
         THEN /\ mem' = [mem EXCEPT !.folded = FALSE, !.maximized = FALSE, !.frac = mem.pre]
              /\ view' = [width |-> Most(MinExpandWidth, Px(mem.pre, win)), fixed |-> FALSE, handle |-> TRUE]
              /\ stored' = [stored EXCEPT !.folded = FALSE, !.maximized = FALSE]
         ELSE /\ mem' = [folded |-> FALSE, maximized |-> TRUE, frac |-> [n |-> 1, d |-> 1], pre |-> mem.frac]
              /\ view' = Fullscreen
              /\ stored' = [stored EXCEPT !.folded = FALSE, !.maximized = TRUE, !.pre = mem.frac]
    /\ before' = 0
    /\ UNCHANGED <<win, unfolds, frame, dragging, highlight, look, inputs>>

----------------------------------------------------------------------------
(* The highlight.                                                          *)

\* A press on the panel: isActive, and ACTIVE to the content script.
PressPanel ==
    /\ Input
    /\ active' = [active EXCEPT !.shown = TRUE]
    /\ msgs' = Append(msgs, "ACTIVE")
    /\ UNCHANGED <<win, layout, frame, dragging, notes, look>>

\* ACTIVE: LeetCode's tabset loses its class, unless the panel is active already.
Activate ==
    /\ Receive("ACTIVE")
    /\ active' = IF active.script THEN active ELSE [active EXCEPT !.script = TRUE, !.tabset = "none"]
    /\ UNCHANGED <<win, layout, frame, dragging, notes, look, inputs>>

\* Mutant: the content script still takes the panel for active.
PressTabsetKeepsPanel(t) ==
    /\ Input
    /\ active' = [active EXCEPT !.tabset = t]
    /\ notes' = notes + 1
    /\ UNCHANGED <<win, layout, msgs, frame, dragging, look>>

\* A press on a tabset of LeetCode, or a new tab in one: removeActive, NOT_ACTIVE.
PressTabset(t) ==
    /\ Input
    /\ active' = [active EXCEPT !.script = FALSE, !.tabset = t]
    /\ notes' = notes + 1
    /\ UNCHANGED <<win, layout, msgs, frame, dragging, look>>

\* useIsActive
NotActive ==
    /\ notes > 0
    /\ notes' = notes - 1
    /\ active' = [active EXCEPT !.shown = FALSE]
    /\ UNCHANGED <<win, layout, msgs, frame, dragging, look, inputs>>

----------------------------------------------------------------------------
(* The theme.                                                              *)

\* getResolvedTheme, unless a preference is stored.
Resolved(t) == IF t.pref = "auto" THEN t.lc ELSE t.pref

Preferences == Themes \cup {"auto"}

\* useThemeSync, when the panel starts: the preference or, without one, light if that is
\* what the system prefers, whatever LeetCode shows.
StartTheme ==
    /\ start = "pending"
    /\ start' = IF reads = <<>> THEN "late" ELSE "early"
    /\ \E x \in IF theme.pref = "auto" THEN {theme.shown, "light"} ELSE {theme.pref} :
         theme' = [theme EXCEPT !.shown = x]
    /\ UNCHANGED <<win, layout, msgs, frame, dragging, highlight, reads, inputs>>

\* setThemePreference: storage.onChanged runs syncTheme, and useThemeSync, which ignores auto.
PreferTheme(p) ==
    /\ Input /\ p # theme.pref
    /\ theme' = [theme EXCEPT !.pref = p, !.shown = IF p = "auto" THEN @ ELSE p]
    /\ reads' = Append(reads, "sync")
    /\ UNCHANGED <<win, layout, msgs, frame, dragging, highlight, start>>

\* LeetCode, or the system, changes its theme.
LeetCodeTheme(x) ==
    /\ Input /\ x # theme.lc
    /\ theme' = [theme EXCEPT !.lc = x]
    /\ reads' = Append(reads, "auto")
    /\ UNCHANGED <<win, layout, msgs, frame, dragging, highlight, start>>

\* Mutant: a change of LeetCode's theme is shown whatever is preferred.
ShowThemeAlways ==
    /\ reads # <<>>
    /\ reads' = Tail(reads)
    /\ theme' = [theme EXCEPT !.shown = IF Head(reads) = "sync" THEN Resolved(theme) ELSE theme.lc]
    /\ start' = IF start = "late" THEN "early" ELSE start
    /\ UNCHANGED <<win, layout, msgs, frame, dragging, highlight, inputs>>

\* The callback of a read: syncTheme, or the observers, which act on auto only;
\* sendThemeToIframe.
ShowTheme ==
    /\ reads # <<>>
    /\ reads' = Tail(reads)
    /\ theme' = [theme EXCEPT !.shown = IF Head(reads) = "sync" \/ theme.pref = "auto"
                                          THEN Resolved(theme) ELSE @]
    /\ start' = IF start = "late" THEN "early" ELSE start
    /\ UNCHANGED <<win, layout, msgs, frame, dragging, highlight, inputs>>

----------------------------------------------------------------------------
Next ==
    \/ Reload
    \/ \E x \in DragWidths : Drag(x)
    \/ EndDrag
    \/ \E w \in Windows : Resize(w)
    \/ Sync
    \/ \E type \in HeaderOffers \cup SidebarOffers : Click(type)
    \/ Fold \/ Unfold \/ UnfoldFinish \/ Maximize
    \/ PressPanel \/ Activate \/ NotActive
    \/ \E t \in Tabsets : PressTabset(t)
    \/ StartTheme
    \/ \E p \in Preferences : PreferTheme(p)
    \/ \E x \in Themes : LeetCodeTheme(x)
    \/ ShowTheme

Spec == Init /\ [][Next]_vars

----------------------------------------------------------------------------
\* "instead of leaving the layout squeezed in the dead zone between 36px and
\* COLLAPSE_WIDTH": whatever the drags, resizes, reloads and clicks, the panel is the
\* sidebar or wide enough to be used.
NoDeadZone == view.width = MinPanelWidth \/ view.width > CollapseWidth

\* The panel looks the way the script takes it for: folded, it is the sidebar; unfolded,
\* it can be used and fits the window, as soon as the frame after a resize has run.
\* (A panel that was folded while maximized is fullscreen after a reload.)
PanelFits ==
    ~(mem.folded /\ mem.maximized) =>
      /\ mem.folded <=> view.width = MinPanelWidth
      /\ frame \/ view.width <= win

\* "When folding, the last expanded fraction is preserved so Unfold can restore it":
\* also after a reload, unfolding brings back the width the panel was folded from.  (An
\* UNFOLD that read the storage before that folding applies what it read.)
UnfoldRestores ==
    [][UnfoldFinish /\ before # 0 => view'.width = Most(MinExpandWidth, before)]_vars

\* When no message is on its way, the panel and a tabset of LeetCode are not both
\* highlighted, in whatever order they were pressed.
OneHighlighted == msgs = <<>> /\ notes = 0 => ~(active.shown /\ active.tabset # "none")

\* When all reads have been answered, the panel shows the theme that is preferred, or
\* LeetCode's.  (Without a preference, the panel's own read at its start may come last, and
\* show the system's theme.)
ThemeFollows ==
    reads = <<>> /\ start # "pending" /\ ~(start = "late" /\ theme.pref = "auto")
    => theme.shown = Resolved(theme)
=============================================================================
