------------------------------ MODULE NavMenus ------------------------------
(***************************************************************************)
(* What opens and closes in the navigation bar (navbar.component.ts,       *)
(* dismiss.ts, nav-submenu.component.ts, notification-bell.component.ts):  *)
(* the panel of small screens, the groups and "Altro", the languages, the  *)
(* accordions and the bell, with the pile Escape takes them from.  The     *)
(* application is zoneless: signals change at once, the effects that       *)
(* follow them run later, all together (FlushMarks).                       *)
(***************************************************************************)
EXTENDS Naturals, Sequences, SequencesExt, FilteredSequences

CONSTANTS
  Headers,     \* the menus the resolver may answer: sequences of [key, group, authOnly]
  Rooms,       \* how many entries the row may have room for
  MaxResolves  \* bound: times the header is resolved again

\* Whatever the entries of a header are; a row has room for one at least, which may be "Altro".
MenuEntries == UNION {ToSet(h) : h \in Headers}

ASSUME MenuAssumption == Headers \subseteq Seq(MenuEntries) /\ Rooms \subseteq Nat \ {0}

VARIABLES
  header,      \* ShellNavService.header(): the menu before the filter on the login
  loggedIn,    \* TokenService.isLoggedIn()
  device,      \* "mobile" (below md) or "wide"; one that hovers has no taps on accordions
  room,        \* how many entries the row has room for
  visibleCount,
  altroIndex,  \* altroDropdownIndex, fixed when the component is built
  menuOpen,
  dropdown,    \* openDropdownIndex, 0 for none
  langOpen,
  switching,   \* applyLanguageSwitch waits for the catalogue
  expanded,    \* the groups whose accordion is open
  bellOpen,
  pile,        \* the layers of dismiss.ts, the last one on top
  inert,       \* the rest of the page has the attribute inert
  recorded,    \* inertSiblings is not empty: the elements to give back
  moved,       \* menuOpen has changed since its effect ran
  collapsing,  \* collapseAll has changed since the accordions read it
  pending,     \* some effect has to run
  resolves

menuVars == <<header, loggedIn, device, room, visibleCount, altroIndex, menuOpen, dropdown, langOpen, switching, expanded,
              bellOpen, pile, inert, recorded, moved, collapsing, pending, resolves>>
row == <<header, loggedIn, device, room>>
pageMarks == <<visibleCount, pile, inert, recorded>>

Items == Among(header, {e \in ToSet(header) : loggedIn \/ ~e.authOnly})
Groups == {i \in 1..Len(Items) : Items[i].group}
Overflowing == Len(Items) > visibleCount

\* recomputeOverflow: below md all of them; from md up those that fit, once the toggle of
\* "Altro" has taken its place.
RowFits(reserved) == IF device = "mobile" \/ Len(Items) <= room THEN Len(Items) ELSE room - reserved
Fitting == RowFits(1)

-----------------------------------------------------------------------------
(* The pile *)

Open == (IF dropdown # 0 \/ langOpen THEN {"dropdowns"} ELSE {})
        \cup (IF menuOpen THEN {"menu"} ELSE {}) \cup (IF bellOpen THEN {"bell"} ELSE {})

\* A slip in which a layer is never taken off the pile.
OnlyPushed == pile \o Among(<<"dropdowns", "menu", "bell">>, Open \ ToSet(pile))
\* The effect of each injectDismiss, in the order they were created
Piled == Among(pile, Open) \o Among(<<"dropdowns", "menu", "bell">>, Open \ ToSet(pile))

-----------------------------------------------------------------------------
(* What the handlers do to the signals *)

SetMenu(open) ==
  /\ menuOpen' = open
  /\ moved' = (moved \/ open # menuOpen)
KeepMenu == UNCHANGED <<menuOpen, moved>>
CloseAllDropdowns ==
  /\ dropdown' = 0 /\ langOpen' = FALSE
  /\ collapsing' = TRUE
KeepDropdowns == UNCHANGED <<dropdown, langOpen, collapsing>>
\* A click that is not on the bell closes it: it is outside its host.
CloseBell == bellOpen' = FALSE
Later == pending' = TRUE /\ UNCHANGED pageMarks

MenuInit ==
  /\ header \in Headers /\ loggedIn \in BOOLEAN
  /\ device \in {"mobile", "wide"} /\ room \in Rooms
  /\ visibleCount = Len(Items) /\ altroIndex = Len(header) + 1
  /\ menuOpen = FALSE /\ dropdown = 0 /\ langOpen = FALSE /\ switching = FALSE
  /\ expanded = {} /\ bellOpen = FALSE
  /\ pile = <<>> /\ inert = FALSE /\ recorded = FALSE
  /\ moved = FALSE /\ collapsing = FALSE /\ pending = TRUE /\ resolves = 0

\* toggleMenu: the toggler is there below md
ToggleMenu ==
  /\ device = "mobile"
  /\ SetMenu(~menuOpen)
  /\ IF menuOpen THEN CloseAllDropdowns ELSE KeepDropdowns
  /\ CloseBell /\ Later
  /\ UNCHANGED <<row, altroIndex, switching, expanded, resolves>>

\* The group of an entry, or "Altro": those that can be seen
Clickable == IF device = "mobile" THEN IF menuOpen THEN Groups ELSE {}
             ELSE {i \in Groups : i <= visibleCount} \cup (IF Overflowing THEN {altroIndex} ELSE {})
\* onNavDropdownToggle
ToggleGroup(i) ==
  /\ i \in Clickable
  /\ dropdown' = IF dropdown = i THEN 0 ELSE i
  /\ langOpen' = FALSE
  /\ CloseBell /\ Later /\ KeepMenu
  /\ UNCHANGED <<row, altroIndex, switching, expanded, collapsing, resolves>>

ToggleLang ==
  /\ dropdown' = 0 /\ langOpen' = ~langOpen
  /\ CloseBell /\ Later /\ KeepMenu
  /\ UNCHANGED <<row, altroIndex, switching, expanded, collapsing, resolves>>

\* NavSubmenuComponent.toggle: a tap on an accordion of the group that is open
ToggleSubmenu ==
  /\ dropdown \in Groups
  /\ LET key == Items[dropdown].key
     IN expanded' = IF key \in expanded THEN expanded \ {key} ELSE expanded \cup {key}
  /\ CloseBell /\ Later /\ KeepMenu /\ KeepDropdowns
  /\ UNCHANGED <<row, altroIndex, switching, resolves>>

\* NotificationBellComponent.toggle: the bell is inside the panel
ToggleBell ==
  /\ device = "mobile" => menuOpen
  /\ bellOpen' = ~bellOpen
  /\ Later /\ KeepMenu /\ KeepDropdowns
  /\ UNCHANGED <<row, altroIndex, switching, expanded, resolves>>

\* A click on a link of the bar closes it; a click elsewhere closes what drops down from it,
\* but there is no elsewhere beside the panel of a small screen.
ClickLink ==
  /\ SetMenu(FALSE) /\ CloseAllDropdowns
  /\ CloseBell /\ Later
  /\ UNCHANGED <<row, altroIndex, switching, expanded, resolves>>
ClickOutside ==
  /\ ~menuOpen
  /\ IF dropdown # 0 \/ langOpen THEN CloseAllDropdowns ELSE KeepDropdowns
  /\ CloseBell /\ Later /\ KeepMenu
  /\ UNCHANGED <<row, altroIndex, switching, expanded, resolves>>

\* The navigation that ends, wherever it came from: the bell is not told.
Navigated ==
  /\ SetMenu(FALSE) /\ CloseAllDropdowns
  /\ Later
  /\ UNCHANGED <<row, altroIndex, switching, expanded, bellOpen, resolves>>

\* setLanguage waits for the catalogue, then goes to the page and closes the bar.
SwitchLanguage ==
  /\ langOpen /\ ~switching
  /\ switching' = TRUE
  /\ CloseBell /\ Later /\ KeepMenu /\ KeepDropdowns
  /\ UNCHANGED <<row, altroIndex, expanded, resolves>>
LanguageApplied ==
  /\ switching /\ switching' = FALSE
  /\ SetMenu(FALSE) /\ CloseAllDropdowns
  /\ Later
  /\ UNCHANGED <<row, altroIndex, expanded, bellOpen, resolves>>

\* Escape closes the layer on top.
Escape ==
  /\ pile # <<>>
  /\ CASE Last(pile) = "dropdowns" -> CloseAllDropdowns /\ KeepMenu /\ UNCHANGED bellOpen
       [] Last(pile) = "menu" -> SetMenu(FALSE) /\ CloseAllDropdowns /\ UNCHANGED bellOpen
       [] Last(pile) = "bell" -> bellOpen' = FALSE /\ KeepMenu /\ KeepDropdowns
  /\ Later
  /\ UNCHANGED <<row, altroIndex, switching, expanded, resolves>>

\* The window changes: from md up the panel closes, and it alone; the observer measures.
Resize(d, n) ==
  /\ <<d, n>> # <<device, room>>
  /\ device' = d /\ room' = n
  /\ IF d # "mobile" THEN SetMenu(FALSE) ELSE KeepMenu
  /\ Later /\ KeepDropdowns
  /\ UNCHANGED <<header, loggedIn, altroIndex, switching, expanded, bellOpen, resolves>>

\* A login or a logout, and the answer of the resolver to it
LoginChanges ==
  /\ resolves < MaxResolves
  /\ loggedIn' = ~loggedIn
  /\ resolves' = resolves + 1
  /\ Later /\ KeepMenu /\ KeepDropdowns
  /\ UNCHANGED <<header, device, room, altroIndex, switching, expanded, bellOpen>>
Resolves(h) ==
  /\ resolves < MaxResolves /\ h # header
  /\ header' = h
  /\ resolves' = resolves + 1
  /\ Later /\ KeepMenu /\ KeepDropdowns
  /\ UNCHANGED <<loggedIn, device, room, altroIndex, switching, expanded, bellOpen>>

\* setBackgroundInert: the siblings that are not inert yet are made so and recorded; those
\* that were recorded are given back.
SetBackgroundInert ==
  IF menuOpen THEN /\ recorded' = ~inert
                   /\ inert' = TRUE
  ELSE /\ inert' = (inert /\ ~recorded)
       /\ recorded' = FALSE

\* The effects, once for all the changes before them.  An effect whose signal has changed runs,
\* even where the signal has come back to its value.
FlushMarks ==
  /\ pending
  /\ pending' = FALSE /\ moved' = FALSE /\ collapsing' = FALSE
  /\ pile' = Piled
  /\ IF moved THEN SetBackgroundInert ELSE UNCHANGED <<inert, recorded>>
  /\ expanded' = IF collapsing THEN {} ELSE expanded
  /\ visibleCount' = Fitting
  /\ UNCHANGED <<row, altroIndex, menuOpen, dropdown, langOpen, switching, bellOpen, resolves>>

MenuNext ==
  \/ ToggleMenu \/ ToggleLang \/ ToggleSubmenu \/ ToggleBell
  \/ \E i \in Clickable : ToggleGroup(i)
  \/ ClickLink \/ ClickOutside \/ Navigated
  \/ SwitchLanguage \/ LanguageApplied
  \/ Escape
  \/ \E d \in {"mobile", "wide"}, n \in Rooms : Resize(d, n)
  \/ LoginChanges \/ \E h \in Headers : Resolves(h)
  \/ FlushMarks

MenuSpec == MenuInit /\ [][MenuNext]_menuVars

-----------------------------------------------------------------------------
(* Properties *)

\* Once the effects have run, each Escape closes something that is open and nothing that is
\* open escapes it: the pile is what is open, whoever opened or closed it (dismiss.ts,
\* "Escape chiude solo il pannello più recente della pila").
EscapeTakesWhatIsOpen ==
  ~pending => /\ ToSet(pile) = Open
              /\ IsInjective(pile)

\* Once the effects have run, every entry can be reached: the row never holds more than it has
\* room for, and below md, where "Altro" has no place, no entry is left out (they would be
\* inert), after any resize, login and answer of the resolver.
EntriesAreReachable ==
  ~pending => /\ device = "mobile" => ~Overflowing
              /\ device = "wide" => visibleCount + (IF Overflowing THEN 1 ELSE 0) <= room

\* Whatever sizes, logins, clicks and answers of the resolver come in between, what is open
\* can be closed and what is there can be reached (navbar.component.ts, dismiss.ts).
MenusSafe == EscapeTakesWhatIsOpen /\ EntriesAreReachable

\* Nothing is twice in the pile, and the row has its sizes, while the effects wait as well.
MenuIInv ==
  /\ header \in Headers /\ room \in Rooms /\ device \in {"mobile", "wide"}
  /\ pile \in Seq({"dropdowns", "menu", "bell"}) /\ IsInjective(pile)
  /\ MenusSafe

\* navbar.component.ts:199: the page would stay inert without a visible menu.  Once the
\* effects have run, the page is inert only behind the panel.
PageComesBack == ~pending /\ inert => menuOpen

\* navbar.component.ts:133: the index of "Altro" "non collide mai con un indice reale del menu
\* filtrato": a click opens one menu.
OneMenuAtATime == ~pending /\ Overflowing => altroIndex \notin Groups
=============================================================================
