---------------------------- MODULE DesignSystem ----------------------------
(***************************************************************************)
(* A design system from its patches to the page a visitor sees             *)
(* (design-system-presets.ts, siteBuilder.ts, generate-statics.ts,         *)
(* app.component.ts): the patches are merged, the build computes the       *)
(* palette and prints its warnings, the server renders a page, the browser *)
(* takes the tone of the operating system, and pages of other roles        *)
(* follow.                                                                 *)
(***************************************************************************)
EXTENDS Palette

CONSTANTS
  Brands,     \* lightnesses site.colorTema may have
  Patches,    \* patches of extendDesignSystem: records of some of Fields and roles
  RoleSets,   \* sets of roles the pages of a site may declare
  MaxPatches  \* bound: patches one on top of the other

\* What site.colorTema and a design system call a colour is one, and a forced tone is one of the two.
ASSUME BrandsAreGreys == Brands \subseteq Grey
ASSUME PatchesAreTyped ==
  \A p \in Patches : /\ "sfondo" \in DOMAIN p => p["sfondo"] \in Grey
                     /\ "secondary" \in DOMAIN p => p["secondary"] \in Grey
                     /\ "forza" \in DOMAIN p => p["forza"] \in Tones

VARIABLES
  phase,    \* "design", "refused" (the build stopped), "built", "served" or "live"
  patches,  \* how many patches were applied
  preset,   \* DesignSystemPreset, without the fields left out
  brand,    \* site.colorTema
  used,     \* the roles of the pages of the site
  palette,  \* the PaletteTokens of each tone
  warnings, \* what generate-statics printed of the palette
  tone,     \* AppearanceService._themeTone, the data-bs-theme of the page
  role      \* layout.role of the page shown

designVars == <<phase, patches, preset, brand, used, palette, warnings, tone, role>>

None == "none"
Fields == {"forza", "pannello", "superfici", "sfondo", "testo", "secondary", "navSuperficie", "smoke"}

-----------------------------------------------------------------------------
(* Patches *)

Field(record, f, otherwise) == IF f \in DOMAIN record THEN record[f] ELSE otherwise
Colour(record, f) == IF f \in DOMAIN record THEN {record[f]} ELSE {}
Role(record, r) == IF r \in DOMAIN record.roles THEN record.roles[r] ELSE <<>>

\* The fields of a record over those of another, as a spread in an object writes them
Spread(record, base) ==
  [f \in DOMAIN record \cup DOMAIN base |-> IF f \in DOMAIN record THEN record[f] ELSE base[f]]

\* mergeDesignSystemPreset: the patch wins field by field; what it leaves out, or sets to
\* undefined, stays as it was.  So do the fields of a role.
Merge(base, patch) ==
  LET roles == IF "roles" \in DOMAIN patch THEN patch.roles ELSE <<>>
      merged == [r \in DOMAIN base.roles \cup DOMAIN roles |->
                  Spread(IF r \in DOMAIN roles THEN roles[r] ELSE <<>>, Role(base, r))]
  IN Spread([roles |-> merged], Spread(patch, base))

\* risolviAspetto, vividezzaDi and superficiConPannello
Surfaces(p) == Field(p, "superfici", "foglio")
Aspect(p) ==
  [forced |-> Field(p, "forza", None),
   panelTone |-> Field(p, "pannello", IF "forza" \in DOMAIN p THEN "auto" ELSE "light"),
   panel |-> Surfaces(p) \notin {"distinte", "tenue", "fusione"},
   smoke |-> Field(p, "smoke", FALSE),
   nav |-> Field(p, "navSuperficie", "brand"),
   overrides |-> [background |-> Colour(p, "sfondo"), text |-> Colour(p, "testo"), secondary |-> Colour(p, "secondary"),
                  vividness |-> CASE Surfaces(p) = "fusione" -> 100
                                  [] Surfaces(p) \in {"tenue", "tenue-flottante"} -> 50
                                  [] OTHER -> 0]]

-----------------------------------------------------------------------------
(* Roles *)

EngineRoles == {"default", "legal", "error", "naked"}
KnownRole(r) == r \in EngineRoles \cup DOMAIN preset.roles

\* resolveRuoloPagina and spentoSeSpentoNelSito: a role can only turn off what the site has
\* on, but for the full-bleed view, which is the role's alone.
Chrome(r) ==
  LET initial == CASE r = "error" -> [showPanel |-> FALSE]
                   [] r = "legal" -> [showSmoke |-> FALSE]
                   [] OTHER -> <<>>
      spec == Spread(Role(preset, r), initial)
      on(field) == CASE field = "showPanel" -> Aspect(preset).panel
                     [] field = "showSmoke" -> Aspect(preset).smoke
                     [] OTHER -> TRUE
  IN IF r = "naked" THEN [showPanel |-> FALSE, showSmoke |-> FALSE]
     ELSE [f \in DOMAIN spec |-> spec[f] /\ on(f)]

\* The shell: the panel and the smoke of the page shown
FitViewport == Field(Chrome(role), "fitViewport", FALSE)
ShowPanel == Aspect(preset).panel /\ Field(Chrome(role), "showPanel", TRUE)
ShowSmoke == Aspect(preset).smoke /\ Field(Chrome(role), "showSmoke", ShowPanel /\ ~FitViewport)
PanelTone == IF Aspect(preset).panelTone = "auto" THEN tone ELSE Aspect(preset).panelTone
\* The tone the content of the page is in
ContentTone == IF ShowPanel /\ ~FitViewport THEN PanelTone ELSE tone

\* resolveNavColors
NavColours(t) ==
  IF Aspect(preset).nav = "body" THEN [bg |-> palette[t].surfaces[1], fg |-> palette[t].text]
  ELSE [bg |-> palette[t].navBg, fg |-> palette[t].navText]

-----------------------------------------------------------------------------
DesignInit ==
  /\ phase = "design" /\ patches = 0
  /\ preset = [roles |-> <<>>]
  /\ brand \in Brands /\ used \in RoleSets
  /\ palette = <<>> /\ warnings = {}
  /\ tone = None /\ role = None

\* extendDesignSystem
Extend(patch) ==
  /\ phase = "design" /\ patches < MaxPatches
  /\ preset' = Merge(preset, patch)
  /\ patches' = patches + 1
  /\ UNCHANGED <<phase, brand, used, palette, warnings, tone, role>>

\* A slip in which every site is audited in the light tone.
AuditedAsLight == {"light"}
\* The tones "that the site really shows", for the audit of the hard overrides
AuditedTones == IF Aspect(preset).forced = None THEN Tones ELSE {Aspect(preset).forced}

\* buildSite and buildPalette: a page of a role nobody knows stops the build, and so does
\* a tone of one colour; then the overrides are audited.
BuildTheme ==
  LET o == Aspect(preset).overrides
      p == [t \in Tones |-> ComputePalette(t, brand, o)]
  IN /\ phase = "design"
     /\ IF (\E r \in used : ~KnownRole(r)) \/ Degenerate(p)
        THEN /\ phase' = "refused"
             /\ UNCHANGED <<palette, warnings>>
        ELSE /\ phase' = "built"
             /\ palette' = p
             /\ warnings' = AuditPalette(p, AuditedTones)
                            \cup (IF o.text # {} THEN AuditText(p, AuditedTones) ELSE {})
     /\ UNCHANGED <<patches, preset, brand, used, tone, role>>

\* The server does not know the preference: the forced tone, or the brand's own.
ServePage(r) ==
  /\ phase = "built"
  /\ phase' = "served"
  /\ role' = r
  /\ tone' = IF Aspect(preset).forced # None THEN Aspect(preset).forced
             ELSE IF PrefersDarkText(brand) THEN "light" ELSE "dark"
  /\ UNCHANGED <<patches, preset, brand, used, palette, warnings>>

\* The constructor of AppearanceService in the browser, and its listener of the preference
TakePreference(os) ==
  /\ phase \in {"served", "live"}
  /\ phase' = "live"
  /\ tone' = IF Aspect(preset).forced # None THEN tone ELSE os
  /\ UNCHANGED <<patches, preset, brand, used, palette, warnings, role>>

\* NavigationEnd: the chrome of the new page
VisitPage(r) ==
  /\ phase = "live" /\ role # r
  /\ role' = r
  /\ UNCHANGED <<phase, patches, preset, brand, used, palette, warnings, tone>>

DesignNext ==
  \/ \E patch \in Patches : Extend(patch)
  \/ BuildTheme
  \/ \E r \in used : ServePage(r) \/ VisitPage(r)
  \/ \E os \in Tones : TakePreference(os)

DesignSpec == DesignInit /\ [][DesignNext]_designVars

-----------------------------------------------------------------------------
(* Properties *)

\* README "Garanzie di contrasto": what the engine derives as text reads at 4.5:1 on each of
\* the five surfaces of its tone, whatever brand, background and vividness the design system
\* asks for; and it misses the 4.8:1 it aims at only where neither black nor white has it.
\* The text of the navigation reads on its bar.
DerivedTextReads ==
  palette # <<>> => \A t \in Tones :
    LET p == palette[t]
        surfaces == Range(p.surfaces)
        derived == {p.emphasis, p.mutedText, p.link, p.primaryFg, p.secondaryText}
                   \cup (IF "testo" \notin DOMAIN preset THEN {p.text, p.heading} ELSE {})
    IN /\ \A fg \in derived : /\ ReadsOn(fg, surfaces, MinText)
                              /\ SomeTextReads(surfaces, TargetText) => ReadsOn(fg, surfaces, TargetText)
       /\ Contrasts(p.navText, p.navBg, MinText)

\* What has an edge is seen: the primary stands out from the page and from its cards at 3:1,
\* and borders from all five surfaces.
EdgesStandOut ==
  palette # <<>> => \A t \in Tones :
    /\ ReadsOn(palette[t].primary, {palette[t].surfaces[1], palette[t].surfaces[2]}, MinUi)
    /\ ReadsOn(palette[t].border, Range(palette[t].surfaces), MinUi)

\* A tone whose warnings the build did not print is one whose hard overrides can be read
Quiet(t) ==
  LET p == palette[t]
  IN /\ <<"text", t>> \notin warnings => ReadsOn(p.text, Range(p.surfaces), MinText) /\ ReadsOn(p.heading, Range(p.surfaces), MinText)
     /\ <<"text", t>> \notin warnings => Contrasts(NavColours(t).fg, NavColours(t).bg, MinText)
     /\ <<"fill", t>> \notin warnings => ReadsOn(p.secondary, {p.surfaces[1], p.surfaces[2]}, MinUi)

\* The build audits the overrides it does not correct only "in the tones the site shows": no
\* page is ever shown in a tone it kept silent about, on the server, after hydration and
\* after the preference of the system changes.
PagesWereAudited == phase \in {"served", "live"} => Quiet(tone)

\* What the engine derives can be read and seen, and what it does not correct is audited.
DesignSafe == DerivedTextReads /\ EdgesStandOut /\ PagesWereAudited

\* README, `colori.testo`: "generate:statics scrive un avviso per ogni ruolo che scende sotto
\* 4.5:1 su una delle cinque superfici di un tono mostrato (con tono.forza, solo quello)": the
\* content of the page too is in a tone that was audited.
ContentWasAudited == phase \in {"served", "live"} => Quiet(ContentTone)

\* "Scegli un brand più chiaro o più scuro": a palette is refused as degenerate only where no
\* text would read on it.
RefusedIsUnreadable ==
  phase = "refused" /\ (\A r \in used : KnownRole(r)) =>
    \E t \in Tones : ~SomeTextReads({LiftBg(Anchor(t), brand, Aspect(preset).overrides)}, TargetText)
=============================================================================
