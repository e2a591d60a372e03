------------------------------- MODULE Palette -------------------------------
(***************************************************************************)
(* The palette of the site (appearance.service.ts), computed from the      *)
(* brand and from what the design system sets.  A colour is a grey: its    *)
(* OKLCH lightness in thousandths.  Chroma, hue and the rounding to eight  *)
(* bits are left out; the luminance of a grey is the cube of its           *)
(* lightness, so contrasts are those of WCAG.                              *)
(***************************************************************************)
EXTENDS Integers, Sequences, FiniteSets, FiniteSetsExt, SequencesExt

Black == 0
White == 1000
Grey == Black..White
Tones == {"light", "dark"}
Clamp(l) == IF l < Black THEN Black ELSE IF l > White THEN White ELSE l

-----------------------------------------------------------------------------
(* Contrast, in hundredths: 450 is 4.5:1 *)

TargetText == 480
TargetFillBoundary == 320
MinText == 450
MinUi == 300

\* The 0.05 of WCAG's ratio, and the relative luminance, in forty-thousandths
Flare == 2000
Luminance == [l \in Grey |-> (l * l * l) \div 25000]

Contrasts(a, b, ratio) ==
  LET light == Max({Luminance[a], Luminance[b]}) + Flare
      dark == Min({Luminance[a], Luminance[b]}) + Flare
  IN 100 * light >= ratio * dark
ReadsOn(fg, surfaces, ratio) == \A s \in surfaces : Contrasts(fg, s, ratio)

\* Which of black and white reads better where it reads worst; on one surface this is
\* getReadableTextColor.
BestOn(surfaces) ==
  LET low == Min({Luminance[s] : s \in surfaces}) + Flare
      high == Max({Luminance[s] : s \in surfaces}) + Flare
  IN IF low * high >= Flare * (Luminance[White] + Flare) THEN Black ELSE White
PrefersDarkText(s) == BestOn({s}) = Black
SomeTextReads(surfaces, ratio) == ReadsOn(BestOn(surfaces), surfaces, ratio)

-----------------------------------------------------------------------------
(* The searches: a lightness moved in steps of a hundredth *)

\* The first of start + by * from, start + by * (from + 1), ... that passes, up to the n-th;
\* {} when none does.  The search ends where it leaves [low, high]: one that begins
\* outside, as searchOpposite from a near black brand, finds nothing.
FirstStep(start, by, from, n, low, high, Passes(_)) ==
  LET reached == {i \in from..n : {start + by * from, start + by * i} \subseteq low..high}
      hits == {i \in reached : Passes(start + by * i)}
  IN IF hits = {} THEN {} ELSE {start + by * Min(hits)}
The(S, otherwise) == IF S = {} THEN otherwise ELSE CHOOSE x \in S : TRUE

\* findContrastOnSurfaces: the start, then one way, then the other, then black or white.
FindContrastOnSurfaces(surfaces, ratio, start, by) ==
  LET Reads(l) == ReadsOn(l, surfaces, ratio)
      ahead == FirstStep(start, by, 0, 100, Black, White, Reads)
      back == FirstStep(start, -by, 1, 100, Black, White, Reads)
  IN The(ahead, The(back, BestOn(surfaces)))

KeepOnSurfaces(colour, surfaces, ratio, by) ==
  IF ReadsOn(colour, surfaces, ratio) THEN colour ELSE FindContrastOnSurfaces(surfaces, ratio, colour, by)

\* findCompliantColor and findDualCompliantColor: the wanted contrast on each background.
\* The lightness is clamped, so that a search at the border tries it again and again.
FindCompliantColor(wanted, start, by) ==
  LET Reads(l) == \A w \in wanted : Contrasts(l, w[1], w[2])
      tries == {i \in 1..70 : Reads(Max({50, Min({950, start + by * i})}))}
      opposite == FirstStep(start, -by, 1, 100, 50, 980, Reads)
  IN IF tries # {} THEN Max({50, Min({950, start + by * Min(tries)})})
     ELSE The(opposite, BestOn({w[1] : w \in wanted}))

\* The brand itself, then darker (or lighter), then the other way
Shade(brand, bg, ratio, by) ==
  LET Reads(l) == Contrasts(l, bg, ratio)
      on == FirstStep(brand, by, 0, 100, IF by < 0 THEN 50 ELSE Black, IF by < 0 THEN White ELSE 980, Reads)
      opposite == FirstStep(brand, -by, 1, 100, 50, 980, Reads)
  IN The(on, The(opposite, BestOn({bg})))
ComputeColorPrimary(brand, bg) == Shade(brand, bg, MinText, -10)
ComputeColorPrimaryFgLt(brand, bg) == Shade(brand, bg, TargetText, -10)
ComputeColorPrimaryFgDk(brand, bg) == Shade(brand, bg, TargetText, 10)

\* computeColorPrimaryFillDk: lighter until it leaves the ground, with a text that reads
\* on it; the light primary when none does.
PrimaryFillDark(primary, base) ==
  LET Stands(l) == Contrasts(l, base, TargetFillBoundary) /\ SomeTextReads({l}, MinText)
  IN The(FirstStep(primary, 10, 0, 100, Black, 980, Stands), primary)

-----------------------------------------------------------------------------
(* The five surfaces of a tone.  An override is a record: background, text, secondary *)
(* are sets of at most one grey, vividness is in hundredths.                           *)

Anchor(tone) == IF tone = "light" THEN 970 ELSE 140
\* card, hover, muted and subtle when the surfaces do not take the brand's lightness
SurfaceSteps(tone) == IF tone = "light" THEN <<985, 950, 942, 967>> ELSE <<180, 220, 295, 248>>
Distance(a, b) == IF a < b THEN b - a ELSE a - b

Lift(from, to, vividness) == from + ((to - from) * vividness) \div 100
LiftBg(l, brand, o) == Lift(l, The(o.background, brand), o.vividness)
LiftNav(l, brand, o) == Lift(l, brand, o.vividness)

\* surfacesAt: the base is the anchor; the others leave it in proportion to the factor.
SurfacesAt(tone, sixteenths, brand, o) ==
  LET base == LiftBg(Anchor(tone), brand, o)
      away == IF PrefersDarkText(base) THEN 1 ELSE -1
  IN <<base>> \o [i \in 1..4 |->
       IF o.vividness > 0 THEN Clamp(base + (away * Distance(SurfaceSteps(tone)[i], Anchor(tone)) * sixteenths) \div 16)
       ELSE Clamp(Anchor(tone) + ((SurfaceSteps(tone)[i] - Anchor(tone)) * sixteenths) \div 16)]

\* readableSurfaces: the factor is halved four times, then zero, until some text reads on
\* all of them; after that they are all the base.
ReadableSurfaces(tone, brand, o) ==
  LET factors == <<16, 8, 4, 2, 1, 0>>
      fits == {i \in 1..6 : SomeTextReads(Range(SurfacesAt(tone, factors[i], brand, o)), TargetText)}
      base == LiftBg(Anchor(tone), brand, o)
  IN IF fits = {} THEN <<base, base, base, base, base>> ELSE SurfacesAt(tone, factors[Min(fits)], brand, o)

-----------------------------------------------------------------------------
(* computePalette: the colours of one tone *)

\* Where the search for a colour of the tone starts
Start(tone) ==
  IF tone = "light" THEN [text |-> 200, emphasis |-> 165, muted |-> 650, secondary |-> 720, border |-> 570]
  ELSE [text |-> 920, emphasis |-> 958, muted |-> 450, secondary |-> 550, border |-> 600]

\* The bar of the navigation is the full brand where white reads on it.
NavBg(tone, brand, o) ==
  IF tone = "dark" THEN LiftNav(150, brand, o) ELSE IF PrefersDarkText(brand) THEN LiftNav(965, brand, o) ELSE brand
NavText(tone, brand, o) ==
  LET start == IF tone = "light" /\ ~PrefersDarkText(brand) THEN White ELSE Start(tone).text
  IN FindContrastOnSurfaces({NavBg(tone, brand, o)}, TargetText, start, IF tone = "light" THEN -10 ELSE 10)

\* mutedDaTesto: a quarter of the way from the text to the base, then towards the text.
MutedFromText(text, base, surfaces) ==
  FindContrastOnSurfaces(surfaces, TargetText, text + (base - text) \div 4, IF text > base THEN 10 ELSE -10)

ComputePalette(tone, brand, o) ==
  LET by == IF tone = "light" THEN -10 ELSE 10
      ground == ReadableSurfaces(tone, brand, o)
      surfaces == Range(ground)
      base == ground[1]
      sheet == {base, ground[2]}
      muted == ground[4]
      Find(ratio, start) == FindContrastOnSurfaces(surfaces, ratio, start, by)
      Keep(colour) == KeepOnSurfaces(colour, surfaces, TargetText, by)
      emphasis == Find(TargetText, Start(tone).emphasis)
      derived == Keep(FindCompliantColor({<<muted, TargetText>>, <<base, MinUi>>}, Start(tone).secondary, by))
      lightPrimary == ComputeColorPrimary(brand, ReadableSurfaces("light", brand, o)[1])
      primary == IF tone = "light" THEN lightPrimary ELSE PrimaryFillDark(lightPrimary, base)
  IN [surfaces |-> ground,
      text |-> The(o.text, Find(TargetText, Start(tone).text)),
      heading |-> The(o.text, emphasis),
      emphasis |-> emphasis,
      mutedText |-> IF o.text = {} THEN Keep(FindCompliantColor({<<muted, TargetText>>}, Start(tone).muted, by))
                    ELSE MutedFromText(The(o.text, base), base, surfaces),
      link |-> Keep(FindCompliantColor({<<muted, TargetText>>}, 550, by)),
      primary |-> KeepOnSurfaces(primary, sheet, MinUi, by),
      primaryFg |-> Keep(IF tone = "light" THEN ComputeColorPrimaryFgLt(brand, muted) ELSE ComputeColorPrimaryFgDk(brand, muted)),
      secondary |-> The(o.secondary, derived),
      secondaryText |-> Keep(The(o.secondary, derived)),
      border |-> Find(MinUi, LiftBg(Start(tone).border, brand, o)),
      navBg |-> NavBg(tone, brand, o),
      navText |-> NavText(tone, brand, o)]

\* paletteDegenerata: the build refuses a tone whose surfaces are one colour.
Degenerate(p) == \E tone \in Tones : Cardinality(Range(p[tone].surfaces)) = 1

\* auditPaletteContrast and auditTextContrast: what the build warns of in the tones it is
\* given.  The text is looked at only when the design system sets it.
AuditPalette(p, tones) ==
  {<<"fill", tone>> : tone \in {t \in tones : ~ReadsOn(p[t].secondary, {p[t].surfaces[1], p[t].surfaces[2]}, MinUi)}}
AuditText(p, tones) ==
  {<<"text", tone>> : tone \in {t \in tones :
    \E fg \in {p[t].text, p[t].heading} : ~ReadsOn(fg, Range(p[t].surfaces), MinText)}}
=============================================================================
