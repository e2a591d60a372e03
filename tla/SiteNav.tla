------------------------------- MODULE SiteNav -------------------------------
(***************************************************************************)
(* What a project puts in the header and in the footer (nav.ts) and what a *)
(* visitor sees of it (shell-nav.ts, footer-content.ts).  A section is the *)
(* sequence of its items in the order they are added, every item with the  *)
(* group it is in: an item is added inside the callback of its group, so   *)
(* groups close in the order of a stack.  Items that stand for nothing and *)
(* groups that are left empty vanish, first when the section is resolved   *)
(* and again when it is filtered for who is not logged in.                 *)
(***************************************************************************)
EXTENDS Naturals, Sequences, FiniteSets, SequencesExt

CONSTANTS
  NavItems,     \* the items a project may add: records like NavItem
  Registered,   \* the page types lookupPage finds
  Identities,   \* the identities of the site: records from IdentityKeys to values
  NavDepthMax,  \* NAV_DEPTH_MAX
  MaxItems      \* bound: items added to one section

VARIABLES
  section,  \* "header" or "footer"
  raw,      \* RawNavItem[] or FooterBuildState.entries
  strip,    \* ~FooterBuildState.hideLegalStrip: the legal pages below the footer
  owner     \* what IdentityService has; a record without keys is no identity

navVars == <<section, raw, strip, owner>>

Absent == "absent"
NavItem(Refs) ==
  [in : Nat, kind : {"page", "link", "group", "field", "text", "social", "custom"}, ref : Refs, auth : BOOLEAN]

\* What of an identity a field of the footer can show
FooterKeys ==
  {"partitaIva", "codiceFiscale", "registroImprese", "numeroRea", "codiceSdi", "capitaleSociale", "capitaleVersato",
   "socioUnico", "inLiquidazione", "ragioneSociale", "sedeLegale", "rappresentanteLegale", "titolare.nome",
   "titolare.email", "dpo.nome", "dpo.email", "telefono", "email", "pec", "openingHours"}

ASSUME NavItemsAreTyped == \A item \in NavItems : item \in NavItem({item.ref})
ASSUME IdentitiesAreKnown == \A id \in Identities : DOMAIN id \subseteq FooterKeys \union {"social"}
ASSUME DepthMaxIsPositive == NavDepthMax \in Nat \ {0}

\* What may be in a header, and at the top of a footer
Plain == {"page", "link", "group"}

-----------------------------------------------------------------------------
(* The fields of the identity *)

Has(id, key) == key \in DOMAIN id /\ id[key] # Absent
ValueLeaf(id, key) == IF Has(id, key) THEN <<key>> ELSE <<>>

\* The people of the law have a name and an address, two leaves under one label.
LegalRoles == [TitolareDelTrattamento |-> <<"titolare.nome", "titolare.email">>,
               ResponsabileProtezioneDati |-> <<"dpo.nome", "dpo.email">>]

\* resolveFooterField: the keys of the identity that a field shows, each a leaf.  A VAT
\* number that is the tax code too is one row.
ResolveFooterField(field, id) ==
  IF field = "PartitaIvaCodiceFiscale" THEN
    IF Has(id, "partitaIva") /\ Has(id, "codiceFiscale") /\ id["partitaIva"] = id["codiceFiscale"] THEN <<"partitaIva">>
    ELSE ValueLeaf(id, "partitaIva") \o ValueLeaf(id, "codiceFiscale")
  ELSE IF field \in DOMAIN LegalRoles THEN ValueLeaf(id, LegalRoles[field][1]) \o ValueLeaf(id, LegalRoles[field][2])
  ELSE ValueLeaf(id, field)

\* defaultFooterResolver: three groups of fields, and one of the social profiles if any.
DefaultFooter(id) ==
  LET Group(label) == <<[in |-> 0, kind |-> "group", ref |-> label, auth |-> FALSE]>>
      Fields(g, names) == [i \in DOMAIN names |-> [in |-> g, kind |-> "field", ref |-> names[i], auth |-> FALSE]]
  IN Group("datiSocietariAzienda") \o Fields(1, <<"PartitaIvaCodiceFiscale", "registroImprese", "numeroRea", "codiceSdi">>)
     \o Group("datiLegaliAzienda") \o Fields(6, <<"capitaleSociale", "capitaleVersato", "socioUnico", "inLiquidazione">>)
     \o Group("contattiAzienda") \o Fields(11, <<"ragioneSociale", "sedeLegale", "rappresentanteLegale",
          "TitolareDelTrattamento", "ResponsabileProtezioneDati", "telefono", "email", "pec", "openingHours">>)
     \o (IF Has(id, "social")
         THEN Group("socialAzienda") \o <<[in |-> 21, kind |-> "social", ref |-> id["social"], auth |-> FALSE]>>
         ELSE <<>>)

-----------------------------------------------------------------------------
(* resolveNavItems, resolveFooterLeaf *)

\* How many leaves an item that is no group stands for.
NavLeaves(item) ==
  CASE item.kind = "page" -> IF item.ref \in Registered THEN 1 ELSE 0
    [] item.kind = "field" -> Len(ResolveFooterField(item.ref, owner))
    [] item.kind \in {"text", "social"} -> IF item.ref # Absent THEN 1 ELSE 0
    [] OTHER -> 1

In(n) == {k \in DOMAIN raw : raw[k].in = n}

\* The items that are left when the section is resolved.
Resolved ==
  LET kept[n \in DOMAIN raw] == IF raw[n].kind = "group" THEN \E k \in In(n) : kept[k] ELSE NavLeaves(raw[n]) > 0
  IN {n \in DOMAIN raw : kept[n]}

\* resolveFooterLeaf drops authOnly of a social link; fields and texts have none.
AuthOnly(n) == raw[n].auth /\ (section = "header" \/ raw[n].kind \in {"page", "link", "group", "custom"})

Within(n) == LET up[k \in 0..n] == IF k = 0 THEN {} ELSE {k} \union up[raw[k].in] IN up[n]
Depth(n) == Cardinality(Within(n))

\* A slip in which a group that has lost all its items stays.
EmptyStays(loggedIn) ==
  {n \in Resolved : \A g \in Within(n) : g \in Resolved /\ (AuthOnly(g) => loggedIn)}
\* filterNavByAuth, filterFooterChildrenByAuth: a group that is not for the visitor goes
\* with all it holds, and one that has lost all it held goes too.
Shown(loggedIn) ==
  LET stays[n \in DOMAIN raw] ==
        /\ n \in Resolved
        /\ AuthOnly(n) => loggedIn
        /\ raw[n].kind = "group" => \E k \in In(n) : stays[k]
  IN {n \in DOMAIN raw : \A g \in Within(n) : stays[g]}

\* validateNavDepth, validateFooterDepth: a group's items are one level below it.
Accepted == \A n \in Resolved : raw[n].kind = "group" => Depth(n) + 1 <= NavDepthMax

-----------------------------------------------------------------------------
NavInit ==
  /\ section \in {"header", "footer"} /\ strip = TRUE
  /\ owner \in Identities
  /\ raw \in IF section = "header" THEN {<<>>} ELSE {<<>>, DefaultFooter(owner)}

\* The groups whose callbacks have not returned.
OpenGroups == {0} \union (IF raw = <<>> THEN {} ELSE {g \in Within(Len(raw)) : raw[g].kind = "group"})

\* addPage, addLink, addGroup, and inside a group of the footer addField, addText,
\* addSocialLink and addCustom
AddItem(item, group) ==
  /\ Len(raw) < MaxItems
  /\ item.kind \in Plain \/ (section = "footer" /\ group # 0)
  /\ raw' = Append(raw, [item EXCEPT !.in = group])
  /\ UNCHANGED <<section, strip, owner>>

HideLegalStrip ==
  /\ section = "footer" /\ strip
  /\ strip' = FALSE
  /\ UNCHANGED <<section, raw, owner>>

NavNext == (\E item \in NavItems, group \in OpenGroups : AddItem(item, group)) \/ HideLegalStrip

NavSpec == NavInit /\ [][NavNext]_navVars

-----------------------------------------------------------------------------
(* Properties *)

Meant(n) == raw[n].kind # "group" /\ NavLeaves(raw[n]) > 0

\* Who is not logged in sees every item that stands for something and that neither itself
\* nor a group around it keeps for the others, no other item, and no group without one of
\* them inside; who is logged in sees all.  A profile of a social network is not kept.
VisitorsSeeTheirs ==
  \A loggedIn \in BOOLEAN :
    LET theirs == {n \in DOMAIN raw : Meant(n) /\ (loggedIn \/ \A g \in Within(n) : ~AuthOnly(g))}
    IN Shown(loggedIn) = {g \in DOMAIN raw : \E n \in theirs : g \in Within(n)}

\* A section is refused if and only if the visitor would meet an item below the limit.
DepthIsBounded == Accepted <=> \A n \in Shown(TRUE) : Depth(n) <= NavDepthMax

\* The footer of a project that has written none tells each thing the identity has in one
\* row, and nothing it has not; a VAT number that is the tax code too is told by one row.
Rows ==
  UNION {{n} \X DOMAIN ResolveFooterField(raw[n].ref, owner) : n \in {k \in DOMAIN raw : raw[k].kind = "field"}}
KeyOf(row) == ResolveFooterField(raw[row[1]].ref, owner)[row[2]]
Tells(row, key) ==
  KeyOf(row) = key \/ ({KeyOf(row), key} = {"partitaIva", "codiceFiscale"} /\ owner[KeyOf(row)] = owner[key])
DefaultFooterTells ==
  section = "footer" /\ raw = DefaultFooter(owner) =>
    /\ \A row \in Rows : Has(owner, KeyOf(row))
    /\ \A key \in DOMAIN owner \ {"social"} :
         Has(owner, key) => \E row \in Rows : \A other \in Rows : Tells(other, key) <=> other = row

\* Building, resolving and filtering a section agree on what a visitor sees.
NavSafe == VisitorsSeeTheirs /\ DepthIsBounded /\ DefaultFooterTells

\* "Se true, la voce (o l'intero gruppo su `addGroup`) compare solo per utenti loggati":
\* addSocialLink takes that option too.
KeptItemsAreHidden == \A n \in Shown(FALSE) : ~raw[n].auth \/ raw[n].kind \in {"field", "text"}
=============================================================================
