------------------------------ MODULE MCStore ------------------------------
(***************************************************************************)
(* Small instances for TLC of the parts of a store that share no row with  *)
(* one another.  A behaviour plays one scene: it moves one of the parts,   *)
(* and leaves the others as they were first.                               *)
(***************************************************************************)
EXTENDS ProductMatrix, CatalogNames, StoreImages, Accounts, SiteBuilder, Advisor, Chat,
        Storefront, DemandFeed, Swatches, ChatTools, AdvisorSignals, FaqList

CONSTANTS
    Scenes,              \* the parts to play
    s1, s2, r1, d1,      \* attribute values
    n1, n2, n3, n4,      \* names
    g1, g2, g3, c1, c2,  \* products and categories
    red, blue, linen, tall \* values of three more attributes

VARIABLE scene

Plays(x) == scene = x /\ scene' = x

UnlessIn(x, vars) == IF scene = x THEN TRUE ELSE UNCHANGED vars

OthersKeepStill ==
    /\ UnlessIn("matrix", matrixVars) /\ UnlessIn("names", nameVars)
    /\ UnlessIn("images", imageVars)
    /\ UnlessIn("accounts", accountVars) /\ UnlessIn("builder", builderVars)
    /\ UnlessIn("advisor", advisorVars) /\ UnlessIn("chat", chatVars)
    /\ UnlessIn("shop", shopVars) /\ UnlessIn("feed", feedVars)
    /\ UnlessIn("swatches", swatchVars) /\ UnlessIn("tools", toolVars)
    /\ UnlessIn("signals", signalVars) /\ UnlessIn("list", listVars)

\* A part with several initial states takes each of them in its own scene only.
InitStore ==
    /\ scene \in Scenes
    /\ InitMatrix /\ (scene = "matrix" \/ product = "none")
    /\ InitNames /\ (scene = "names" \/ kind = "product")
    /\ InitImages
    /\ InitAccounts /\ (scene = "accounts" \/ ~users[1].there)
    /\ InitBuilder /\ (scene = "builder" \/ ~draft.there)
    /\ InitAdvisor
    /\ InitChat
    /\ InitShop
    /\ InitFeed
    /\ InitSwatches /\ (scene = "swatches" \/ style = "list")
    /\ InitTools /\ (scene = "tools" \/ ~agent.signedIn)
    /\ InitSignals /\ (scene = "signals" \/ Len(sale) = 0)
    /\ InitList

NextStore ==
    /\ \/ Plays("matrix") /\ NextMatrix
       \/ Plays("names") /\ NextNames
       \/ Plays("images") /\ NextImages
       \/ Plays("accounts") /\ NextAccounts
       \/ Plays("builder") /\ NextBuilder
       \/ Plays("advisor") /\ NextAdvisor
       \/ Plays("chat") /\ NextChat
       \/ Plays("shop") /\ NextShop
       \/ Plays("feed") /\ NextFeed
       \/ Plays("swatches") /\ NextSwatches
       \/ Plays("tools") /\ NextTools
       \/ Plays("signals") /\ NextSignals
       \/ Plays("list") /\ NextList
    /\ OthersKeepStill

storeVars == <<scene, matrixVars, nameVars, imageVars, accountVars, builderVars, advisorVars, chatVars,
               shopVars, feedVars, swatchVars, toolVars, signalVars, listVars>>

StoreSpec == InitStore /\ [][NextStore]_storeVars

-----------------------------------------------------------------------------
\* Values for the constants.

MCAttributeOf == (s1 :> "size") @@ (s2 :> "size") @@ (r1 :> "color") @@ (d1 :> "brand")
MCAxes == {"size", "color"}

MCWordsOf == (n1 :> "size") @@ (n2 :> "fallback") @@ (n3 :> "fallback") @@ (n4 :> "long")

Proposed(name, key, drawn, values) == [name |-> name, key |-> key, style |-> drawn, values |-> values]
Option(text, hex) == [text |-> text, hex |-> hex]
TwoColors == <<Option("a", TRUE), Option("b", TRUE)>>
OneColor == <<Option("a", TRUE), Option("a", FALSE), Option("", TRUE), Option("b", FALSE)>>
NoColor == <<Option("a", FALSE), Option("a", FALSE)>>
ThreeColors == Append(TwoColors, Option("c", TRUE))

MCRawProposal ==
    { <<Proposed(n1, NoKey, "swatch", ThreeColors), Proposed(n2, NoKey, "list", TwoColors),
        Proposed(n3, <<"sort">>, "list", TwoColors)>>,
      <<Proposed(n2, NoKey, "swatch", TwoColors), Proposed(n3, NoKey, "unknown", OneColor)>>,
      <<Proposed(n4, NoKey, "chip", TwoColors), Proposed(n1, <<"long">>, "list", NoColor),
        Proposed(n2, <<"long">>, "swatch", OneColor)>> }

MCFacetOf == (red :> "shade") @@ (blue :> "shade") @@ (linen :> "fabric") @@ (tall :> "length")

\* Facets and values in and out of reach of the caps, and one value of another facet.
Of(facet, values) == [of |-> facet, values |-> values]
InLinen == Of("fabric", <<linen>>)
Tall == Of("length", <<tall>>)
MCPicks ==
    { <<>>, <<Of("shade", <<linen, blue, red>>)>>, <<Of("shade", <<blue, red>>), InLinen>>,
      <<Tall, InLinen, Of("shade", <<red>>)>> }
PriceBands == {<<0, 9>>, <<2, 3>>}

Sort(price, left, choices) == [price |-> price, stock |-> left, choices |-> choices]
Item(status, on, variants, about, words, near) ==
    [status |-> status, filed |-> on, variants |-> variants,
     described |-> about, words |-> words, near |-> near]

MCStocked ==
    (g1 :> Item("active", {c1}, {Sort(1, TRUE, {red}), Sort(3, FALSE, {blue})}, {linen, tall}, {"mug"}, {"mug"})) @@
    (g2 :> Item("active", {c1, c2}, {Sort(2, FALSE, {blue})}, {}, {}, {"mug"})) @@
    (g3 :> Item("draft", {c2}, {Sort(3, TRUE, {red})}, {linen}, {"mug"}, {"mug"}))

\* An article of two variants and one of one; a sale that is no longer in any
\* window, and sales in one window or both.  Nine units a week are a target of 27
\* and a double above it; of 29 the double of the cover is below 21 days too.
MCArticleOf == <<1, 1, 2>>
MCPriceOf == <<3, 1, 6>>
OrderLine(sku, units, age, status) == [sku |-> sku, units |-> units, age |-> age, status |-> status]
MCOpening ==
    { [sale |-> <<>>, stock |-> <<1, 2, 1>>],
      [sale |-> <<OrderLine(1, 9, 1, "pending"), OrderLine(1, 1, 50, "delivered")>>, stock |-> <<5, 2, 1>>],
      [sale |-> <<OrderLine(2, 4, 20, "pending"), OrderLine(2, 5, 0, "pending"), OrderLine(1, 29, 3, "shipped")>>,
       stock |-> <<87, 0, 1>>] }
MCOccurs == <<{4}, {0, 9}>>
MCForecasts == {<<>>, <<2, 0, 2>>}

\* Ten days, the third of which has 23 hours and the seventh 25; an hour far from
\* both, and the last and first hours of days before, in and after them.
MCSummer == 71..166
MCClock == {7, 46, 47, 71, 94, 119, 143, 166, 167}
=============================================================================
