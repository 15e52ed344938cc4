---------------------------- MODULE SiteBuilder ----------------------------
(***************************************************************************)
(* The onboarding of one owner: a draft that walks through its steps, the  *)
(* store it becomes, the store's themes and its logo.                      *)
(*                                                                         *)
(* The owner works in several tabs.  Each request loads the draft first,   *)
(* awaits Gemini, Cloudinary or the store's services, and saves the row    *)
(* it loaded, one step each.  Texts and answers are left out, and slugs    *)
(* of other stores: one that is taken is refused before anything changes.  *)
(***************************************************************************)
EXTENDS Naturals, FiniteSets, Records

CONSTANTS
    Window,     \* the owner's tabs
    Slug,       \* the domains the owner asks for
    MaxThemes,  \* bounds the generations of themes, one theme in each
    MaxLogos,   \* bounds the uploads
    MaxVisits,  \* bounds the requests
    MaxCuts     \* bounds failing services and restarts

ASSUME BuilderBounds == {MaxThemes, MaxLogos, MaxVisits, MaxCuts} \subseteq Nat

VARIABLES
    draft,      \* the site_build_drafts row
    shop,       \* the stores row
    themes,     \* the store_themes rows: 1..themes
    selected,   \* those with isSelected
    logoAssets, \* logos on Cloudinary
    lastLogo,   \* logos uploaded so far; an id is never given twice
    visit,      \* what each tab's request has in memory
    torn,       \* history: a save overtook another, or a publication was cut
    crossed,    \* history: two selections of a theme overlapped, or one was cut
    retired,    \* history: the logos a brainstorm destroyed
    visits,     \* requests so far
    cuts        \* faults so far

builderHistory == <<torn, crossed, retired, visits, cuts>>
builderVars == <<draft, shop, themes, selected, logoAssets, lastLogo, visit, builderHistory>>

\* SITE_BUILD_STEP_ORDER; 0 before the brainstorm.
Brainstormed == 1
Answered == 2
DomainConfirmed == 3
Themed == 4
Published == 5

NoDraft == [there |-> FALSE, step |-> 0, logo |-> 0]
NoShop == [there |-> FALSE, slug |-> "", live |-> FALSE, logo |-> 0, monogram |-> FALSE]
NoVisit == [op |-> "none", phase |-> "none"]

\* A new owner, or one whose themes are there to choose from.
InitBuilder ==
    /\ \/ draft = NoDraft /\ shop = NoShop /\ themes = 0
       \/ /\ draft = [there |-> TRUE, step |-> Themed, logo |-> 0]
          /\ shop \in {[NoShop EXCEPT !.there = TRUE, !.slug = slug] : slug \in Slug}
          /\ themes = 2
    /\ selected = {}
    /\ logoAssets = {}
    /\ lastLogo = 0
    /\ visit = [w \in Window |-> NoVisit]
    /\ torn = FALSE
    /\ crossed = FALSE
    /\ retired = {}
    /\ visits = 0
    /\ cuts = 0

-----------------------------------------------------------------------------
\* What the requests are made of.

Phase(w, phase, ops) == visit[w].phase = phase /\ visit[w].op \in ops
Leave(w) == visit' = [visit EXCEPT ![w] = NoVisit]
Proceed(w, phase) == visit' = [visit EXCEPT ![w].phase = phase]
ProceedWith(w, phase, memory) == visit' = [visit EXCEPT ![w] = Spread(memory, [@ EXCEPT !.phase = phase])]

Arrive(w, op, phase, memory) ==
    /\ visit[w] = NoVisit
    /\ visits < MaxVisits
    /\ visits' = visits + 1
    /\ visit' = [visit EXCEPT ![w] = Spread(memory, [op |-> op, phase |-> phase, draft |-> draft, over |-> FALSE])]
    /\ UNCHANGED <<draft, shop, themes, selected, logoAssets, lastLogo, torn, crossed, retired, cuts>>

\* requireStep
Reached(row, step) == row.there /\ row.step >= step

\* advanceStep
Advanced(row, step) == [row EXCEPT !.there = TRUE, !.step = IF @ < step THEN step ELSE @]

\* The requests that loaded before this save are overtaken by it.
Overtake(w, next) ==
    [v \in Window |-> IF v = w THEN next
                      ELSE IF visit[v] = NoVisit THEN NoVisit ELSE [visit[v] EXCEPT !.over = TRUE]]

Saves(w, next) == visit' = Overtake(w, next) /\ torn' = (torn \/ visit[w].over)

Cut == cuts < MaxCuts /\ cuts' = cuts + 1

-----------------------------------------------------------------------------
\* saveBrainstorm: the draft is saved before the AI is asked and after.

Brainstorm(w) ==
    \/ Arrive(w, "brainstorm", "save", <<>>)
    \/ Arrive(w, "brainstorm", "logo", <<>>)

UploadLogo(w) ==
    /\ Phase(w, "logo", {"brainstorm"})
    /\ lastLogo < MaxLogos
    /\ lastLogo' = lastLogo + 1
    /\ logoAssets' = logoAssets \cup {lastLogo'}
    /\ ProceedWith(w, IF visit[w].draft.logo = 0 THEN "save" ELSE "destroy",
                   [old |-> visit[w].draft.logo, draft |-> [visit[w].draft EXCEPT !.logo = lastLogo']])
    /\ UNCHANGED <<draft, shop, themes, selected, builderHistory>>

\* replaceDraftLogo destroys the previous asset before the draft is saved.
DestroyLogo(w) ==
    /\ Phase(w, "destroy", {"brainstorm"})
    /\ logoAssets' = logoAssets \ {visit[w].old}
    /\ retired' = retired \cup {visit[w].old}
    /\ Proceed(w, "save")
    /\ UNCHANGED <<draft, shop, themes, selected, lastLogo, torn, crossed, visits, cuts>>

\* One draft per owner: the second of two first saves fails.
Clash(w) == draft.there /\ ~visit[w].draft.there

SaveBrainstorm(w) ==
    /\ Phase(w, "save", {"brainstorm"})
    /\ LET row == Advanced(visit[w].draft, Brainstormed)
       IN  IF Clash(w) THEN Leave(w) /\ UNCHANGED <<draft, torn>>
           ELSE draft' = row /\ Saves(w, [visit[w] EXCEPT !.phase = "prefill", !.draft = row])
    /\ UNCHANGED <<shop, themes, selected, logoAssets, lastLogo, crossed, retired, visits, cuts>>

SavePrefilled(w) ==
    /\ Phase(w, "prefill", {"brainstorm"})
    /\ draft' = visit[w].draft
    /\ Saves(w, NoVisit)
    /\ UNCHANGED <<shop, themes, selected, logoAssets, lastLogo, crossed, retired, visits, cuts>>

-----------------------------------------------------------------------------
\* submitAnswers and generateThemes.

Answer(w) == Reached(draft, Brainstormed) /\ Arrive(w, "answers", "save", [to |-> Answered])

Generate(w) ==
    /\ Reached(draft, DomainConfirmed)
    /\ shop.there
    /\ Arrive(w, "generate", "themes", [to |-> Themed])

SaveThemes(w) ==
    /\ Phase(w, "themes", {"generate"})
    /\ themes < MaxThemes
    /\ themes' = themes + 1
    /\ Proceed(w, "save")
    /\ UNCHANGED <<draft, shop, selected, logoAssets, lastLogo, builderHistory>>

\* The last save of a request that walks the draft on.
SaveDraft(w) ==
    /\ Phase(w, "save", {"answers", "generate", "confirm", "publish"})
    /\ draft' = Advanced(visit[w].draft, visit[w].to)
    /\ Saves(w, NoVisit)
    /\ UNCHANGED <<shop, themes, selected, logoAssets, lastLogo, crossed, retired, visits, cuts>>

-----------------------------------------------------------------------------
\* confirmDomain

\* Mutant of MayConfirm: the domain of a published store can be changed.
MayReconfirm(row) == Reached(row, Answered)

MayConfirm(row) == Reached(row, Answered) /\ row.step # Published

ConfirmDomain(w) ==
    \E slug \in Slug :
        MayConfirm(draft) /\ Arrive(w, "confirm", "store", [to |-> DomainConfirmed, slug |-> slug])

\* findByOwnerId, and what becomes of the store it found or created.
LoadShop(w) ==
    /\ Phase(w, "store", {"confirm"})
    /\ ProceedWith(w, "save-store", [shop |-> [shop EXCEPT !.there = TRUE, !.slug = visit[w].slug],
                                     fresh |-> ~shop.there])
    /\ UNCHANGED <<draft, shop, themes, selected, logoAssets, lastLogo, builderHistory>>

\* One store per owner as well.
SaveShop(w) ==
    /\ Phase(w, "save-store", {"confirm"})
    /\ IF visit[w].fresh /\ shop.there
       THEN Leave(w) /\ UNCHANGED <<shop, torn>>
       ELSE shop' = visit[w].shop /\ Saves(w, [visit[w] EXCEPT !.phase = "save"])
    /\ UNCHANGED <<draft, themes, selected, logoAssets, lastLogo, crossed, retired, visits, cuts>>

-----------------------------------------------------------------------------
\* publish

Publish(w) ==
    \E theme \in 1..themes :
        /\ Reached(draft, Themed)
        /\ shop.there
        /\ Arrive(w, "publish", "clear", [to |-> Published, theme |-> theme, shop |-> shop])

Selecting(v) == Phase(v, "select", {"publish"})

Cleared == {}

ClearSelection(w) ==
    /\ Phase(w, "clear", {"publish"})
    /\ selected' = Cleared
    /\ Proceed(w, "select")
    /\ UNCHANGED <<draft, shop, themes, logoAssets, lastLogo, builderHistory>>

SelectTheme(w) ==
    /\ Selecting(w)
    /\ selected' = selected \cup {visit[w].theme}
    /\ crossed' = (crossed \/ \E v \in Window \ {w} : Selecting(v))
    /\ Proceed(w, "logo")
    /\ UNCHANGED <<draft, shop, themes, logoAssets, lastLogo, torn, retired, visits, cuts>>

\* Mutant of Outdated: whatever logo the store has is deleted.
AnyLogo(row, logo) == row.logo # 0

\* A monogram is drawn anew by every publication.
Outdated(row, logo) == row.logo # 0 /\ row.logo # logo /\ row.monogram

\* resolveLogo: the uploaded one, or a monogram.
ResolveLogo(w) ==
    /\ Phase(w, "logo", {"publish"})
    /\ LET uploaded == visit[w].draft.logo
           logo == IF uploaded # 0 THEN uploaded ELSE lastLogo + 1
           stale == visit[w].shop
       IN  /\ uploaded = 0 => lastLogo < MaxLogos
           /\ lastLogo' = IF uploaded # 0 THEN lastLogo ELSE logo
           /\ logoAssets' = IF uploaded # 0 THEN logoAssets ELSE logoAssets \cup {logo}
           /\ ProceedWith(w, IF Outdated(stale, logo) THEN "destroy" ELSE "live",
                          [old |-> stale.logo,
                           shop |-> [stale EXCEPT !.live = TRUE, !.logo = logo, !.monogram = (uploaded = 0)]])
    /\ UNCHANGED <<draft, shop, themes, selected, builderHistory>>

DestroyMonogram(w) ==
    /\ Phase(w, "destroy", {"publish"})
    /\ logoAssets' = logoAssets \ {visit[w].old}
    /\ Proceed(w, "live")
    /\ UNCHANGED <<draft, shop, themes, selected, lastLogo, builderHistory>>

GoLive(w) ==
    /\ Phase(w, "live", {"publish"})
    /\ shop' = visit[w].shop
    /\ Saves(w, [visit[w] EXCEPT !.phase = "save"])
    /\ UNCHANGED <<draft, themes, selected, logoAssets, lastLogo, crossed, retired, visits, cuts>>

-----------------------------------------------------------------------------
\* updateHero saves the store's other columns as it loaded them; what that does to
\* its nextOrderNumber is SaveStore of Orders.

UpdateHero(w) == shop.there /\ Arrive(w, "hero", "save", [shop |-> shop])

SaveHero(w) ==
    /\ Phase(w, "save", {"hero"})
    /\ shop' = visit[w].shop
    /\ Saves(w, NoVisit)
    /\ UNCHANGED <<draft, themes, selected, logoAssets, lastLogo, crossed, retired, visits, cuts>>

\* Gemini or Cloudinary fails, or the server restarts.
CutShort(w) ==
    /\ visit[w] # NoVisit
    /\ Cut
    /\ torn' = (torn \/ (visit[w].op = "publish" /\ visit[w].phase \in {"live", "save"}))
    /\ crossed' = (crossed \/ Selecting(w))
    /\ Leave(w)
    /\ UNCHANGED <<draft, shop, themes, selected, logoAssets, lastLogo, retired, visits>>

NextBuilder ==
    \E w \in Window :
        \/ Brainstorm(w) \/ UploadLogo(w) \/ DestroyLogo(w) \/ SaveBrainstorm(w) \/ SavePrefilled(w)
        \/ Answer(w) \/ Generate(w) \/ SaveThemes(w) \/ SaveDraft(w)
        \/ ConfirmDomain(w) \/ LoadShop(w) \/ SaveShop(w)
        \/ Publish(w) \/ ClearSelection(w) \/ SelectTheme(w) \/ ResolveLogo(w)
        \/ DestroyMonogram(w) \/ GoLive(w)
        \/ UpdateHero(w) \/ SaveHero(w) \/ CutShort(w)

-----------------------------------------------------------------------------
\* Properties.

Publishing(w) == visit[w].op = "publish" /\ visit[w].phase \in {"logo", "destroy", "live", "save"}

\* The steps are only walked forwards, and a store that is live stays so under
\* its domain, but for a request during which another one saved, a publication that
\* was cut, and the moment in which one has saved the store and not the draft.
OnlyOvertakenSavesGoBack ==
    [][\/ torn'
       \/ /\ draft'.step >= draft.step
          /\ shop.live => shop'.live
          /\ shop.live => shop'.slug = shop.slug \/ \E w \in Window : Publishing(w)]_builderVars

\* A live store wears one theme, but for two publications that chose at a
\* time; and no publication deletes its logo: only a brainstorm that brings a
\* new one does, under a store that is not published again.
LiveStoreIsComplete ==
    shop.live =>
        /\ ~crossed /\ (\A w \in Window : visit[w].op # "publish") => Cardinality(selected) = 1
        /\ ~torn /\ (\A w \in Window : ~Publishing(w)) => shop.logo \in logoAssets \cup retired
=============================================================================
