----------------------------- MODULE Storefront -----------------------------
(***************************************************************************)
(* What a shopper finds in a live store: the product listing with its      *)
(* filters and search, the sidebar that counts what each filter would      *)
(* leave, and the navigation; and the owner's edits they read.             *)
(*                                                                         *)
(* A request sees one state of the catalogue.  Facets, categories and      *)
(* products are addressed by their row, not by slug; a search is one word, *)
(* which the full-text index or the trigram index finds in a product.      *)
(***************************************************************************)
EXTENDS Integers, Sequences, FiniteSets, FiniteSetsExt

CONSTANTS
    Good,          \* the products
    Shelf,         \* the categories
    Facet,         \* the attributes
    AxisFacet,     \* the attributes that define variants
    Choice,        \* the attributes' values
    FacetOf,       \* the attribute of each value
    Stocked,       \* what each product is when it is first filed
    TopPrice,      \* MAX_PRICE_AMOUNT
    PriceBand,     \* the price filters shoppers set
    Picks,         \* the attribute filters shoppers set
    MaxFilterFacets, \* MAX_FILTER_FACETS
    MaxFilterValues, \* MAX_FILTER_VALUES_PER_FACET
    Word,          \* what shoppers search for
    NoFilter,      \* a filter that is not set
    MaxShopEdits   \* bounds the owner's edits

ASSUME AxisFacetsAreFacets == AxisFacet \subseteq Facet
ASSUME EveryChoiceHasItsFacet == FacetOf \in [Choice -> Facet]
ASSUME ShopBound == MaxShopEdits \in Nat
ASSUME NoFilterIsNone == NoFilter \notin Shelf \cup Facet \cup Word

\* The rows as they are made: no product is without a variant, and no price is above the top.
SortRow == [price : 0..TopPrice, stock : BOOLEAN, choices : SUBSET Choice]
GoodRow == [status : {"draft", "active", "archived", "removed"}, filed : SUBSET Shelf,
            variants : SUBSET SortRow, described : SUBSET Choice, words : SUBSET Word, near : SUBSET Word]

ASSUME GoodsAreStocked ==
    /\ TopPrice \in Nat /\ Stocked \in [Good -> GoodRow]
    /\ \A g \in Good : Stocked[g].variants # {} /\ IsFiniteSet(Stocked[g].variants)

\* The facets that a query string names, in its order, each with its values.  A
\* facet or value that is named again is merged with the first.
Chunk == [of : Facet, values : Seq(Choice)]

ASSUME PicksAreMerged ==
    /\ {MaxFilterFacets, MaxFilterValues} \subseteq Nat \ {0}
    /\ Picks \subseteq Seq(Chunk)
    /\ \A picked \in Picks : \A i, j \in DOMAIN picked : picked[i].of = picked[j].of => i = j
    /\ \A picked \in Picks : \A i \in DOMAIN picked :
         LET values == picked[i].values
         IN  \A m, n \in DOMAIN values : values[m] = values[n] => m = n

VARIABLES
    goods,      \* the product rows with their variants and links
    shelves,    \* the category rows
    filters,    \* the attributes that are filterable
    shopEdits   \* edits so far

shopVars == <<goods, shelves, filters, shopEdits>>

InitShop ==
    /\ goods = Stocked
    /\ shelves = [c \in Shelf |-> [published |-> TRUE, removed |-> FALSE]]
    /\ filters = Facet
    /\ shopEdits = 0

-----------------------------------------------------------------------------
\* The owner.  A removed row keeps its columns and its links.

ShopEdit == shopEdits < MaxShopEdits /\ shopEdits' = shopEdits + 1

SetStatus(g, status) ==
    /\ ShopEdit
    /\ goods[g].status \notin {status, "removed"}
    /\ goods' = [goods EXCEPT ![g].status = status]
    /\ UNCHANGED <<shelves, filters>>

File(g, shelf) ==
    /\ ShopEdit
    /\ goods[g].status # "removed"
    /\ shelf \subseteq {c \in Shelf : ~shelves[c].removed}
    /\ goods' = [goods EXCEPT ![g].filed = shelf]
    /\ UNCHANGED <<shelves, filters>>

DropVariant(g) ==
    /\ ShopEdit
    /\ goods[g].status # "removed"
    /\ Cardinality(goods[g].variants) > 1
    /\ \E v \in goods[g].variants : goods' = [goods EXCEPT ![g].variants = @ \ {v}]
    /\ UNCHANGED <<shelves, filters>>

DropGood(g) ==
    /\ ShopEdit
    /\ goods[g].status # "removed"
    /\ goods' = [goods EXCEPT ![g].status = "removed"]
    /\ UNCHANGED <<shelves, filters>>

ShowShelf(c) ==
    /\ ShopEdit
    /\ ~shelves[c].removed
    /\ shelves' = [shelves EXCEPT ![c].published = ~@]
    /\ UNCHANGED <<goods, filters>>

DropShelf(c) ==
    /\ ShopEdit
    /\ ~shelves[c].removed
    /\ shelves' = [shelves EXCEPT ![c].removed = TRUE]
    /\ UNCHANGED <<goods, filters>>

OfferFilter(f) ==
    /\ ShopEdit
    /\ filters' = IF f \in filters THEN filters \ {f} ELSE filters \cup {f}
    /\ UNCHANGED <<goods, shelves>>

NextShop ==
    \/ \E g \in Good : \/ SetStatus(g, "active") \/ SetStatus(g, "archived")
                       \/ \E shelf \in SUBSET Shelf : File(g, shelf)
                       \/ DropVariant(g) \/ DropGood(g)
    \/ \E c \in Shelf : ShowShelf(c) \/ DropShelf(c)
    \/ \E f \in Facet : OfferFilter(f)

-----------------------------------------------------------------------------
\* The listing.

\* recalculateAggregates: the columns the listing reads.
Prices(g) == {v.price : v \in goods[g].variants}
CheapestAt(g) == Min(Prices(g))
DearestAt(g) == Max(Prices(g))
InStock(g) == \E v \in goods[g].variants : v.stock

OnSale == {g \in Good : goods[g].status = "active"}

\* A query string that names a category, a band of prices, a word and choices.
Query == [shelf : Shelf \cup {NoFilter}, band : PriceBand, inStock : BOOLEAN,
          word : Word \cup {NoFilter}, picked : Picks]

\* parseAttributeFilter drops the facets and the values that are too many.
FirstValues(values) == {values[i] : i \in DOMAIN values \cap 1..MaxFilterValues}
Heard(picked) == DOMAIN picked \cap 1..MaxFilterFacets

PickedOf(query, f) ==
    {v \in Choice :
       /\ FacetOf[v] = f
       /\ \E i \in Heard(query.picked) :
            query.picked[i].of = f /\ v \in FirstValues(query.picked[i].values)}

\* A facet that is not filterable, or of which nothing is picked, is no filter.
ResolvedFacets(query) == {f \in filters : PickedOf(query, f) # {}}

Carries(g, values, f) ==
    IF f \in AxisFacet
    THEN \E v \in goods[g].variants : v.choices \cap values # {}
    ELSE goods[g].described \cap values # {}

IsOnShelf(g, c) ==
    /\ c \in goods[g].filed
    /\ shelves[c].published /\ ~shelves[c].removed

Except(query, filter) == [query EXCEPT ![filter] = NoFilter]
AnyPrice == <<0, TopPrice>>

\* The predicates, but for one facet.
Passes(g, query, exceptFacet) ==
    /\ query.shelf # NoFilter => IsOnShelf(g, query.shelf)
    /\ CheapestAt(g) >= query.band[1] /\ CheapestAt(g) <= query.band[2]
    /\ query.inStock => InStock(g)
    /\ query.word # NoFilter => query.word \in goods[g].words
    /\ \A f \in ResolvedFacets(query) \ {exceptFacet} : Carries(g, PickedOf(query, f), f)

Matching(query, exceptFacet) == {g \in OnSale : Passes(g, query, exceptFacet)}

Exact(query) == Matching(query, NoFilter)
Fuzzy(query) == {g \in Matching(Except(query, "word"), NoFilter) : query.word \in goods[g].near}
IsFuzzy(query) == query.word # NoFilter /\ Exact(query) = {}
Found(query) == IF IsFuzzy(query) THEN Fuzzy(query) ELSE Exact(query)

\* The autocomplete dropdown; nothing is near enough for it but a match.
Suggested(word) == {g \in OnSale : word \in goods[g].words}

-----------------------------------------------------------------------------
\* The sidebar and the navigation.

\* The join leaves out the removed: TypeORM adds that to every entity it joins.
CountCategory(query, c) ==
    Cardinality({g \in Matching(Except(query, "shelf"), NoFilter) : IsOnShelf(g, c)})

\* Mutant of OtherFacets: a facet's own selection applies to its counts.
AllFacets(f) == NoFilter

\* The facet that a facet's counts leave out.
OtherFacets(f) == f

CountValue(query, v) ==
    LET f == FacetOf[v]
    IN  Cardinality({g \in Matching(query, OtherFacets(f)) : Carries(g, {v}, f)})

PriceRange(query) ==
    LET found == Matching([query EXCEPT !.band = AnyPrice], NoFilter)
    IN  IF found = {} THEN <<0, 0>>
        ELSE <<Min({CheapestAt(g) : g \in found}), Max({DearestAt(g) : g \in found})>>

Navigation == {c \in Shelf : shelves[c].published /\ ~shelves[c].removed}
CountOnShelf(c) == Cardinality({g \in OnSale : c \in goods[g].filed})

-----------------------------------------------------------------------------
\* Properties.

NoQuery == [shelf |-> NoFilter, band |-> AnyPrice, inStock |-> FALSE, word |-> NoFilter, picked |-> <<>>]

\* What a shopper gets for a query, or nothing: the counts know no fuzzy matches.
Shows(query, count) == Cardinality(Exact(query)) = count \/ IsFuzzy(query)

CategoriesAgree(query) ==
    \A c \in Shelf : Shows([query EXCEPT !.shelf = c], CountCategory(query, c))

\* A value is picked instead of those of its facet, which is named last if it is new.
Click(picked, v) ==
    LET f == FacetOf[v]
        chunk == [of |-> f, values |-> <<v>>]
    IN  IF \E i \in DOMAIN picked : picked[i].of = f
        THEN [i \in DOMAIN picked |-> IF picked[i].of = f THEN chunk ELSE picked[i]]
        ELSE Append(picked, chunk)

ValueAgrees(query, v) ==
    LET click == [query EXCEPT !.picked = Click(query.picked, v)]
    IN  IF \E i \in Heard(click.picked) : click.picked[i].of = FacetOf[v]
        THEN Shows(click, CountValue(query, v))
        ELSE Exact(click) = Exact(query)

PricesAgree(query) == Exact([query EXCEPT !.band = PriceRange(query)]) = Exact(query)

\* The categories' counts ignore the category that is set, the price range the band.
CountsAgree ==
    /\ \A query \in Query :
         /\ query.shelf = NoFilter => CategoriesAgree(query)
         /\ query.band = AnyPrice => PricesAgree(query)
         /\ \A v \in Choice : FacetOf[v] \in filters => ValueAgrees(query, v)
    /\ \A c \in Navigation : Shows([NoQuery EXCEPT !.shelf = c], CountOnShelf(c))
    /\ \A word \in Word : Suggested(word) \subseteq Found([NoQuery EXCEPT !.word = word])

\* The number beside a filter is how many products a click on it lists, with
\* every other filter as it is, but beside a facet that the query string names
\* after MaxFilterFacets others: there a click changes nothing.  The ends of the
\* price slider leave nothing out; the number beside a category in the navigation
\* is what its page lists; what is suggested for a word, a search for it lists.
CountsAreWhatAClickLists == [][ shopEdits' > shopEdits => CountsAgree' ]_shopVars
=============================================================================
