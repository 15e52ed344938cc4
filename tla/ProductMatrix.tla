--------------------------- MODULE ProductMatrix ---------------------------
(***************************************************************************)
(* The variants of one product and the attribute values they are made of,  *)
(* edited from several dashboard tabs.                                     *)
(*                                                                         *)
(* Every handler reads first, without a lock, checks the matrix of         *)
(* variants as a whole, and then writes in one transaction that reads      *)
(* nothing of it again.  A transaction is one step here: its rows become   *)
(* visible together, and what its own statements could meet in between is  *)
(* what the unique index of (productId, optionsKey) decides.  Prices,      *)
(* stock and the product's derived columns are in Orders.  An options key  *)
(* is the set of the value ids it joins.                                   *)
(***************************************************************************)
EXTENDS Naturals, SequencesExt, Records

CONSTANTS
    Tab,           \* the callers
    Value,         \* attribute values, AttributeOf each of which
    AttributeOf,
    Axes,          \* attributes with isVariantAxis; the others describe a product
    Unborn,        \* values that do not exist in the initial state
    MaxVariants,   \* MAX_VARIANTS_PER_PRODUCT
    MaxAxes,       \* MAX_VARIANT_AXES_PER_PRODUCT
    MaxIds,        \* bounds how many variants are ever inserted
    MaxEdits       \* bounds how many calls are made

ASSUME MatrixBounds == {MaxVariants, MaxAxes, MaxIds, MaxEdits} \subseteq Nat
ASSUME ValuesHaveAttributes == AttributeOf \in [Value -> Range(AttributeOf)]
ASSUME UnbornAreValues == Unborn \subseteq Value
ASSUME ValuesAreFinite == IsFiniteSet(Value)

Attribute == Range(AttributeOf)
Variant == 1..MaxIds

VARIABLES
    product,    \* "none", "live" or "removed"
    variant,    \* the product_variants rows and their join rows
    value,      \* what became of each product_attribute_values row
    attribute,  \* and of each product_attributes row
    described,  \* the product's descriptive values
    born,       \* how many variants were ever inserted
    edit,       \* what each tab's call has in memory
    edits       \* calls so far

matrixRows == <<product, variant, value, attribute, described>>
matrixVars == <<matrixRows, born, edit, edits>>

Absent == [there |-> FALSE, key |-> {}, links |-> {}]
Row(combination) == [there |-> TRUE, key |-> combination, links |-> combination]
NoEdit == [op |-> "none"]

\* The rows whose ids follow the ones there were, one per combination.
Inserted(rows, from, combinations) ==
    LET list == SetToSeq(combinations)
    IN  [v \in Variant |-> IF v - from \in DOMAIN list THEN Row(list[v - from]) ELSE rows[v]]

NoVariants == [v \in Variant |-> Absent]

\* No product, a plain one, or one in several values of an axis.
InitMatrix ==
    /\ value = [x \in Value |-> IF x \in Unborn THEN "unborn" ELSE "live"]
    /\ attribute = [a \in Attribute |-> "live"]
    /\ described = {}
    /\ \E combinations \in {{}, {{}}}
             \cup {{{x} : x \in {y \in Value \ Unborn : AttributeOf[y] = a}} : a \in Axes} :
         /\ product = IF combinations = {} THEN "none" ELSE "live"
         /\ variant = Inserted(NoVariants, 0, combinations)
         /\ born = Cardinality(combinations)
    /\ edit = [t \in Tab |-> NoEdit]
    /\ edits = 0

There == {v \in Variant : variant[v].there}
LiveValues == {x \in Value : value[x] = "live"}

\* What a load of the variants finds: join rows to a removed value are left out.
Existing == [v \in There |-> variant[v].links \cap LiveValues]

-----------------------------------------------------------------------------
\* assertVariantMatrix and what it is made of.  A matrix maps each row the
\* product will end up with to its combination.

IsAxisValue(x) == x \in LiveValues /\ AttributeOf[x] \in Axes /\ attribute[AttributeOf[x]] = "live"

Signature(combination) == {AttributeOf[x] : x \in combination}

\* buildAxisSignature
IsCombination(combination) ==
    /\ Cardinality(combination) <= MaxAxes
    /\ \A x \in combination : IsAxisValue(x)
    /\ Cardinality(Signature(combination)) = Cardinality(combination)

\* assertOneShape
OneShape(matrix) ==
    \A v, w \in DOMAIN matrix : Signature(matrix[v]) = Signature(matrix[w])

\* assertBareVariantIsAlone
BareIsAlone(matrix) == {} \in Range(matrix) => Cardinality(DOMAIN matrix) = 1

ValidMatrix(matrix) ==
    /\ Cardinality(DOMAIN matrix) \in 1..MaxVariants
    /\ \A v \in DOMAIN matrix : IsCombination(matrix[v])
    /\ OneShape(matrix)
    /\ BareIsAlone(matrix)
    /\ IsInjective(matrix)

\* The existing rows and new ones beside them.
With(combinations) ==
    [e \in ({"row"} \X There) \cup ({"new"} \X combinations) |->
        IF e[1] = "row" THEN Existing[e[2]] ELSE e[2]]

-----------------------------------------------------------------------------
\* Each call reads and checks in one step, and writes in another.  It
\* remembers the rows it read for the property below.

Read(t, op, memory) ==
    /\ edit[t] = NoEdit
    /\ edits < MaxEdits
    /\ edits' = edits + 1
    /\ edit' = [edit EXCEPT ![t] = Spread(memory, [op |-> op, rows |-> matrixRows])]
    /\ UNCHANGED <<matrixRows, born>>

Write(t, ops) ==
    /\ edit[t].op \in ops
    /\ edit' = [edit EXCEPT ![t] = NoEdit]
    /\ UNCHANGED edits

\* UQ_variants_product_options
KeysAreFree(rows) ==
    \A v, w \in Variant :
        v # w /\ rows[v].there /\ rows[w].there => rows[v].key # rows[w].key

\* ProductService.create
LoadCreate(t) ==
    /\ product = "none"
    /\ \E combinations \in SUBSET {c \in SUBSET Value : IsCombination(c)} :
         /\ ValidMatrix([c \in combinations |-> c])
         /\ Read(t, "create", [insert |-> combinations])

\* addVariant, for a product of the store
LoadAdd(t) ==
    /\ product = "live"
    /\ \E combination \in SUBSET Value :
         /\ ValidMatrix(With({combination}))
         /\ Read(t, "insert", [insert |-> {combination}])

\* buildCombinations: the cross product of the axes, a set of values of each.
CrossProduct(axes) ==
    {c \in SUBSET UNION Range(axes) :
        \A a \in DOMAIN axes : Cardinality(c \cap axes[a]) = 1}

\* generateVariants: it leaves out the keys that are taken.
LoadGenerate(t) ==
    /\ product = "live"
    /\ \E attributes \in SUBSET Axes :
       \E axes \in [attributes -> SUBSET {x \in Value : IsAxisValue(x)} \ {{}}] :
         /\ attributes # {}
         /\ \A a \in attributes : \A x \in axes[a] : AttributeOf[x] = a
         /\ Cardinality(CrossProduct(axes)) <= MaxVariants
         /\ LET new == CrossProduct(axes) \ {variant[v].key : v \in There}
            IN  /\ new # {}
                /\ ValidMatrix(With(new))
                /\ Read(t, "insert", [insert |-> new])

\* A clash of options keys answers 409 and leaves nothing.
InsertRows(t) ==
    /\ Write(t, {"create", "insert"})
    /\ LET rows == Inserted(variant, born, edit[t].insert)
           count == Cardinality(edit[t].insert)
       IN  /\ born + count <= MaxIds
           /\ IF KeysAreFree(rows)
              THEN /\ variant' = rows
                   /\ born' = born + count
                   /\ product' = IF edit[t].op = "create" THEN "live" ELSE product
              ELSE UNCHANGED <<variant, born, product>>
    /\ UNCHANGED <<value, attribute, described>>

\* updateVariant: with a combination, or with the one the variant has.
LoadUpdate(t) ==
    /\ product = "live"
    /\ \E v \in There : \E combination \in SUBSET Value :
       \E key \in {combination} \cup (IF combination = Existing[v] THEN {variant[v].key} ELSE {}) :
         /\ ValidMatrix([Existing EXCEPT ![v] = combination])
         /\ Read(t, "update", [target |-> v, links |-> Existing[v], key |-> key])

\* replaceVariantOptions, then save(variant).  The entity still has the
\* values it was loaded with, and save() brings the join rows back to them, and
\* the row back from a removal.
UpdateRow(t) ==
    /\ Write(t, {"update"})
    /\ LET rows == [variant EXCEPT ![edit[t].target] =
                      [there |-> TRUE, key |-> edit[t].key, links |-> edit[t].links]]
       IN  variant' = IF KeysAreFree(rows) THEN rows ELSE variant
    /\ UNCHANGED <<product, value, attribute, described, born>>

\* removeVariant: existing.length === 1 is refused.
MayRemove(v) == v \in There /\ Cardinality(There) # 1

LoadRemove(t) ==
    /\ product = "live"
    /\ \E v \in Variant : MayRemove(v) /\ Read(t, "remove", [target |-> v])

RemoveRow(t) ==
    /\ Write(t, {"remove"})
    /\ variant' = [variant EXCEPT ![edit[t].target] = Absent]
    /\ UNCHANGED <<product, value, attribute, described, born>>

-----------------------------------------------------------------------------
\* The product row: its descriptive values, and its removal.

\* resolveDescriptiveValueIds
IsDescriptive(x) == x \in LiveValues /\ AttributeOf[x] \notin Axes

LoadDescribe(t) ==
    /\ product = "live"
    /\ \E values \in SUBSET {x \in Value : IsDescriptive(x)} :
         values # described /\ Read(t, "describe", [insert |-> values])

\* save(product) brings the row back from a removal.
Describe(t) ==
    /\ Write(t, {"describe"})
    /\ described' = edit[t].insert
    /\ product' = "live"
    /\ UNCHANGED <<variant, value, attribute, born>>

LoadRemoveProduct(t) ==
    /\ product = "live"
    /\ Read(t, "remove product", [target |-> 0])

RemoveProduct(t) ==
    /\ Write(t, {"remove product"})
    /\ product' = "removed"
    /\ variant' = NoVariants
    /\ UNCHANGED <<value, attribute, described, born>>

-----------------------------------------------------------------------------
\* The attributes and their values.

\* Mutant of InUse: the variants' join rows are not counted.
IsDescribedBy(values) == product = "live" /\ described \cap values # {}

\* countProductsUsingValues
InUse(values) ==
    /\ product = "live"
    /\ \/ described \cap values # {}
       \/ \E v \in There : variant[v].links \cap values # {}

ValuesOf(a) == {x \in LiveValues : AttributeOf[x] = a}

LoadRemoveValue(t) ==
    \E x \in LiveValues :
        /\ attribute[AttributeOf[x]] = "live"
        /\ ~InUse({x})
        /\ Read(t, "remove value", [target |-> x])

RemoveValue(t) ==
    /\ Write(t, {"remove value"})
    /\ value' = [value EXCEPT ![edit[t].target] = "removed"]
    /\ UNCHANGED <<product, variant, attribute, described, born>>

LoadRemoveAttribute(t) ==
    \E a \in Attribute :
        /\ attribute[a] = "live"
        /\ ~InUse(ValuesOf(a))
        /\ Read(t, "remove attribute", [target |-> a])

RemoveAttribute(t) ==
    /\ Write(t, {"remove attribute"})
    /\ value' = [x \in Value |-> IF AttributeOf[x] = edit[t].target /\ value[x] = "live"
                                 THEN "removed" ELSE value[x]]
    /\ attribute' = [attribute EXCEPT ![edit[t].target] = "removed"]
    /\ UNCHANGED <<product, variant, described, born>>

LoadAddValue(t) ==
    \E x \in Value :
        /\ value[x] = "unborn"
        /\ attribute[AttributeOf[x]] = "live"
        /\ Read(t, "add value", [target |-> x])

\* The value's attribute is a foreign key, and a removed one is still there.
AddValue(t) ==
    /\ Write(t, {"add value"})
    /\ value' = [value EXCEPT ![edit[t].target] = "live"]
    /\ UNCHANGED <<product, variant, attribute, described, born>>

-----------------------------------------------------------------------------
EditProduct(t) ==
    \/ LoadCreate(t) \/ LoadAdd(t) \/ LoadGenerate(t) \/ InsertRows(t)
    \/ LoadUpdate(t) \/ UpdateRow(t) \/ LoadRemove(t) \/ RemoveRow(t)
    \/ LoadDescribe(t) \/ Describe(t) \/ LoadRemoveProduct(t) \/ RemoveProduct(t)

EditAttributes(t) ==
    \/ LoadRemoveValue(t) \/ RemoveValue(t)
    \/ LoadRemoveAttribute(t) \/ RemoveAttribute(t)
    \/ LoadAddValue(t) \/ AddValue(t)

NextMatrix == \E t \in Tab : EditProduct(t) \/ EditAttributes(t)

MatrixSpec == InitMatrix /\ [][NextMatrix]_matrixVars

-----------------------------------------------------------------------------
\* Properties.

\* What the storefront can offer: a product has a variant, its variants are one
\* matrix of live values, and no live value hangs on a removed attribute.
Sound ==
    /\ product = "live" =>
         /\ ValidMatrix(Existing)
         /\ \A v \in There : variant[v].links \subseteq LiveValues
         /\ described \subseteq LiveValues
    /\ \A x \in LiveValues : attribute[AttributeOf[x]] = "live"

Overtaken(t) == edit[t].op # "none" /\ edit[t].rows # matrixRows

\* The checks of each handler are enough for everything but a handler that
\* another one overtook between its reads and its transaction: no other step,
\* in any order of calls, empties a product, mixes shapes, repeats a
\* combination, passes a cap or removes what is in use.
OnlyOvertakenEditsBreakTheMatrix ==
    [][Sound => \/ Sound'
                \/ \E t \in Tab : Overtaken(t) /\ edit'[t] = NoEdit]_matrixVars

\* What variant-rows.util.ts says of replaceVariantOptions: it replaces the
\* join rows and the key together.
OptionsKeyIsTheCombination ==
    \A v \in There : variant[v].links = variant[v].key
=============================================================================
