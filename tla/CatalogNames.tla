---------------------------- MODULE CatalogNames ----------------------------
(***************************************************************************)
(* How the rows of one catalog table get their slugs: categories,          *)
(* attributes (whose slug is called key) or products, created and renamed  *)
(* by hand from several tabs, and applied in a batch from what Gemini      *)
(* proposed.                                                               *)
(*                                                                         *)
(* A slug is chosen from a read of the slugs there are, and the unique     *)
(* index of (storeId, slug) over the rows that are not removed decides     *)
(* when it is written.  A slug is its words followed by the numbers        *)
(* appended to it.                                                         *)
(***************************************************************************)
EXTENDS Naturals, SequencesExt, Records

CONSTANTS
    Clerk,       \* the callers
    Name,        \* display names
    Typed,       \* the ones somebody types, rather than Gemini
    WordsOf,     \* what slugify makes of a name
    Fallback,    \* what it makes of a name without Latin characters
    Reserved,    \* RESERVED_ATTRIBUTE_KEYS
    Long,        \* words as long as a key may be
    RawProposal, \* what Gemini may answer
    MaxProposed, \* MAX_GENERATED_CATEGORIES, MAX_GENERATED_ATTRIBUTES
    MaxValues,   \* MAX_VALUES_PER_ATTRIBUTE
    Room,        \* MAX_ATTRIBUTES_PER_STORE
    MaxFiled,    \* bounds how many rows are ever inserted
    MaxWrites,   \* bounds how many calls are made
    NoKey        \* a name proposed or typed without a slug

ASSUME NameBounds == {MaxProposed, MaxValues, Room, MaxFiled, MaxWrites} \subseteq Nat
ASSUME WordsOfNames == WordsOf \in [Name -> STRING] /\ Typed \subseteq Name

\* Gemini's answer as it is parsed: a key is one word, before numbers are appended to it.
RawOption == [text : STRING, hex : BOOLEAN]
RawEntry == [name : Name, key : {NoKey} \cup [{1} -> STRING],
             style : {"list", "chip", "swatch", "unknown"}, values : Seq(RawOption)]

ASSUME AnswersAreParsed == RawProposal \subseteq Seq(RawEntry) /\ NoKey \notin Seq(STRING \cup Nat)

VARIABLES
    kind,     \* "category", "attribute" or "product": the table
    raw,      \* what Gemini answered
    entries,  \* the rows that are not removed, by id
    filed,    \* ids given so far
    call,     \* what each clerk's call has in memory
    calls     \* calls so far

nameVars == <<kind, raw, entries, filed, call, calls>>

NoCall == [op |-> "none"]

InitNames ==
    /\ kind \in {"category", "attribute", "product"}
    /\ raw \in (IF kind = "product" THEN {<<>>} ELSE RawProposal)
    /\ entries = <<>>
    /\ filed = 0
    /\ call = [c \in Clerk |-> NoCall]
    /\ calls = 0

Taken == {entries[e].slug : e \in DOMAIN entries}
TakenNames == {entries[e].name : e \in DOMAIN entries}

-----------------------------------------------------------------------------
\* The rules.

Numbered(slug, k) == IF k = 1 THEN slug ELSE Append(slug, k)

\* buildUniqueSlug.  No instance comes to the random suffix that follows
\* MAX_SLUG_ATTEMPTS numbers.
UniqueSlug(candidate, taken) ==
    LET k == CHOOSE n \in 1..(Cardinality(taken) + 1) :
               /\ Numbered(candidate, n) \notin taken
               /\ \A i \in 1..(n - 1) : Numbered(candidate, i) \in taken
    IN  Numbered(candidate, k)

\* slugify, slugifyToken: a slug asked for, or the one of the name.
Candidate(name, key) == IF key = NoKey THEN <<WordsOf[name]>> ELSE key

\* isReservedAttributeKey
IsReserved(slug) == kind = "attribute" /\ Len(slug) = 1 /\ slug[1] \in Reserved

\* findSwatchPairingViolations: a swatch needs a colour on every value, and
\* any other style none.
PairingHolds(style, values) ==
    \A i \in DOMAIN values : values[i].hex = (style = "swatch")

\* What the length check of the DTO and createBatch's assertDraftIsValid let
\* through.
Fits(key) == IF key = NoKey THEN TRUE ELSE Len(key) = 1 \/ key[1] # Long

\* assertDraftIsValid, and the DTO's bound on the values.
DraftIsValid(entry) ==
    /\ ~IsReserved(Candidate(entry.name, entry.key))
    /\ PairingHolds(entry.style, entry.values)
    /\ Len(entry.values) <= MaxValues

\* Mutant of IsThere: only the slug is compared.
HasItsSlug(entry, names, slugs) ==
    /\ entry.key # NoKey \/ WordsOf[entry.name] # Fallback
    /\ Candidate(entry.name, entry.key) \in slugs

\* planCatalogWrite: an entry is skipped for its name, or for its slug unless
\* that is the fallback of a name that has no other.
IsThere(entry, names, slugs) ==
    \/ entry.name \in names
    \/ /\ entry.key # NoKey \/ WordsOf[entry.name] # Fallback
       /\ Candidate(entry.name, entry.key) \in slugs

Consider(plan, entry) ==
    LET names == TakenNames \cup {plan[i].name : i \in DOMAIN plan}
        slugs == Taken \cup {plan[i].slug : i \in DOMAIN plan}
    IN  IF IsThere(entry, names, slugs) THEN plan
        ELSE Append(plan, [name |-> entry.name,
               slug |-> UniqueSlug(Candidate(entry.name, entry.key), slugs)])

Plan(batch) == FoldLeft(Consider, <<>>, batch)

-----------------------------------------------------------------------------
\* sanitizeGeneratedCatalog.  A raw attribute has a name, maybe a key, a style
\* and values with a text and maybe a colour; a text that has not the right
\* length is "".

Without(list, Drop(_)) == SelectSeq(list, LAMBDA x : ~Drop(x))

\* sanitizeValues: the first of each text.
KeepFirst(kept, value) ==
    IF value.text = "" \/ \E i \in DOMAIN kept : kept[i].text = value.text
    THEN kept ELSE Append(kept, value)

SanitizedValues(values) == FoldLeft(KeepFirst, <<>>, values)

\* resolveDisplayStyle
ShownStyle(style, values) ==
    CASE style = "unknown" -> "list"
      [] style = "swatch" /\ \E i \in DOMAIN values : ~values[i].hex -> "chip"
      [] OTHER -> style

Uncolored(values) == [i \in DOMAIN values |-> [values[i] EXCEPT !.hex = FALSE]]

\* sanitizeAttribute, in the list of those proposed before it; a category has
\* only a name.
Sanitize(proposed, entry) ==
    LET values == SanitizedValues(entry.values)
        style == ShownStyle(entry.style, values)
        key == IF kind = "category" THEN NoKey
               ELSE UniqueSlug(Candidate(entry.name, entry.key),
                               {proposed[i].key : i \in DOMAIN proposed})
    IN  IF \/ Len(proposed) = MaxProposed
           \/ \E i \in DOMAIN proposed : proposed[i].name = entry.name
           \/ kind # "category" /\ (IsReserved(key) \/ Len(values) \notin 2..MaxValues)
        THEN proposed
        ELSE Append(proposed,
               IF kind = "category"
               THEN [name |-> entry.name, key |-> NoKey, style |-> "list", values |-> <<>>]
               ELSE [name |-> entry.name, key |-> key, style |-> style,
                     values |-> IF style = "swatch" THEN values ELSE Uncolored(values)])

Proposal == FoldLeft(Sanitize, <<>>, raw)

-----------------------------------------------------------------------------
\* The calls.  rivals counts the rows that others inserted or renamed since
\* the call read, and disturbed tells whether one was removed or renamed.

Begin(c, op, memory) ==
    /\ call[c] = NoCall
    /\ calls < MaxWrites
    /\ calls' = calls + 1
    /\ call' = [call EXCEPT ![c] = Spread(memory, [op |-> op, stamp |-> calls, rivals |-> 0, disturbed |-> FALSE])]
    /\ UNCHANGED <<kind, raw, entries, filed>>

Meanwhile(c, wrote, cleared) ==
    [d \in Clerk |->
        IF d = c \/ call[d] = NoCall THEN call[d]
        ELSE [call[d] EXCEPT !.rivals = @ + wrote, !.disturbed = @ \/ cleared]]

HasRoom(count) == kind = "attribute" => Cardinality(DOMAIN entries) + count <= Room

\* create: of a category, an attribute or a product.
LoadCreateEntry(c) ==
    /\ HasRoom(1)
    /\ \E name \in Typed :
         LET candidate == Candidate(name, NoKey)
         IN  /\ ~IsReserved(candidate)
             /\ Begin(c, "create", [name |-> name, id |-> 0, candidate |-> candidate,
                    slug |-> UniqueSlug(candidate, Taken), retried |-> FALSE])

\* update with another slug, which its own slug does not keep it from.
LoadRename(c) ==
    \E e \in DOMAIN entries, words \in {WordsOf[name] : name \in Typed} :
        /\ entries[e].slug # <<words>>
        /\ ~IsReserved(<<words>>)
        /\ Begin(c, "rename", [name |-> entries[e].name, id |-> e, candidate |-> <<words>>,
               slug |-> UniqueSlug(<<words>>, Taken \ {entries[e].slug}), retried |-> FALSE])

\* The unique index, which leaves the row itself out.
IsFree(id, slug) ==
    \A e \in DOMAIN entries : e # id => entries[e].slug # slug

SavesOne(c) == call[c].op \in {"create", "rename"}

\* The id of a created row is fresh when the INSERT is made.
TargetOf(c) == IF call[c].op = "create" THEN filed + 1 ELSE call[c].id

SaveEntry(c) ==
    /\ SavesOne(c)
    /\ IsFree(TargetOf(c), call[c].slug)
    /\ TargetOf(c) <= MaxFiled
    /\ entries' = Spread([e \in {TargetOf(c)} |-> [name |-> call[c].name, slug |-> call[c].slug,
                                                 payload |-> "none"]], entries)
    /\ filed' = IF call[c].op = "create" THEN filed + 1 ELSE filed
    /\ call' = [Meanwhile(c, 1, call[c].op = "rename") EXCEPT ![c] = NoCall]
    /\ UNCHANGED <<kind, raw, calls>>

\* Mutant of RetrySlug: the second try is made with the slug of the first.
SameSlug(c) == call[c].slug

\* A category's and an attribute's second slug is chosen like the first
\* (saveUnique), a product's ends with the time (runUnique), which is another
\* one for each call.
RetrySlug(c) ==
    IF kind = "product" THEN Append(Append(call[c].candidate, 0), call[c].stamp)
    ELSE UniqueSlug(call[c].candidate,
           {entries[e].slug : e \in DOMAIN entries \ {call[c].id}})

MayRetry(c) == ~call[c].retried /\ (kind = "product" => call[c].op = "create")

\* The unique index refuses the first write, and the slugs are read again.
Retry(c) ==
    /\ SavesOne(c)
    /\ ~IsFree(TargetOf(c), call[c].slug)
    /\ MayRetry(c)
    /\ call' = [call EXCEPT ![c].slug = RetrySlug(c), ![c].retried = TRUE]
    /\ UNCHANGED <<kind, raw, entries, filed, calls>>

\* It refuses the second one as well: the caller gets an error.
GivesUp(c) ==
    /\ SavesOne(c)
    /\ ~IsFree(TargetOf(c), call[c].slug)
    /\ ~MayRetry(c)
    /\ call' = [call EXCEPT ![c] = NoCall]
    /\ UNCHANGED <<kind, raw, entries, filed, calls>>

RemoveEntry(c) ==
    /\ call[c] = NoCall
    /\ calls < MaxWrites
    /\ calls' = calls + 1
    /\ \E e \in DOMAIN entries : entries' = [d \in DOMAIN entries \ {e} |-> entries[d]]
    /\ call' = Meanwhile(c, 0, TRUE)
    /\ UNCHANGED <<kind, raw, filed>>

\* requestProposal asks again, and in the end fails, when nothing is usable.
IsProposed == Proposal # <<>>

\* What the checks of a batch of attributes let through.
MayApply(batch) ==
    /\ \A i \in DOMAIN batch : Fits(batch[i].key) /\ DraftIsValid(batch[i])
    /\ Plan(batch) # <<>>
    /\ HasRoom(Len(Plan(batch)))

\* applyCatalog, of what was proposed or of the names alone: createBatch reads
\* what is there and plans.
LoadApply(c) ==
    /\ kind # "product"
    /\ IsProposed
    /\ \E keepKeys \in BOOLEAN :
         LET batch == [i \in DOMAIN Proposal |->
                         IF keepKeys THEN Proposal[i] ELSE [Proposal[i] EXCEPT !.key = NoKey]]
         IN  /\ MayApply(batch)
             /\ Begin(c, "apply", [plan |-> Plan(batch),
                    payload |-> IF keepKeys THEN "unedited" ELSE "names"])

\* The transaction inserts everything, or nothing if one slug is taken by now.
CommitApply(c) ==
    /\ call[c].op = "apply"
    /\ LET plan == call[c].plan
           rows == [e \in filed + 1..filed + Len(plan) |->
                      [name |-> plan[e - filed].name, slug |-> plan[e - filed].slug,
                       payload |-> IF call[c].disturbed THEN "none" ELSE call[c].payload]]
       IN  /\ filed + Len(plan) <= MaxFiled
           /\ IF \A i \in DOMAIN plan : IsFree(0, plan[i].slug)
              THEN /\ entries' = Spread(rows, entries)
                   /\ filed' = filed + Len(plan)
                   /\ call' = [Meanwhile(c, Len(plan), FALSE) EXCEPT ![c] = NoCall]
              ELSE /\ call' = [call EXCEPT ![c] = NoCall]
                   /\ UNCHANGED <<entries, filed>>
    /\ UNCHANGED <<kind, raw, calls>>

NextNames ==
    \E c \in Clerk :
        \/ LoadCreateEntry(c) \/ LoadRename(c) \/ SaveEntry(c) \/ Retry(c) \/ GivesUp(c)
        \/ RemoveEntry(c) \/ LoadApply(c) \/ CommitApply(c)

-----------------------------------------------------------------------------
\* Properties.

\* The one retry of saveUnique and runUnique is enough against one rival: a
\* call fails for its slug only if two others wrote rows since it read.  Only
\* the rename of a product, which is not retried, fails for one.
OneRivalIsSurvived ==
    [][\A c \in Clerk :
         GivesUp(c) => \/ call[c].rivals >= 2
                       \/ kind = "product" /\ call[c].op = "rename" /\ call[c].rivals = 1]_nameVars

\* Two applies of the same payload never make two rows of one name.
NoNameTwice ==
    \A d, e \in DOMAIN entries :
        /\ d # e
        /\ entries[d].payload # "none"
        /\ entries[d].payload = entries[e].payload
        => entries[d].name # entries[e].name

\* createBatch finds nothing wrong with what sanitizeGeneratedCatalog returns,
\* except a key that a number makes too long.
NothingIsRefused ==
    \A i \in DOMAIN Proposal :
        /\ DraftIsValid(Proposal[i])
        /\ ~Fits(Proposal[i].key) => Proposal[i].key[1] = Long

\* Whatever Gemini answered, a proposal can be applied unedited; and a double
\* click applies it once, at the same time or one after the other, whatever is
\* created beside it, as long as nothing is removed or renamed while it runs.
ProposalsApplyOnce == NothingIsRefused /\ NoNameTwice
=============================================================================
