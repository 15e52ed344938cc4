------------------------------ MODULE Swatches ------------------------------
(***************************************************************************)
(* An attribute that the storefront draws in a style, and the colours of   *)
(* its values: a swatch needs a colour on every value, and no other style  *)
(* may keep one.  Owners' tabs edit the attribute and its values at once;  *)
(* each edit reads, checks and then writes in statements of its own.       *)
(*                                                                         *)
(* Values are not removed here (ProductMatrix removes them).               *)
(***************************************************************************)
EXTENDS Naturals, Records

CONSTANTS
    Painter,      \* the owner's tabs
    Tint,         \* the attribute's values, those to be added included
    FirstTints,   \* the values it has at first
    MaxStrokes    \* bounds the edits

ASSUME FirstTintsAreTints == FirstTints \subseteq Tint
ASSUME StrokesBound == MaxStrokes \in Nat

VARIABLES
    style,     \* the attribute's displayStyle
    colour,    \* each value's swatchHex, as "hex" or "null"; "absent" before it is added
    stroke,    \* each tab's edit under way
    strokes    \* edits so far

swatchVars == <<style, colour, stroke, strokes>>

Style == {"swatch", "list"}

\* findSwatchPairingViolations finds none among these colours.
Pairs(drawn, hexes) == hexes \subseteq {"absent", IF drawn = "swatch" THEN "hex" ELSE "null"}
HexesOf(values) == {values[v] : v \in Tint}
Whole == Pairs(style, HexesOf(colour))

NoStroke == [at |-> "idle"]
StrokeAt(p, at) == stroke[p].at = at

InitSwatches ==
    /\ style \in Style
    /\ colour = [v \in Tint |-> IF v \notin FirstTints THEN "absent"
                                ELSE IF style = "swatch" THEN "hex" ELSE "null"]
    /\ stroke = [p \in Painter |-> NoStroke]
    /\ strokes = 0

\* An edit reads the attribute with its values, and remembers both.
BeginStroke(p, at, memory) ==
    /\ StrokeAt(p, "idle")
    /\ strokes < MaxStrokes
    /\ strokes' = strokes + 1
    /\ stroke' = [stroke EXCEPT ![p] = Spread([at |-> at, style |-> style, read |-> colour], memory)]
    /\ UNCHANGED <<style, colour>>

EndStroke(p) == stroke' = [stroke EXCEPT ![p] = NoStroke]

-----------------------------------------------------------------------------
\* update.

\* Mutant of MayBecome: the pairing is not asserted.
MayAlwaysBecome(drawn) == TRUE

\* Colours that a style has no use for are cleared, not refused.
MayBecome(drawn) == drawn = "swatch" => Pairs(drawn, HexesOf(colour))

\* The key the request gives is the attribute's own, or free, or refused: it is
\* reserved, or another attribute takes it first.
LoadAttribute(p, drawn, key) ==
    /\ MayBecome(drawn)
    /\ BeginStroke(p, IF drawn = "swatch" THEN "key" ELSE "clear", [drawn |-> drawn, key |-> key])

\* A request that says nothing of the style saves the one it read.
LoadToRename(p, key) == BeginStroke(p, "key", [drawn |-> style, key |-> key])

\* applyDisplayStyle clears them in a statement of its own.
Uncoloured(values) == [v \in Tint |-> IF values[v] = "absent" THEN "absent" ELSE "null"]

ClearColours(p) ==
    /\ StrokeAt(p, "clear")
    /\ colour' = Uncoloured(colour)
    /\ stroke' = [stroke EXCEPT ![p].at = "cleared", ![p].read = Uncoloured(@)]
    /\ UNCHANGED <<style, strokes>>

AtTheKey(p) == stroke[p].at \in {"key", "cleared"}

RefuseKey(p) ==
    /\ AtTheKey(p)
    /\ stroke[p].key = "refused"
    /\ EndStroke(p)
    /\ UNCHANGED <<style, colour, strokes>>

\* save() writes the attribute with the values it was read with.  A value that
\* was added since would lose its attribute, which its column does not allow:
\* then save() may fail.
TintsOf(values) == {v \in Tint : values[v] # "absent"}

SaveAttribute(p) ==
    /\ AtTheKey(p)
    /\ stroke[p].key # "refused"
    /\ \/ style' = stroke[p].drawn
       \/ TintsOf(stroke[p].read) # TintsOf(colour) /\ style' = style
    /\ EndStroke(p)
    /\ UNCHANGED <<colour, strokes>>

-----------------------------------------------------------------------------
\* addValue and updateValue.

LoadToAdd(p, v, hex) ==
    /\ colour[v] = "absent"
    /\ Pairs(style, {hex})
    /\ BeginStroke(p, "add", [value |-> v, hex |-> hex, given |-> hex])

InsertTint(p) ==
    /\ StrokeAt(p, "add")
    /\ \/ /\ colour[stroke[p].value] = "absent"
          /\ colour' = [colour EXCEPT ![stroke[p].value] = stroke[p].hex]
       \/ \* the slug was taken meanwhile
          colour[stroke[p].value] # "absent" /\ colour' = colour
    /\ EndStroke(p)
    /\ UNCHANGED <<style, strokes>>

\* A colour that the request leaves out is "absent"; one it gives as null counts
\* as left out when the pairing is asserted, and not when it is written.
Checked(v, given) == IF given = "hex" THEN "hex" ELSE colour[v]
Painted(v, given) == IF given = "absent" THEN colour[v] ELSE given

LoadToPaint(p, v, given) ==
    /\ colour[v] # "absent"
    /\ Pairs(style, {Checked(v, given)})
    /\ BeginStroke(p, "paint", [value |-> v, hex |-> Painted(v, given), given |-> given])

SaveTint(p) ==
    /\ StrokeAt(p, "paint")
    /\ colour' = [colour EXCEPT ![stroke[p].value] = stroke[p].hex]
    /\ EndStroke(p)
    /\ UNCHANGED <<style, strokes>>

NextSwatches ==
    \E p \in Painter :
       \/ \E key \in {"kept", "refused"} :
            \/ \E drawn \in Style : LoadAttribute(p, drawn, key)
            \/ LoadToRename(p, key)
       \/ ClearColours(p) \/ RefuseKey(p) \/ SaveAttribute(p)
       \/ \E v \in Tint : \/ \E hex \in {"hex", "null"} : LoadToAdd(p, v, hex)
                          \/ \E given \in {"hex", "null", "absent"} : LoadToPaint(p, v, given)
       \/ InsertTint(p) \/ SaveTint(p)

-----------------------------------------------------------------------------
\* Properties.

\* What an edit read is no longer so.
OvertakenStroke(p) == style # stroke[p].style \/ colour # stroke[p].read

\* The request gives null for the colour of a swatch.
Blanks(p) == StrokeAt(p, "paint") /\ stroke[p].given = "null"

\* A style change that found the pair whole, or has cleared the colours.
FoundWhole(p) ==
    \/ Pairs(stroke[p].style, HexesOf(stroke[p].read))
    \/ StrokeAt(p, "cleared")

EndsUndisturbed(p) ==
    /\ stroke[p].at \in {"key", "cleared", "add", "paint"} /\ stroke'[p] = NoStroke
    /\ FoundWhole(p) /\ ~OvertakenStroke(p)

RefusedLate(p) == StrokeAt(p, "cleared") /\ stroke[p].key = "refused"

\* An edit that nobody overtook leaves the pair whole if it found it so, though
\* a style change clears the colours in a statement before it saves the style.
\* Two do not: a style change whose key is refused when the colours are gone
\* already, and one that gives null for the colour of a swatch.
UndisturbedEditsKeepThePair ==
    [][ \A p \in Painter :
          EndsUndisturbed(p) /\ ~RefusedLate(p) /\ ~Blanks(p) => Whole' ]_swatchVars
=============================================================================
