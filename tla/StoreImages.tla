---------------------------- MODULE StoreImages ----------------------------
(***************************************************************************)
(* The images of a store: rows in PostgreSQL that point to assets on       *)
(* Cloudinary, which no transaction spans.  A product has a list of        *)
(* images, a category and the store's hero block have one each.            *)
(*                                                                         *)
(* A call loads its row, uploads, saves and destroys, one step each, and   *)
(* any other call may come in between.  A save is one step: it writes the  *)
(* columns of the entity, as loaded, over what there is by then.           *)
(***************************************************************************)
EXTENDS Naturals, FiniteSets, Functions, Records

CONSTANTS
    ImageTab,  \* the callers
    MaxImages,  \* MAX_PRODUCT_IMAGES
    MaxAssets,  \* bounds the uploads
    MaxShots,   \* bounds the calls
    MaxFaults   \* bounds failing uploads and deletes, and restarts

ASSUME ImageBounds == {MaxImages, MaxAssets, MaxShots, MaxFaults} \subseteq Nat

VARIABLES
    images,    \* product_images: from the ids there are to assets
    shown,     \* the image of the category and of the hero, 0 if none
    cloud,     \* the assets on Cloudinary
    uploaded,  \* assets uploaded so far; an id is never given twice
    shot,      \* what each tab's call has in memory
    doubtful,  \* history: assets a fault or an overtaken save touched
    shots,     \* calls so far
    faults     \* faults so far

imageVars == <<images, shown, cloud, uploaded, shot, doubtful, shots, faults>>

Column == {"category", "hero"}
Asset == 1..MaxAssets
NoShot == [phase |-> "none"]

InitImages ==
    /\ images = [n \in {1} |-> 1]
    /\ shown = [c \in Column |-> 0]
    /\ cloud = {1}
    /\ uploaded = 1
    /\ shot = [t \in ImageTab |-> NoShot]
    /\ doubtful = {}
    /\ shots = 0
    /\ faults = 0

Rows == DOMAIN images

-----------------------------------------------------------------------------
Load(t, phase, memory) ==
    /\ shot[t] = NoShot
    /\ shots < MaxShots
    /\ shots' = shots + 1
    /\ shot' = [shot EXCEPT ![t] = Spread(memory, [phase |-> phase, new |-> {}, old |-> 0])]
    /\ UNCHANGED <<images, shown, cloud, uploaded, doubtful, faults>>

At(t, phase, kinds) == shot[t].phase = phase /\ shot[t].kind \in kinds
NowAt(t, phase) == shot' = [shot EXCEPT ![t].phase = phase]
End(t) == shot' = [shot EXCEPT ![t] = NoShot]

Fault == faults < MaxFaults /\ faults' = faults + 1

\* The assets a call has to do with.
Handled(t) == shot[t].new \cup ({shot[t].old} \ {0})

-----------------------------------------------------------------------------
\* addImages.

\* Mutant of LeavesRoom: the files of this call are not counted.
RoomForOne(count, files) == count < MaxImages

LeavesRoom(count, files) == count + files <= MaxImages

LoadForAdd(t) ==
    \E files \in 1..2 :
        /\ LeavesRoom(Cardinality(Rows), files)
        /\ Load(t, "upload", [kind |-> "add", files |-> files, rows |-> Rows])

\* updateHero destroys the previous image before it saves the new one.
DestroysFirst(t) == shot[t].kind = "replace" /\ shot[t].column = "hero" /\ shot[t].old # 0

\* All files of the call at once.
Upload(t) ==
    /\ At(t, "upload", {"add", "replace"})
    /\ LET new == uploaded + 1..uploaded + shot[t].files
       IN  /\ new \subseteq Asset
           /\ cloud' = cloud \cup new
           /\ uploaded' = uploaded + shot[t].files
           /\ shot' = [shot EXCEPT ![t].new = new,
                                   ![t].phase = IF DestroysFirst(t) THEN "destroy" ELSE "save"]
    /\ UNCHANGED <<images, shown, doubtful, shots, faults>>

\* One file fails, and with it the call; others may have gone through.
UploadFails(t) ==
    /\ At(t, "upload", {"add", "replace"})
    /\ Fault
    /\ \E more \in 0..(shot[t].files - 1) :
         LET new == uploaded + 1..uploaded + more
         IN  /\ new \subseteq Asset
             /\ cloud' = cloud \cup new
             /\ uploaded' = uploaded + more
             /\ doubtful' = doubtful \cup new
    /\ End(t)
    /\ UNCHANGED <<images, shown, shots>>

\* An asset's number serves as the id of the row it is inserted with.
SaveImages(t) ==
    /\ At(t, "save", {"add"})
    /\ images' = Spread([a \in shot[t].new |-> a], images)
    /\ End(t)
    /\ UNCHANGED <<shown, cloud, uploaded, doubtful, shots, faults>>

-----------------------------------------------------------------------------
\* updateImage, and removeImage of a product.

LoadForText(t) ==
    \E i \in Rows : Load(t, "save", [kind |-> "text", row |-> i, old |-> images[i]])

\* save() inserts a row that is gone again.  generateId gives it another id; it
\* is known by its old one here.
SaveText(t) ==
    /\ At(t, "save", {"text"})
    /\ images' = Spread([i \in {shot[t].row} |-> shot[t].old], images)
    /\ doubtful' = IF shot[t].row \in Rows THEN doubtful ELSE doubtful \cup Handled(t)
    /\ End(t)
    /\ UNCHANGED <<shown, cloud, uploaded, shots, faults>>

LoadForRemoval(t) ==
    \E i \in Rows : Load(t, "drop", [kind |-> "drop", row |-> i, old |-> images[i]])

DropRow(t) ==
    /\ At(t, "drop", {"drop"})
    /\ images' = Restrict(images, Rows \ {shot[t].row})
    /\ NowAt(t, "destroy")
    /\ UNCHANGED <<shown, cloud, uploaded, doubtful, shots, faults>>

-----------------------------------------------------------------------------
\* The category's replaceImage, removeImage and update, and updateHero with an
\* image and without.

LoadForReplace(t) ==
    \E c \in Column :
        Load(t, "upload", [kind |-> "replace", column |-> c, files |-> 1, old |-> shown[c]])

LoadForClear(t) ==
    Load(t, "save", [kind |-> "clear", column |-> "category", old |-> shown["category"]])

\* An edit of the text saves the image it loaded as well.
LoadForEdit(t) ==
    \E c \in Column :
        Load(t, "save", [kind |-> "edit", column |-> c, old |-> shown[c]])

Written(t) ==
    CASE shot[t].kind = "replace" -> CHOOSE a \in shot[t].new : TRUE
      [] shot[t].kind = "clear" -> 0
      [] OTHER -> shot[t].old

\* Mutant of LeavesBehind: only a replaced image is destroyed.
LeavesReplaced(t) == shot[t].kind = "replace" /\ shot[t].old # 0 /\ ~DestroysFirst(t)

\* previousPublicId is destroyed next, if there was one.
LeavesBehind(t) == shot[t].kind # "edit" /\ shot[t].old # 0 /\ ~DestroysFirst(t)

SaveColumn(t) ==
    /\ At(t, "save", {"replace", "clear", "edit"})
    /\ LET c == shot[t].column
       IN  /\ shown' = [shown EXCEPT ![c] = Written(t)]
           /\ doubtful' = IF shown[c] = shot[t].old THEN doubtful
                         ELSE doubtful \cup Handled(t) \cup ({shown[c]} \ {0})
    /\ IF LeavesBehind(t) THEN NowAt(t, "destroy") ELSE End(t)
    /\ UNCHANGED <<images, cloud, uploaded, shots, faults>>

\* destroyImage, which never throws.
DestroyOld(t) ==
    /\ shot[t].phase = "destroy"
    /\ \/ cloud' = cloud \ {shot[t].old} /\ UNCHANGED <<doubtful, faults>>
       \/ Fault /\ doubtful' = doubtful \cup {shot[t].old} /\ UNCHANGED cloud
    /\ IF DestroysFirst(t) THEN NowAt(t, "save") ELSE End(t)
    /\ UNCHANGED <<images, shown, uploaded, shots>>

\* The server restarts in the middle of a call.
CutOff(t) ==
    /\ shot[t].phase \in {"save", "destroy"}
    /\ Fault
    /\ doubtful' = doubtful \cup Handled(t)
    /\ End(t)
    /\ UNCHANGED <<images, shown, cloud, uploaded, shots>>

NextImages ==
    \E t \in ImageTab :
        \/ LoadForAdd(t) \/ Upload(t) \/ UploadFails(t) \/ SaveImages(t)
        \/ LoadForText(t) \/ SaveText(t) \/ LoadForRemoval(t) \/ DropRow(t)
        \/ LoadForReplace(t) \/ LoadForClear(t) \/ LoadForEdit(t) \/ SaveColumn(t)
        \/ DestroyOld(t) \/ CutOff(t)

-----------------------------------------------------------------------------
\* Properties.

Pointed == Range(images) \cup (Range(shown) \ {0})
Idle == \A t \in ImageTab : shot[t] = NoShot

\* The moment in which updateHero has destroyed what the hero still shows.
InHeroWindow(a) == \E t \in ImageTab : At(t, "save", {"replace"}) /\ DestroysFirst(t) /\ shot[t].old = a

\* No page shows an image that is gone, and no asset is kept that nothing
\* shows, but for those a failing call of Cloudinary, a restart or a save over
\* somebody else's change touched, and for the moment inside updateHero.
AssetsMatchRows ==
    \A a \in 1..uploaded \ doubtful :
        /\ a \in Pointed => a \in cloud \/ InHeroWindow(a)
        /\ Idle /\ a \in cloud => a \in Pointed

\* A product gets more images than it may have only if two calls that add
\* some counted before either inserted, or if a removed row was inserted again.
CapIsPassedOnlyByOvertakenCounts ==
    [][\/ Cardinality(DOMAIN images') <= MaxImages
       \/ DOMAIN images' \subseteq Rows
       \/ \E t \in ImageTab :
            /\ shot'[t] = NoShot
            /\ \/ At(t, "save", {"add"}) /\ ~(Rows \subseteq shot[t].rows)
               \/ At(t, "save", {"text"}) /\ shot[t].row \notin Rows]_imageVars
=============================================================================
