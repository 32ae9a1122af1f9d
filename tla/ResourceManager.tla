--------------------------- MODULE ResourceManager ---------------------------
(***************************************************************************)
(* renderer/resource_manager: named resources are loaded into a registry,  *)
(* textures through the upload context, and begin_frame makes what was     *)
(* loaded visible.  There is a registry for each kind of resource and the  *)
(* four do not touch each other: a behaviour follows the one of `kind'.    *)
(* Every call is made by the render thread; the GPU runs beside it.        *)
(*                                                                         *)
(* What a description says and whether a file can be opened are not known  *)
(* to the manager: each outcome is a step.                                 *)
(***************************************************************************)
EXTENDS UploadContext, ResourceRegistry

CONSTANT MaxLevels  \* bound on the mip levels and layers of a texture

VARIABLES kind,      \* the registry that is followed
          pc,        \* the call that is in progress
          slot,      \* the slot that is being loaded
          levels,    \* mip levels and layers still to be uploaded
          textures,  \* the uploads of the texture made for each slot
          fonts,     \* the upload of m_fonts_texture, 0 before the first
          dirty,     \* need_to_recreate_atlas
          abandoned  \* slots whose load returned without an answer

ASSUME ManagerAssumption == MaxLevels \in Nat

regVars == vars  \* of the registry
loadVars == <<slot, levels, textures, abandoned>>
mgrVars == <<upVars, regVars, kind, pc, loadVars, fonts, dirty>>

Kinds == {"texture", "material", "font", "render_target"}

\* The constructor uploads the placeholder texture.
MgrInit == /\ UpInit
           /\ Init
           /\ kind \in Kinds
           /\ pc = "placeholder"
           /\ slot = Nowhere /\ levels = 0
           /\ textures = [a \in Address |-> {}]
           /\ fonts = 0 /\ dirty = FALSE
           /\ abandoned = {}
-----------------------------------------------------------------------------
\* A load of a name that is registered.
LoadFound(n) == /\ pc = "idle"
                /\ MakeSlotFound(n)
                /\ UNCHANGED <<upVars, kind, pc, loadVars, fonts, dirty>>

\* (The bounds leave room for what the load will queue and upload.)  The first font that is
\* loaded makes the placeholder, which registers with the atlas.
LoadInserted(n, a) ==
    /\ pc = "idle"
    /\ Len(m_pending_transitions) < MaxPending
    /\ recorded < MaxUploads
    /\ MakeSlotInserted(n, a)
    /\ pc' = "inserted"
    /\ slot' = a
    /\ textures' = [textures EXCEPT ![a] = {}]
    /\ abandoned' = abandoned \ {a}
    /\ dirty' = (dirty \/ (kind = "font" /\ fonts = 0))
    /\ UNCHANGED <<upVars, kind, levels, fonts>>

\* The outcomes of a load that end in a publication; some kinds sync at once.
Answer(status, syncs) == /\ Publish(slot, status)
                         /\ pc' = IF kind \in syncs THEN "eager" ELSE "idle"
                         /\ slot' = Nowhere
                         /\ UNCHANGED <<upVars, kind, levels, textures, abandoned, fonts>>


\* The description is wrong, or a font file cannot be opened.
LoadFails == pc = "inserted" /\ Answer("set_failed", {"font"}) /\ UNCHANGED dirty

\* The image of a texture cannot be opened, or a font file holds no font and the constructor
\* throws: nothing is published.
LoadAbandons ==
    /\ pc = "inserted"
    /\ kind \in {"texture", "font"}
    /\ pc' = "idle"
    /\ unpublished' = unpublished \ {slot}
    /\ abandoned' = abandoned \cup {slot}
    /\ slot' = Nowhere
    /\ UNCHANGED <<upVars, m_resources, entries, m_pending_transitions, syncing, holders, kind,
                   levels, textures, fonts, dirty>>

\* A new font registers with the atlas, which has to be made again.
LoadSucceeds == /\ pc = "inserted"
                /\ kind # "texture"
                /\ Answer("set_ready", {"font", "render_target"})
                /\ dirty' = (dirty \/ kind = "font")

\* A texture; one whose description makes no sense has no levels to upload.
LoadTexture == /\ pc = "inserted"
               /\ kind = "texture"
               /\ pc' = "uploading"
               /\ levels' \in {n \in 0 .. MaxLevels : recorded + n <= MaxUploads}
               /\ UNCHANGED <<upVars, regVars, kind, slot, textures, fonts, dirty, abandoned>>

LoadUploaded == /\ pc = "uploading"
                /\ levels = 0
                /\ Answer("set_ready", {})
                /\ UNCHANGED dirty

\* upload_2d_level asks for its slice: of the placeholder, a texture or the atlas.
TakeSlice == /\ \/ pc = "placeholder"
                \/ pc = "uploading" /\ levels > 0
                \/ pc = "atlas" /\ dirty
             /\ \E size \in Size : Slice(size)
             /\ UNCHANGED <<regVars, kind, pc, loadVars, fonts, dirty>>

\* The slice takes its second attempt, or the wait inside it ends.
SliceGoesOn == /\ \/ SliceRetries
                  \/ op = "slice" /\ Flushed
               /\ UNCHANGED <<regVars, kind, pc, loadVars, fonts, dirty>>

RecordPlaceholder == /\ pc = "placeholder"
                     /\ Record
                     /\ pc' = "idle"
                     /\ UNCHANGED <<regVars, kind, loadVars, fonts, dirty>>

RecordLevel == /\ pc = "uploading"
               /\ Record
               /\ levels' = levels - 1
               /\ textures' = [textures EXCEPT ![slot] = @ \cup {recorded'}]
               /\ UNCHANGED <<regVars, kind, pc, slot, fonts, dirty, abandoned>>

RecordAtlas == /\ pc = "atlas"
               /\ Record
               /\ fonts' = recorded'
               /\ dirty' = FALSE
               /\ UNCHANGED <<regVars, kind, pc, loadVars>>

\* Erasing the entry of a font that was loaded destroys the font, which leaves the atlas.
ErasesFont == /\ kind = "font"
              /\ \E a \in Address : Alive(a) /\ entries[a].own /\ ~ Alive(a)'

\* sync, inside a load.
EagerSync == /\ pc = "eager"
             /\ Sync
             /\ pc' = IF syncing' THEN "eager" ELSE "idle"
             /\ dirty' = (dirty \/ ErasesFont)
             /\ UNCHANGED <<upVars, kind, loadVars, fonts>>

ReleaseResource(a) == /\ pc = "idle"
                      /\ Release(a)
                      /\ UNCHANGED <<upVars, kind, pc, loadVars, fonts, dirty>>

BeginFrame == /\ pc = "idle"
              /\ pc' = IF m_pending_transitions = <<>> THEN "atlas" ELSE "frame"
              /\ UNCHANGED <<upVars, regVars, kind, loadVars, fonts, dirty>>

FrameSync == /\ pc = "frame"
             /\ Sync
             /\ pc' = IF syncing' THEN "frame" ELSE "atlas"
             /\ dirty' = (dirty \/ ErasesFont)
             /\ UNCHANGED <<upVars, kind, loadVars, fonts>>

\* Mutant: begin_frame does not flush.
FrameWithoutFlush == /\ pc = "atlas"
                     /\ ~ dirty
                     /\ pc' = "idle"
                     /\ UNCHANGED <<upVars, regVars, kind, loadVars, fonts, dirty>>

\* The atlas is up to date: flush, which waits if anything was recorded.
FrameFlush == /\ pc = "atlas"
              /\ op = "idle"
              /\ ~ dirty
              /\ \/ recording /\ Flush("flush") /\ pc' = "flush"
                 \/ FlushIdle /\ pc' = "idle"
              /\ UNCHANGED <<regVars, kind, loadVars, fonts, dirty>>

FrameEnds == /\ pc = "flush"
             /\ Flushed
             /\ pc' = "idle"
             /\ UNCHANGED <<regVars, kind, loadVars, fonts, dirty>>

\* The upload context goes after the registries and the resources they own.
Destroy == /\ pc = "idle"
           /\ pc' = "destroyed"
           /\ Flush("destroy") \/ DestroyIdle
           /\ UNCHANGED <<regVars, kind, loadVars, fonts, dirty>>

Destroyed == /\ pc = "destroyed"
             /\ Flushed
             /\ UNCHANGED <<regVars, kind, pc, loadVars, fonts, dirty>>

GpuExecutes == Execute /\ UNCHANGED <<regVars, kind, pc, loadVars, fonts, dirty>>

\* What the render thread goes on with once it has called the manager.
Proceed == \/ LoadFails \/ LoadAbandons \/ LoadSucceeds \/ LoadTexture \/ LoadUploaded
           \/ TakeSlice \/ SliceGoesOn \/ RecordPlaceholder \/ RecordLevel \/ RecordAtlas
           \/ EagerSync \/ FrameSync \/ FrameFlush \/ FrameEnds \/ Destroyed

MgrNext == \/ \E n \in Name : LoadFound(n)
           \/ \E n \in Name, a \in Address : LoadInserted(n, a)
           \/ \E a \in Address : ReleaseResource(a)
           \/ BeginFrame
           \/ Destroy
           \/ Proceed
           \/ GpuExecutes

\* The render thread begins a frame again and again until the manager is destroyed, and
\* does not stop inside a call; the GPU works off its commands.
MgrSpec == /\ MgrInit /\ [][MgrNext]_mgrVars
           /\ WF_mgrVars(Proceed) /\ SF_mgrVars(BeginFrame) /\ WF_mgrVars(GpuExecutes)
-----------------------------------------------------------------------------
\* Types of the manager's own state.
MgrTypeOK == /\ UpTypeOK
             /\ TypeOK
             /\ kind \in Kinds
             /\ pc \in {"placeholder", "idle", "inserted", "uploading", "eager", "frame", "atlas",
                        "flush", "destroyed"}
             /\ slot \in Address \cup {Nowhere}
             /\ levels \in 0 .. MaxLevels
             /\ textures \in [Address -> SUBSET Upload]
             /\ fonts \in 0 .. MaxUploads
             /\ dirty \in BOOLEAN
             /\ abandoned \in SUBSET Address

Ready(a) == Alive(a) /\ entries[a].status = "ready"

\* Between two calls, what a ready texture and the font atlas show has reached the GPU:
\* begin_frame syncs first and flushes after.
ReadyIsUploaded ==
    (pc = "idle" /\ op = "idle") =>
        /\ \A a \in Address : Ready(a) => textures[a] \subseteq 1 .. flushed
        /\ ~ dirty => fonts <= flushed

\* A load is answered: its slot becomes ready or failed, or nobody holds it any more,
\* unless its data could not be opened or read, which leaves it unloaded.
Unanswered(a) == Alive(a) /\ entries[a].status = "unloaded"

=============================================================================
