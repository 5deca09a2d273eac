------------------------------ MODULE Textures ------------------------------
(***************************************************************************)
(* The texture table of the Screen module (src/modules/screen.c).  A       *)
(* texture of vita2d is the block of graphics memory it occupies; a block  *)
(* may be handed out again after its release.  Nothing reads the id field  *)
(* of a table entry, so an entry is its texture pointer.                   *)
(***************************************************************************)
EXTENDS Naturals

CONSTANTS
  Blocks,       \* blocks of graphics memory
  NULL,
  MAX_TEXTURES

ASSUME TextureAssumption == MAX_TEXTURES \in Nat /\ NULL \notin Blocks

VARIABLES
  heap,         \* blocks allocated and not freed
  textures,     \* id -> texture or NULL
  numTextures,  \* ids given out so far; never decreases
  handles,      \* [id, texture]: what the script got for what, and has not freed
  crashed       \* TRUE iff the program stored through a null pointer

texture_vars == <<textures, numTextures, handles, crashed>>

Ids == 0 .. MAX_TEXTURES - 1

Init ==
  /\ heap = {}
  /\ textures = [i \in Ids |-> NULL] /\ numTextures = 0
  /\ handles = {} /\ crashed = FALSE

-----------------------------------------------------------------------------
(* The table *)

\* Mutation: the slot of a freed texture is used again.
new_textureReuses(texture) ==
  LET free == {i \in Ids : textures[i] = NULL}
      id == CHOOSE i \in free : \A j \in free : i <= j
  IN IF free = {}
     THEN UNCHANGED <<textures, numTextures>>
     ELSE /\ textures' = [textures EXCEPT ![id] = texture]
          /\ numTextures' = IF id = numTextures THEN id + 1 ELSE numTextures

\* Mutation: one id too many.
new_textureOverruns(texture) ==
  IF numTextures > MAX_TEXTURES
  THEN UNCHANGED <<textures, numTextures>>
  ELSE /\ textures' = [textures EXCEPT ![numTextures] = texture]
       /\ numTextures' = numTextures + 1

\* The next id, if there is one left.
new_texture(texture) ==
  IF numTextures >= MAX_TEXTURES
  THEN UNCHANGED <<textures, numTextures>>
  ELSE /\ textures' = [textures EXCEPT ![numTextures] = texture]
       /\ numTextures' = numTextures + 1

get_texture(id) == IF id < numTextures THEN textures[id] ELSE NULL

\* Mutation: the pointer of a freed texture stays in the table.
del_textureKeeps(id) ==
  /\ id < numTextures
  /\ heap' = heap \ {textures[id]}
  /\ UNCHANGED textures

\* Freeing NULL does nothing.
del_texture(id) ==
  /\ id < numTextures
  /\ heap' = heap \ {textures[id]}
  /\ textures' = [textures EXCEPT ![id] = NULL]

-----------------------------------------------------------------------------
(* The functions of the module; one that throws early changes nothing *)

\* vita2d makes a texture: the script gets id for it unless the table is full, when
\* it gets an exception and nobody frees the texture.
Created(texture, id) ==
  /\ ~crashed
  /\ texture \in Blocks \ heap /\ heap' = heap \cup {texture}
  /\ new_texture(texture)
  /\ handles' = IF numTextures >= MAX_TEXTURES THEN handles
                ELSE handles \cup {[id |-> id, texture |-> texture]}
  /\ UNCHANGED crashed

load_PNG_file(texture) == Created(texture, numTextures)

\* load_jpg_file() and load_bmp_file() store the outcome of the comparison
\* new_texture(texture) < 0, which is 0 whenever they do not throw.
load_JPEG_file(texture) == Created(texture, 0)

\* So do the three create_empty_texture functions.
create_empty_texture(texture) == Created(texture, 0)

\* ... which do not look whether vita2d made a texture at all: an id is used up.
create_empty_textureNull ==
  /\ ~crashed
  /\ new_texture(NULL)
  /\ UNCHANGED <<heap, handles, crashed>>

free_texture(id) ==
  /\ ~crashed
  /\ del_texture(id)
  /\ handles' = {h \in handles : h.id # id}
  /\ UNCHANGED <<numTextures, crashed>>

\* What draw_texture() draws; NULL when it throws.
draw_texture(id) == get_texture(id)

\* The functions other than draw_texture() and free_texture() pass the value 0 of
\* textureId where JS_ToUint32() expects a pointer to it.
StoresToNull ==
  /\ ~crashed /\ crashed' = TRUE
  /\ UNCHANGED <<heap, textures, numTextures, handles>>

texture_get == StoresToNull
draw_texture_rotate == StoresToNull

Next ==
  \/ \E texture \in Blocks :
       \/ load_PNG_file(texture) \/ load_JPEG_file(texture)
       \/ create_empty_texture(texture)
  \/ create_empty_textureNull
  \/ \E id \in Ids : free_texture(id)
  \/ texture_get \/ draw_texture_rotate

Spec == Init /\ [][Next]_<<heap, texture_vars>>

-----------------------------------------------------------------------------
(* Properties *)

TextureTypes ==
  /\ heap \subseteq Blocks
  /\ textures \in [Ids -> Blocks \cup {NULL}]
  /\ numTextures \in 0 .. MAX_TEXTURES
  /\ handles \subseteq [id : Ids, texture : Blocks]
  /\ crashed \in BOOLEAN
  /\ \A i \in Ids : i >= numTextures => textures[i] = NULL

\* An id never comes to name another texture than the one it was made for, also
\* after free_texture(): a stale handle is refused, it does not draw something else.
IdsNeverReused ==
  [][\A i \in Ids : i < numTextures => textures'[i] \in {textures[i], NULL}]_textures

\* Every texture that was loaded or created and not freed is the one that is drawn
\* through the handle the script got for it.
HandleNamesTexture == \A h \in handles : draw_texture(h.id) = h.texture

=============================================================================
