--------------------------- MODULE GraphicsProofs ---------------------------
(***************************************************************************)
(* Proofs about Graphics, for every amount of graphics memory, every size  *)
(* of the texture table and every set of fonts and pixel sizes.            *)
(***************************************************************************)
EXTENDS Graphics, TLAPS

(* The inductive invariant *)

\* Pointers to graphics memory point to allocated memory.
PointersLive ==
  /\ \A i \in Ids : textures[i] # NULL => textures[i] \in heap
  /\ \A f \in FontObjects, s \in Sizes : font[f].sizes[s] # NULL => font[f].sizes[s] \in heap

\* No two pointers are to the same block.
PointersApart ==
  /\ \A i, j \in Ids : i # j /\ textures[i] # NULL => textures[i] # textures[j]
  /\ \A i \in Ids, f \in FontObjects, s \in Sizes :
       textures[i] # NULL => textures[i] # font[f].sizes[s]
  /\ \A f, g \in FontObjects, s, t \in Sizes :
       <<f, s>> # <<g, t>> /\ font[f].sizes[s] # NULL => font[f].sizes[s] # font[g].sizes[t]

\* Nothing is lost until the texture table is full.
NothingLost ==
  numTextures < MAX_TEXTURES =>
    \A b \in heap : \/ \E i \in Ids : textures[i] = b
                    \/ \E f \in FontObjects, s \in Sizes : font[f].sizes[s] = b

\* From the lookup of the atlas to the drawing a text function refers to the cached
\* atlas of its font and size, unless its font was freed meanwhile.
CallHoldsAtlas ==
  /\ call.stage # "none" => call.font \in FontObjects /\ call.size \in Sizes
  /\ call.stage \in {"text", "draw"} /\ ~call.freed =>
       call.block # NULL /\ font[call.font].sizes[call.size] = call.block

IInv == TypeOK /\ PointersLive /\ PointersApart /\ NothingLost /\ CallHoldsAtlas

-----------------------------------------------------------------------------
(* What the steps do *)

\* The holders of OneOwner are the texture table and the caches of the fonts.
LEMMA OwnersApart ==
  ASSUME PointersLive, PointersApart, NothingLost, TypeOK
  PROVE  OneOwner
<1> USE FontAssumption
<1>1. \A h \in Holders : \/ \E i \in Ids : h = <<"texture", i>> /\ Held(h) = textures[i]
                         \/ \E f \in FontObjects, s \in Sizes :
                              h = <<f, s>> /\ Held(h) = font[f].sizes[s]
  BY DEF Holders, Held
<1>2. \A i \in Ids : <<"texture", i>> \in Holders /\ Held(<<"texture", i>>) = textures[i]
  BY DEF Holders, Held
<1>3. \A f \in FontObjects, s \in Sizes :
        <<f, s>> \in Holders /\ Held(<<f, s>>) = font[f].sizes[s]
  BY DEF Holders, Held
<1>4. \A h \in Holders : Held(h) # NULL => Held(h) \in heap
  BY <1>1 DEF PointersLive
<1>5. ASSUME NEW g \in Holders, NEW h \in Holders, g # h, Held(g) # NULL
      PROVE  Held(g) # Held(h)
  <2>1. CASE \E i \in Ids : g = <<"texture", i>> /\ Held(g) = textures[i]
    BY <1>1, <1>5, <2>1 DEF PointersApart
  <2>2. CASE \E f \in FontObjects, s \in Sizes : g = <<f, s>> /\ Held(g) = font[f].sizes[s]
    BY <1>1, <1>5, <2>2 DEF PointersApart
  <2> QED
    BY <1>1, <2>1, <2>2
<1>6. ASSUME numTextures < MAX_TEXTURES PROVE heap = {Held(h) : h \in Holders} \ {NULL}
  <2>1. ASSUME NEW b \in heap PROVE b # NULL /\ \E h \in Holders : b = Held(h)
    <3>1. b # NULL
      BY TextureAssumption DEF TypeOK, TextureTypes
    <3>2. CASE \E i \in Ids : textures[i] = b
      BY <1>2, <3>1, <3>2
    <3>3. CASE \E f \in FontObjects, s \in Sizes : font[f].sizes[s] = b
      BY <1>3, <3>1, <3>3
    <3> QED
      BY <1>6, <3>2, <3>3 DEF NothingLost
  <2> QED
    BY <1>4, <2>1
<1> QED
  BY <1>4, <1>5, <1>6 DEF OneOwner

\* The memory part of the invariant.
Memory == PointersLive /\ PointersApart /\ NothingLost

\* A texture is made and gets the next id, or is lost because there is none.
LEMMA CreatedKeepsMemory ==
  ASSUME TypeOK, Memory, NEW texture \in Blocks, NEW id,
         numTextures < MAX_TEXTURES => id \in Ids, Created(texture, id), UNCHANGED font
  PROVE  Memory' /\ TextureTypes'
<1> USE TextureAssumption
<1>1. /\ textures \in [Ids -> Blocks \cup {NULL}] /\ numTextures \in Nat /\ heap \subseteq Blocks
      /\ texture \notin heap /\ texture # NULL /\ heap' = heap \cup {texture}
  BY DEF TypeOK, TextureTypes, Created
<1>2. CASE numTextures >= MAX_TEXTURES
  <2>1. textures' = textures /\ numTextures' = numTextures /\ ~(numTextures < MAX_TEXTURES)
    BY <1>1, <1>2 DEF Created, new_texture
  <2> QED
    BY <1>1, <1>2, <2>1 DEF Memory, PointersLive, PointersApart, NothingLost, TypeOK, TextureTypes, Created
<1>3. CASE numTextures < MAX_TEXTURES
  <2>1. /\ numTextures \in Ids /\ numTextures' = numTextures + 1
        /\ textures' = [textures EXCEPT ![numTextures] = texture]
    BY <1>1, <1>3 DEF Created, new_texture, Ids
  <2>2. textures[numTextures] = NULL
    BY <1>1, <2>1 DEF TypeOK, TextureTypes
  <2>3. TextureTypes'
    BY <1>1, <1>3, <2>1 DEF TypeOK, TextureTypes, Ids, Created
  <2>4. PointersLive'
    BY <1>1, <2>1 DEF Memory, PointersLive
  <2>5. PointersApart'
    BY <1>1, <2>1, <2>2 DEF Memory, PointersLive, PointersApart
  <2>6. NothingLost'
    <3> SUFFICES ASSUME NEW b \in heap'
                 PROVE  \/ \E i \in Ids : textures'[i] = b
                        \/ \E f \in FontObjects, s \in Sizes : font[f].sizes[s] = b
      BY DEF NothingLost
    <3>1. CASE b = texture
      BY <1>1, <2>1, <3>1
    <3>2. CASE b \in heap
      <4>1. b # NULL
        BY <1>1, <3>2
      <4> QED
        BY <1>1, <1>3, <2>1, <2>2, <3>2, <4>1 DEF Memory, NothingLost
    <3> QED
      BY <1>1, <3>1, <3>2
  <2> QED
    BY <2>3, <2>4, <2>5, <2>6 DEF Memory
<1> QED
  BY <1>1, <1>2, <1>3

\* Only the block of the texture itself is released.
LEMMA FreeTextureKeepsMemory ==
  ASSUME TypeOK, Memory, NEW id \in Ids, free_texture(id), UNCHANGED font
  PROVE  /\ Memory' /\ TextureTypes'
         /\ \A f \in FontObjects, s \in Sizes :
              font[f].sizes[s] # NULL => font[f].sizes[s] \in heap'
<1> USE TextureAssumption
<1>1. /\ textures \in [Ids -> Blocks \cup {NULL}] /\ heap \subseteq Blocks
      /\ heap' = heap \ {textures[id]} /\ textures' = [textures EXCEPT ![id] = NULL]
      /\ numTextures' = numTextures
  BY DEF TypeOK, TextureTypes, free_texture, del_texture
<1>2. TextureTypes'
  BY <1>1 DEF TypeOK, TextureTypes, free_texture
<1>3. PointersLive'
  BY <1>1 DEF Memory, PointersLive, PointersApart
<1>4. PointersApart'
  BY <1>1 DEF Memory, PointersApart
<1>5. NothingLost'
  BY <1>1 DEF Memory, NothingLost
<1> QED
  BY <1>2, <1>3, <1>4, <1>5 DEF Memory, PointersLive
\* free_font_cache() and the finalizer empty the cache of one font and release its
\* atlases, and no other block.
LEMMA EmptyCacheKeepsMemory ==
  ASSUME TypeOK, Memory, NEW g \in FontObjects,
         heap' = heap \ F!Entries(g), UNCHANGED <<textures, numTextures>>,
         \A f \in FontObjects, s \in Sizes :
           font'[f].sizes[s] = IF f = g THEN NULL ELSE font[f].sizes[s]
  PROVE  Memory'
<1> USE TextureAssumption
<1>1. heap \subseteq Blocks /\ \A i \in Ids : textures[i] \in Blocks \cup {NULL}
  BY DEF TypeOK, TextureTypes
<1>2. \A b : b \in F!Entries(g) <=> b # NULL /\ \E s \in Sizes : font[g].sizes[s] = b
  BY DEF F!Entries
<1>3. PointersLive'
  <2>1. ASSUME NEW i \in Ids, textures[i] # NULL PROVE textures[i] \in heap'
    BY <1>2, <2>1 DEF Memory, PointersLive, PointersApart
  <2>2. ASSUME NEW f \in FontObjects, NEW s \in Sizes, f # g, font[f].sizes[s] # NULL
        PROVE  font[f].sizes[s] \in heap'
    BY <1>2, <2>2 DEF Memory, PointersLive, PointersApart
  <2> QED
    BY <2>1, <2>2 DEF PointersLive
<1>4. PointersApart'
  BY DEF Memory, PointersApart
<1>5. NothingLost'
  <2> SUFFICES ASSUME numTextures < MAX_TEXTURES, NEW b \in heap'
               PROVE  \/ \E i \in Ids : textures[i] = b
                      \/ \E f \in FontObjects, s \in Sizes : font'[f].sizes[s] = b
    BY DEF NothingLost
  <2>1. b # NULL /\ b \in heap /\ b \notin F!Entries(g)
    BY <1>1
  <2> QED
    BY <1>2, <2>1 DEF Memory, NothingLost
<1> QED
  BY <1>3, <1>4, <1>5 DEF Memory

\* get_sized_font() yields the cached atlas of this font and size, making it if need be.
LEMMA SizedFontKeepsMemory ==
  ASSUME TypeOK, Memory, NEW g \in FontObjects, NEW t \in Sizes, NEW block \in Blocks,
         F!get_sized_font(g, t, block), UNCHANGED <<textures, numTextures>>
  PROVE  /\ Memory' /\ heap' \subseteq Blocks
         /\ font' \in [FontObjects -> [live : BOOLEAN, filename : BOOLEAN,
                                       sizes : [Sizes -> Blocks \cup {NULL}]]]
         /\ font'[g].sizes[t] = block
         /\ \A f \in FontObjects, s \in Sizes :
              font[f].sizes[s] # NULL => font'[f].sizes[s] = font[f].sizes[s]
<1> USE TextureAssumption
<1>1. /\ heap \subseteq Blocks /\ \A i \in Ids : textures[i] \in Blocks \cup {NULL}
      /\ font \in [FontObjects -> [live : BOOLEAN, filename : BOOLEAN,
                                   sizes : [Sizes -> Blocks \cup {NULL}]]]
  BY DEF TypeOK, TextureTypes, F!FontTypes
<1>2. CASE font[g].sizes[t] # NULL
  <2>1. block = font[g].sizes[t] /\ heap' = heap /\ font' = font
    BY <1>2 DEF F!get_sized_font
  <2> QED
    BY <1>1, <2>1 DEF Memory, PointersLive, PointersApart, NothingLost
<1>3. CASE font[g].sizes[t] = NULL
  <2>1. /\ block \notin heap /\ block # NULL /\ heap' = heap \cup {block}
        /\ font' = [font EXCEPT ![g].sizes[t] = block]
    BY <1>3 DEF F!get_sized_font
  <2>2. \A f \in FontObjects, s \in Sizes :
          font'[f].sizes[s] = IF f = g /\ s = t THEN block ELSE font[f].sizes[s]
    BY <1>1, <2>1
  <2>3. PointersLive'
    BY <2>1, <2>2 DEF Memory, PointersLive
  <2>4. PointersApart'
    BY <2>1, <2>2 DEF Memory, PointersLive, PointersApart
  <2>5. NothingLost'
    <3> SUFFICES ASSUME numTextures < MAX_TEXTURES, NEW b \in heap'
                 PROVE  \/ \E i \in Ids : textures[i] = b
                        \/ \E f \in FontObjects, s \in Sizes : font'[f].sizes[s] = b
      BY DEF NothingLost
    <3>1. CASE b = block
      BY <2>2, <3>1
    <3>2. CASE b \in heap
      <4>1. b # NULL
        BY <1>1, <3>2
      <4> QED
        BY <1>3, <2>2, <3>2, <4>1 DEF Memory, NothingLost
    <3> QED
      BY <2>1, <3>1, <3>2
  <2>6. font' \in [FontObjects -> [live : BOOLEAN, filename : BOOLEAN,
                                   sizes : [Sizes -> Blocks \cup {NULL}]]]
    BY <1>1, <2>1
  <2> QED
    BY <1>1, <1>3, <2>1, <2>2, <2>3, <2>4, <2>5, <2>6 DEF Memory
<1> QED
  BY <1>2, <1>3

-----------------------------------------------------------------------------
(* The invariant holds *)

\* Every function of screen.c preserves the invariant.
LEMMA TexturesStep ==
  ASSUME IInv, call.stage # "draw", Next, UNCHANGED <<font, call>>
  PROVE  IInv'
<1> USE TextureAssumption
<1>1. F!FontTypes /\ CallHoldsAtlas /\ TypeOK /\ Memory
  BY DEF IInv, TypeOK, Memory
<1>2. ASSUME Memory', TextureTypes' PROVE IInv'
  <2>1. heap' \subseteq Blocks
    BY <1>2 DEF TextureTypes
  <2>2. F!FontTypes'
    BY <1>1, <2>1 DEF F!FontTypes
  <2> QED
    BY <1>1, <1>2, <2>2 DEF IInv, Memory, TypeOK, CallHoldsAtlas
<1>3. ASSUME NEW texture \in Blocks,
             load_PNG_file(texture) \/ load_JPEG_file(texture) \/ create_empty_texture(texture)
      PROVE  IInv'
  <2>1. numTextures < MAX_TEXTURES => numTextures \in Ids /\ 0 \in Ids
    BY <1>1 DEF TypeOK, TextureTypes, Ids
  <2> QED
    BY <1>1, <1>2, <1>3, <2>1, CreatedKeepsMemory
    DEF load_PNG_file, load_JPEG_file, create_empty_texture
<1>4. CASE create_empty_textureNull
  <2>1. /\ UNCHANGED <<heap, handles, crashed>>
        /\ textures' = textures
        /\ numTextures' \in {numTextures, numTextures + 1} /\ numTextures' \in 0 .. MAX_TEXTURES
    <3>1. CASE numTextures >= MAX_TEXTURES
      BY <1>1, <1>4, <3>1 DEF create_empty_textureNull, new_texture, TypeOK, TextureTypes
    <3>2. CASE numTextures < MAX_TEXTURES
      <4>1. /\ UNCHANGED <<heap, handles, crashed>> /\ numTextures' = numTextures + 1
            /\ textures' = [textures EXCEPT ![numTextures] = NULL]
        BY <1>1, <1>4, <3>2 DEF create_empty_textureNull, new_texture, TypeOK, TextureTypes
      <4>2. textures[numTextures] = NULL /\ textures \in [Ids -> Blocks \cup {NULL}]
        BY <1>1, <3>2 DEF TypeOK, TextureTypes, Ids
      <4> QED
        BY <1>1, <3>2, <4>1, <4>2 DEF TypeOK, TextureTypes
    <3> QED
      BY <1>1, <3>1, <3>2 DEF TypeOK, TextureTypes
  <2>2. TextureTypes'
    BY <1>1, <2>1 DEF TypeOK, TextureTypes, Ids
  <2>3. numTextures' < MAX_TEXTURES => numTextures < MAX_TEXTURES
    BY <1>1, <2>1 DEF TypeOK, TextureTypes
  <2> QED
    BY <1>1, <1>2, <2>1, <2>2, <2>3 DEF Memory, PointersLive, PointersApart, NothingLost
<1>5. ASSUME NEW id \in Ids, free_texture(id) PROVE IInv'
  BY <1>1, <1>2, <1>5, FreeTextureKeepsMemory
<1>6. CASE texture_get \/ draw_texture_rotate
  <2>1. UNCHANGED <<heap, textures, numTextures, handles>> /\ crashed' = TRUE
    BY <1>6 DEF texture_get, draw_texture_rotate, StoresToNull
  <2>2. TextureTypes'
    BY <1>1, <2>1 DEF TypeOK, TextureTypes
  <2> QED
    BY <1>1, <1>2, <2>1, <2>2 DEF Memory, PointersLive, PointersApart, NothingLost
<1> QED
  BY <1>3, <1>4, <1>5, <1>6 DEF Next

\* Every function and finalizer of font.c preserves the invariant.
LEMMA FontsStep ==
  ASSUME IInv, F!Next, UNCHANGED texture_vars
  PROVE  IInv'
<1> USE TextureAssumption, FontAssumption
<1> DEFINE FontType == [live : BOOLEAN, filename : BOOLEAN,
                        sizes : [Sizes -> Blocks \cup {NULL}]]
           CallType == [stage : {"none", "numbers", "text", "draw"},
                        font : FontObjects \cup {NULL}, size : Sizes \cup {0},
                        block : Blocks \cup {NULL}, freed : BOOLEAN]
<1>1. /\ TypeOK /\ TextureTypes /\ Memory /\ CallHoldsAtlas
      /\ heap \subseteq Blocks /\ font \in [FontObjects -> FontType] /\ call \in CallType
  BY DEF IInv, TypeOK, Memory, F!FontTypes
<1>2. UNCHANGED <<textures, numTextures, handles, crashed>>
  BY DEF texture_vars
<1>3. ASSUME Memory', heap' \subseteq Blocks, font' \in [FontObjects -> FontType],
             call' \in CallType, CallHoldsAtlas'
      PROVE  IInv'
  <2>1. TextureTypes'
    BY <1>1, <1>2, <1>3 DEF TextureTypes
  <2>2. F!FontTypes'
    BY <1>3 DEF F!FontTypes
  <2> QED
    BY <1>3, <2>1, <2>2 DEF IInv, TypeOK, Memory
<1>4. ASSUME NEW f \in FontObjects, F!load_font_file(f) PROVE IInv'
  <2>1. /\ UNCHANGED <<heap, call>> /\ font' \in [FontObjects -> FontType]
        /\ \A g \in FontObjects : font'[g].sizes = font[g].sizes
    BY <1>1, <1>4 DEF F!load_font_file
  <2>2. Memory' /\ CallHoldsAtlas'
    BY <1>1, <1>2, <2>1 DEF Memory, PointersLive, PointersApart, NothingLost, CallHoldsAtlas
  <2> QED
    BY <1>1, <1>3, <2>1, <2>2
<1>5. ASSUME NEW f \in FontObjects, F!free_font(f) PROVE IInv'
  <2>1. /\ heap' = heap \ F!Entries(f)
        /\ font' = [font EXCEPT ![f].sizes = [s \in Sizes |-> NULL], ![f].filename = FALSE]
        /\ call' = [call EXCEPT !.freed = @ \/ call.font = f]
    BY <1>5 DEF F!free_font, F!free_font_cache
  <2>2. /\ font' \in [FontObjects -> FontType]
        /\ \A g \in FontObjects, s \in Sizes :
             font'[g].sizes[s] = IF g = f THEN NULL ELSE font[g].sizes[s]
    <3> DEFINE empty == [s \in Sizes |-> NULL]
    <3>1. empty \in [Sizes -> Blocks \cup {NULL}] /\ \A s \in Sizes : empty[s] = NULL
      OBVIOUS
    <3>2. font' = [font EXCEPT ![f].sizes = empty, ![f].filename = FALSE]
      BY <2>1
    <3> HIDE DEF empty
    <3>3. font' \in [FontObjects -> FontType]
      <4> DEFINE cleared == [font EXCEPT ![f].sizes = empty]
      <4>1. cleared \in [FontObjects -> FontType]
        BY <1>1, <3>1
      <4>2. font' = [cleared EXCEPT ![f].filename = FALSE]
        BY <1>1, <3>2
      <4> HIDE DEF cleared
      <4> QED
        BY <4>1, <4>2
    <3>4. \A g \in FontObjects : font'[g].sizes = IF g = f THEN empty ELSE font[g].sizes
      BY <1>1, <3>2
    <3> QED
      BY <3>1, <3>3, <3>4
  <2>3. Memory'
    BY <1>1, <1>2, <2>1, <2>2, EmptyCacheKeepsMemory
  <2>4. call' \in CallType
    BY <1>1, <2>1
  <2>5. CallHoldsAtlas'
    BY <1>1, <2>1, <2>2 DEF CallHoldsAtlas
  <2> QED
    BY <1>1, <1>3, <2>1, <2>2, <2>3, <2>4, <2>5
<1>6. ASSUME NEW f \in FontObjects, F!font_finalizer(f) PROVE IInv'
  <2>1. /\ heap' = heap \ F!Entries(f) /\ call' = call /\ call.font # f
        /\ font' = [font EXCEPT ![f] = F!NoFont]
    BY <1>6 DEF F!font_finalizer
  <2>2. /\ font' \in [FontObjects -> FontType]
        /\ \A g \in FontObjects, s \in Sizes :
             font'[g].sizes[s] = IF g = f THEN NULL ELSE font[g].sizes[s]
    BY <1>1, <2>1 DEF F!NoFont
  <2>3. Memory'
    BY <1>1, <1>2, <2>1, <2>2, EmptyCacheKeepsMemory
  <2>4. CallHoldsAtlas'
    BY <1>1, <2>1, <2>2 DEF CallHoldsAtlas
  <2> QED
    BY <1>1, <1>3, <2>1, <2>2, <2>3, <2>4
<1>7. ASSUME NEW f \in FontObjects, NEW s \in Sizes, F!TextBegins(f, s) PROVE IInv'
  <2>1. /\ UNCHANGED <<heap, font>>
        /\ call' = [stage |-> "numbers", font |-> f, size |-> s, block |-> NULL, freed |-> FALSE]
    BY <1>7 DEF F!TextBegins, F!NoCall
  <2>2. call' \in CallType /\ CallHoldsAtlas'
    BY <2>1 DEF CallHoldsAtlas
  <2>3. Memory'
    BY <1>1, <1>2, <2>1 DEF Memory, PointersLive, PointersApart, NothingLost
  <2> QED
    BY <1>1, <1>3, <2>1, <2>2, <2>3
<1>8. ASSUME NEW f \in FontObjects, NEW s \in Sizes, NEW block \in Blocks,
             F!NestedText(f, s, block)
      PROVE  IInv'
  <2>1. F!get_sized_font(f, s, block) /\ call' = call
    BY <1>8 DEF F!NestedText
  <2>2. /\ Memory' /\ heap' \subseteq Blocks /\ font' \in [FontObjects -> FontType]
        /\ \A g \in FontObjects, t \in Sizes :
             font[g].sizes[t] # NULL => font'[g].sizes[t] = font[g].sizes[t]
    BY <1>1, <1>2, <2>1, SizedFontKeepsMemory
  <2>3. CallHoldsAtlas'
    BY <1>1, <2>1, <2>2 DEF CallHoldsAtlas
  <2> QED
    BY <1>1, <1>3, <2>1, <2>2, <2>3
<1>9. ASSUME NEW block \in Blocks, F!TextSized(block) PROVE IInv'
  <2>1. /\ call.stage = "numbers" /\ F!get_sized_font(call.font, call.size, block)
        /\ call' = [call EXCEPT !.stage = "text", !.block = block]
        /\ call.font \in FontObjects /\ call.size \in Sizes
    BY <1>1, <1>9 DEF F!TextSized, CallHoldsAtlas
  <2>2. /\ Memory' /\ heap' \subseteq Blocks /\ font' \in [FontObjects -> FontType]
        /\ font'[call.font].sizes[call.size] = block
    BY <1>1, <1>2, <2>1, SizedFontKeepsMemory
  <2>3. /\ call' \in CallType
        /\ call'.font = call.font /\ call'.size = call.size /\ call'.block = block
        /\ call'.stage = "text"
    BY <1>1, <2>1
  <2>4. CallHoldsAtlas'
    BY <2>1, <2>2, <2>3 DEF CallHoldsAtlas
  <2> QED
    BY <1>3, <2>2, <2>3, <2>4
<1>10. CASE F!TextConverted \/ F!TextEnds \/ F!TextThrows
  <2>1. /\ UNCHANGED <<heap, font>>
        /\ \/ call' = F!NoCall
           \/ call.stage = "text" /\ call' = [call EXCEPT !.stage = "draw"]
    BY <1>10 DEF F!TextConverted, F!TextEnds, F!TextThrows
  <2>2. call' \in CallType /\ CallHoldsAtlas'
    <3>1. CASE call' = F!NoCall
      BY <3>1 DEF CallHoldsAtlas, F!NoCall
    <3>2. CASE call.stage = "text" /\ call' = [call EXCEPT !.stage = "draw"]
      BY <1>1, <2>1, <3>2 DEF CallHoldsAtlas
    <3> QED
      BY <2>1, <3>1, <3>2
  <2>3. Memory'
    BY <1>1, <1>2, <2>1 DEF Memory, PointersLive, PointersApart, NothingLost
  <2> QED
    BY <1>1, <1>3, <2>1, <2>2, <2>3
<1> QED
  BY <1>4, <1>5, <1>6, <1>7, <1>8, <1>9, <1>10 DEF F!Next, F!Script

\* The invariant holds in every state of every run of a script.
THEOREM Invariance == GraphicsSpec => []IInv
<1>1. GraphicsInit => IInv
  <2> SUFFICES ASSUME GraphicsInit PROVE IInv
    OBVIOUS
  <2> USE TextureAssumption, FontAssumption
          DEF GraphicsInit, Init, F!Init, F!NoFont, F!NoCall
  <2>1. TypeOK
    <3>1. TextureTypes
      <4>1. crashed \in BOOLEAN
        OBVIOUS
      <4>2. textures \in [Ids -> Blocks \cup {NULL}] /\ \A i \in Ids : textures[i] = NULL
        OBVIOUS
      <4>3. heap \subseteq Blocks /\ handles \subseteq [id : Ids, texture : Blocks]
        OBVIOUS
      <4> QED
        BY <4>1, <4>2, <4>3 DEF TextureTypes
    <3>2. F!NoFont \in [live : BOOLEAN, filename : BOOLEAN, sizes : [Sizes -> Blocks \cup {NULL}]]
      OBVIOUS
    <3>3. F!FontTypes
      BY <3>2 DEF F!FontTypes
    <3> QED
      BY <3>1, <3>3 DEF TypeOK
  <2>2. PointersLive /\ PointersApart /\ NothingLost /\ CallHoldsAtlas
    BY DEF PointersLive, PointersApart, NothingLost, CallHoldsAtlas
  <2> QED
    BY <2>1, <2>2 DEF IInv
<1>2. IInv /\ [GraphicsNext]_vars => IInv'
  <2> SUFFICES ASSUME IInv, [GraphicsNext]_vars PROVE IInv'
    OBVIOUS
  <2>1. CASE UNCHANGED vars
    BY <2>1 DEF vars, texture_vars, IInv, TypeOK, TextureTypes, F!FontTypes,
       PointersLive, PointersApart, NothingLost, CallHoldsAtlas
  <2> QED
    BY <2>1, TexturesStep, FontsStep DEF GraphicsNext
<1> QED
  BY <1>1, <1>2, PTL DEF GraphicsSpec

\* The variables of both modules keep their types, whatever the script does.
THEOREM TypeCorrect == GraphicsSpec => []TypeOK
  BY Invariance, PTL DEF IInv

\* Textures and atlases have one owner each, and none is lost while ids are left
\* (del_texture, free_font_cache and font_finalizer release what they own only).
THEOREM SingleOwner == GraphicsSpec => []OneOwner
<1>1. IInv => OneOwner
  BY OwnersApart DEF IInv
<1> QED
  BY <1>1, Invariance, PTL

\* Texts are drawn with an atlas that exists, although the conversion of their
\* arguments may run any script code.
THEOREM AtlasLive == GraphicsSpec => []DrawsLiveFont
<1>1. IInv => DrawsLiveFont
  BY DEF IInv, DrawsLiveFont, F!DrawsLiveFont, CallHoldsAtlas, PointersLive
<1> QED
  BY <1>1, Invariance, PTL

\* Texture ids are never given to another texture.
THEOREM IdsNotReused == GraphicsSpec => IdsNeverReused
<1> DEFINE Keeps == \A i \in Ids : i < numTextures => textures'[i] \in {textures[i], NULL}
<1>1. IInv /\ [GraphicsNext]_vars => [Keeps]_textures
  <2> SUFFICES ASSUME IInv, [GraphicsNext]_vars, textures' # textures PROVE Keeps
    OBVIOUS
  <2>1. textures \in [Ids -> Blocks \cup {NULL}] /\ numTextures \in Nat
    BY TextureAssumption DEF IInv, TypeOK, TextureTypes
  <2>2. Next
    BY DEF GraphicsNext, vars, texture_vars
  <2>3. ASSUME NEW texture, new_texture(texture) PROVE Keeps
    BY <2>1, <2>3, TextureAssumption DEF new_texture, Ids
  <2>4. ASSUME NEW id \in Ids, del_texture(id) PROVE Keeps
    BY <2>1, <2>4 DEF del_texture
  <2> QED
    BY <2>2, <2>3, <2>4 DEF Next, load_PNG_file, load_JPEG_file, create_empty_texture,
       Created, create_empty_textureNull, free_texture, texture_get, draw_texture_rotate,
       StoresToNull
<1> QED
  BY <1>1, Invariance, PTL DEF GraphicsSpec, IdsNeverReused

=============================================================================
