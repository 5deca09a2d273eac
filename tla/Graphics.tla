------------------------------ MODULE Graphics ------------------------------
(***************************************************************************)
(* Textures and Fonts of one script, which share vita2d's memory.          *)
(***************************************************************************)
EXTENDS Textures

CONSTANTS FontObjects, Sizes

ASSUME FontAssumption ==
  /\ Sizes \subseteq Nat \ {0}
  /\ NULL \notin FontObjects /\ "texture" \notin FontObjects

VARIABLES font, call

F == INSTANCE Fonts

vars == <<heap, texture_vars, font, call>>

GraphicsInit == Init /\ F!Init

\* A crash ends the program.  Screen functions are not called while vita2d draws a
\* text.
GraphicsNext ==
  \/ call.stage # "draw" /\ Next /\ UNCHANGED <<font, call>>
  \/ ~crashed /\ F!Next /\ UNCHANGED texture_vars

GraphicsSpec == GraphicsInit /\ [][GraphicsNext]_vars

-----------------------------------------------------------------------------
(* Properties *)

\* The types of the variables; ids not given out are NULL.
TypeOK == TextureTypes /\ F!FontTypes

\* The places that hold a pointer to graphics memory.
Holders == {<<"texture", i>> : i \in Ids} \cup {<<f, s>> : f \in FontObjects, s \in Sizes}

Held(h) == IF h[1] = "texture" THEN textures[h[2]] ELSE font[h[1]].sizes[h[2]]

\* Every pointer the modules keep is to allocated memory, no two are to the same:
\* each pixel size of each font has an atlas of its own; and nothing is lost
\* between free, finalizer and failure, as long as the table was never full.
OneOwner ==
  /\ \A h \in Holders : Held(h) # NULL => Held(h) \in heap
  /\ \A g, h \in Holders : g # h /\ Held(g) # NULL => Held(g) # Held(h)
  /\ numTextures < MAX_TEXTURES => heap = {Held(h) : h \in Holders} \ {NULL}

\* A text is drawn with the live atlas of its own font and size, whatever textures
\* and fonts the conversion of its arguments made, used and freed in the same memory,
\* unless it freed this very font.
DrawsLiveFont == F!DrawsLiveFont

=============================================================================
