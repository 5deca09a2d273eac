------------------------------- MODULE Fonts --------------------------------
(***************************************************************************)
(* The Font module (src/modules/font.c): font objects with a cache of one  *)
(* vita2d_font, that is one glyph atlas, per pixel size.  A vita2d_font is *)
(* the block of graphics memory it occupies.                               *)
(*                                                                         *)
(* A text function converts its arguments between looking up the font and  *)
(* using it; a conversion may run script code, which may call any function *)
(* of the module, free_font() of the same font included.                   *)
(***************************************************************************)
EXTENDS Naturals

CONSTANTS
  Blocks,       \* blocks of graphics memory
  NULL,
  FontObjects,
  Sizes         \* pixel sizes other than 0, for which the functions throw

VARIABLES
  heap,  \* blocks allocated and not freed
  font,  \* font object -> [live, filename, sizes]
  call   \* the text function in progress

font_vars == <<font, call>>

\* filename is FALSE for NULL, which marks a font freed by free_font().
NoFont == [live |-> FALSE, filename |-> FALSE, sizes |-> [s \in Sizes |-> NULL]]

\* freed: the script freed this very font while arguments were converted.
NoCall == [stage |-> "none", font |-> NULL, size |-> 0, block |-> NULL, freed |-> FALSE]

Init ==
  /\ heap = {}
  /\ font = [f \in FontObjects |-> NoFont]
  /\ call = NoCall

Entries(f) == {font[f].sizes[s] : s \in Sizes} \ {NULL}

-----------------------------------------------------------------------------

free_font_cache(f) ==
  /\ heap' = heap \ Entries(f)
  /\ font' = [font EXCEPT ![f].sizes = [s \in Sizes |-> NULL], ![f].filename = FALSE]

\* The collector destroys an object that no script variable and no call refers to.
font_finalizer(f) ==
  /\ font[f].live /\ call.font # f
  /\ heap' = heap \ Entries(f)
  /\ font' = [font EXCEPT ![f] = NoFont]
  /\ UNCHANGED call

\* A live font that has not been freed.
get_font_data(f) == font[f].live /\ font[f].filename

\* Mutation: only the atlas that was used last is kept.
get_sized_fontEvicts(f, s, block) ==
  IF font[f].sizes[s] # NULL
  THEN /\ block = font[f].sizes[s]
       /\ UNCHANGED <<heap, font>>
  ELSE /\ block \in Blocks \ heap
       /\ heap' = (heap \ Entries(f)) \cup {block}
       /\ font' = [font EXCEPT ![f].sizes = [t \in Sizes |-> IF t = s THEN block ELSE NULL]]

\* The atlas of this size, made when the size is first used.  For a font that was
\* freed meanwhile vita2d is asked to load no file; it may refuse (TextThrows) or not.
get_sized_font(f, s, block) ==
  IF font[f].sizes[s] # NULL
  THEN /\ block = font[f].sizes[s]
       /\ UNCHANGED <<heap, font>>
  ELSE /\ block \in Blocks \ heap
       /\ heap' = heap \cup {block}
       /\ font' = [font EXCEPT ![f].sizes[s] = block]

\* The file is probed with a vita2d_font that is freed at once; when the object, its
\* data or the name cannot be allocated all of it is released again.
load_font_file(f) ==
  /\ ~font[f].live /\ heap # Blocks
  /\ font' = [font EXCEPT ![f].live = TRUE, ![f].filename = TRUE]
  /\ UNCHANGED <<heap, call>>

\* Freeing a font twice does nothing.
free_font(f) ==
  /\ get_font_data(f)
  /\ free_font_cache(f)
  /\ call' = [call EXCEPT !.freed = @ \/ call.font = f]

\* font_draw_text(), font_draw_text_ls(), font_text_dimensions(), font_text_width()
\* and font_text_height(): look up the font ...
TextBegins(f, s) ==
  /\ call.stage = "none" /\ get_font_data(f)
  /\ call' = [NoCall EXCEPT !.stage = "numbers", !.font = f, !.size = s]
  /\ UNCHANGED <<heap, font>>

\* ... convert the numbers and look up the atlas of the size ...
TextSized(block) ==
  /\ call.stage = "numbers"
  /\ get_sized_font(call.font, call.size, block)
  /\ call' = [call EXCEPT !.stage = "text", !.block = block]

\* ... convert the text ...
TextConverted ==
  /\ call.stage = "text"
  /\ call' = [call EXCEPT !.stage = "draw"]
  /\ UNCHANGED <<heap, font>>

\* ... and draw or measure it.
TextEnds ==
  /\ call.stage = "draw"
  /\ call' = NoCall
  /\ UNCHANGED <<heap, font>>

\* A conversion throws, or the atlas cannot be made.
TextThrows ==
  /\ call.stage \in {"numbers", "text"}
  /\ call' = NoCall
  /\ UNCHANGED <<heap, font>>

\* A whole text function called by a conversion of another one.
NestedText(f, s, block) ==
  /\ call.stage \in {"numbers", "text"} /\ get_font_data(f)
  /\ get_sized_font(f, s, block)
  /\ UNCHANGED call

\* Script code runs between calls and in conversions, not while vita2d draws.
Script(f) ==
  /\ call.stage # "draw"
  /\ load_font_file(f) \/ free_font(f)

Next ==
  \/ \E f \in FontObjects : Script(f) \/ font_finalizer(f)
  \/ \E f \in FontObjects, s \in Sizes : TextBegins(f, s)
  \/ \E f \in FontObjects, s \in Sizes, block \in Blocks : NestedText(f, s, block)
  \/ \E block \in Blocks : TextSized(block)
  \/ TextConverted \/ TextEnds \/ TextThrows

Spec == Init /\ [][Next]_<<heap, font_vars>>

-----------------------------------------------------------------------------
(* Properties *)

FontTypes ==
  /\ heap \subseteq Blocks
  /\ font \in [FontObjects -> [live : BOOLEAN, filename : BOOLEAN,
                               sizes : [Sizes -> Blocks \cup {NULL}]]]
  /\ call \in [stage : {"none", "numbers", "text", "draw"}, font : FontObjects \cup {NULL},
               size : Sizes \cup {0}, block : Blocks \cup {NULL}, freed : BOOLEAN]

\* A text is drawn and measured with the atlas of its font and size, which exists,
\* whatever other functions the conversion of the arguments has called, unless they
\* have freed this very font.
DrawsLiveFont ==
  call.stage = "draw" =>
    \/ call.freed
    \/ font[call.font].sizes[call.size] = call.block /\ call.block \in heap

=============================================================================
