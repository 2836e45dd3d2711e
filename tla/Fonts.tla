------------------------------- MODULE Fonts --------------------------------
(***************************************************************************)
(* The fonts (src/fntsys.cpp): slots with a face, the size it draws at, a   *)
(* cache of the glyphs drawn so far and the atlases that hold their         *)
(* pixels.  A font that is loaded or resized throws its cache and atlases   *)
(* away, and so does loading any font for all the others.                   *)
(***************************************************************************)
EXTENDS GlyphAtlas, FiniteSets

CONSTANTS
    Slots,            \* 0 .. FNT_MAX_COUNT - 1
    AtlasMax,         \* ATLAS_MAX
    Side,             \* ATLAS_WIDTH and ATLAS_HEIGHT
    Glyphs,
    Sizes, DefaultSize,
    Shape(_, _),      \* the bitmap of a glyph at a size: [w, h], empty for a blank
    None

ASSUME FontAssumption ==
    /\ Slots \subseteq Nat /\ AtlasMax \in Nat /\ Side \in Nat
    /\ \A g \in Glyphs, z \in Sizes \union {DefaultSize} : Shape(g, z) \in [w : Nat, h : Nat]

VARIABLES
    valid,            \* the slots in use
    size,             \* the size each face draws at
    atlases,          \* of each slot, in order
    cache             \* of each slot and glyph: where its pixels are, or None

fontVars == <<valid, size, atlases, cache>>

Blank == [aid |-> 0]
NoGlyphs == [g \in Glyphs |-> None]

FontInit ==
    /\ valid = {} /\ size = [s \in Slots |-> DefaultSize]
    /\ atlases = [s \in Slots |-> << >>]
    /\ cache = [s \in Slots |-> NoGlyphs]

-----------------------------------------------------------------------------
(* Mutant: the glyph pages are kept. *)
FlushAt_KeepsPages(slots, newSize) ==
    /\ size' = [s \in Slots |-> IF s \in slots THEN newSize ELSE size[s]]
    /\ atlases' = [s \in Slots |-> IF s \in slots THEN << >> ELSE atlases[s]]
    /\ UNCHANGED cache

(* fntCacheFlush of some slots; their faces draw at another size from now on. *)
FlushAt(slots, newSize) ==
    /\ size' = [s \in Slots |-> IF s \in slots THEN newSize ELSE size[s]]
    /\ atlases' = [s \in Slots |-> IF s \in slots THEN << >> ELSE atlases[s]]
    /\ cache' = [s \in Slots |-> IF s \in slots THEN NoGlyphs ELSE cache[s]]

(* The first slot not in use is tried.  With the face there, fntUpdateAspectRatio flushes
   every font and puts it back to the default size; else the slot stays free. *)
LoadFont ==
    \E s \in Slots \ valid :
      /\ \A t \in Slots \ valid : s <= t
      /\ \/ valid' = valid \union {s} /\ FlushAt(valid \union {s}, DefaultSize)
         \/ UNCHANGED fontVars

SetCharSize ==
    /\ \E s \in valid, z \in Sizes : FlushAt({s}, z)
    /\ UNCHANGED valid

(* fntRelease: the slot's pages, atlases and face go. *)
ReleaseFont ==
    \E s \in valid \ {0} : valid' = valid \ {s} /\ FlushAt({s}, DefaultSize)

-----------------------------------------------------------------------------
Entry(aid, place, g, z) == [aid |-> aid, place |-> place, glyph |-> g, size |-> z]

(* fntGlyphAtlasPlace: the first atlas with room, one more while there are fewer than
   AtlasMax; none has room is no glyph, and is asked again the next time. *)
HasRoom(s, aid, shape) ==
    IF aid <= Len(atlases[s])
    THEN CanPlace(atlases[s][aid], shape.w + 1, shape.h + 1)
    ELSE CanPlace(NewAtlas(Side, Side), shape.w + 1, shape.h + 1)

AtlasFor(s, aid) == IF aid <= Len(atlases[s]) THEN atlases[s][aid] ELSE NewAtlas(Side, Side)

Grown(s, upTo) == [k \in 1 .. (IF upTo > Len(atlases[s]) THEN upTo ELSE Len(atlases[s])) |-> AtlasFor(s, k)]

PlaceGlyph(s, g) ==
    \E shape \in {Shape(g, size[s])} :
      \/ /\ shape.w = 0 \/ shape.h = 0
         /\ cache' = [cache EXCEPT ![s][g] = Blank]
         /\ UNCHANGED atlases
      \/ /\ shape.w > 0 /\ shape.h > 0
         /\ \E aid \in 1 .. AtlasMax :
              /\ HasRoom(s, aid, shape) /\ \A a \in 1 .. aid - 1 : ~HasRoom(s, a, shape)
              /\ \E at \in {AtlasFor(s, aid)} : \E i \in 1 .. Len(at.free) :
                   /\ IsFirstFit(at.free, i, shape.w + 1, shape.h + 1)
                   /\ atlases' = [atlases EXCEPT ![s] =
                        [Grown(s, aid) EXCEPT ![aid] = PlacedAt(at, i, shape.w, shape.h, <<g, size[s]>>)]]
                   /\ cache' = [cache EXCEPT ![s][g] = Entry(aid, Taken(at.free[i], shape.w + 1, shape.h + 1), g, size[s])]
      \/ /\ shape.w > 0 /\ shape.h > 0
         /\ \A aid \in 1 .. AtlasMax : ~HasRoom(s, aid, shape)
         /\ atlases' = [atlases EXCEPT ![s] = Grown(s, AtlasMax)]
         /\ UNCHANGED cache

(* fntCalcDimensions and fntRenderString: the first use of a glyph caches it. *)
CacheGlyph ==
    /\ \E s \in valid, g \in Glyphs : cache[s][g] = None /\ PlaceGlyph(s, g)
    /\ UNCHANGED <<valid, size>>

FontOp == LoadFont \/ SetCharSize \/ ReleaseFont \/ CacheGlyph

-----------------------------------------------------------------------------
(* The pixels are there, and are the glyph's, at the size of the face. *)
HoldsGlyph(s, e) ==
    /\ e.aid <= Len(atlases[s])
    /\ [place |-> e.place, of |-> <<e.glyph, e.size>>] \in atlases[s][e.aid].used

(* What fntRenderString finds in the cache of a font are the pixels of the very glyph, drawn
   at the size the face has now, however fonts were loaded, resized and released before and
   whatever else was placed (fntsys.cpp: "flush cache - it will be invalid after the
   setting"). *)
CachedGlyphsAreTheirs ==
    \A s \in valid, g \in Glyphs :
      cache[s][g] \notin {None, Blank} =>
        /\ HoldsGlyph(s, cache[s][g])
        /\ cache[s][g].glyph = g /\ cache[s][g].size = size[s]

(* No two glyphs share a pixel, and none lies outside its atlas. *)
GlyphsKeepApart ==
    \A s \in Slots : \A aid \in 1 .. Len(atlases[s]) : AtlasIsSound(atlases[s][aid], Side, Side)
=============================================================================
