----------------------------- MODULE GlyphAtlas -----------------------------
(***************************************************************************)
(* The texture atlas of the fonts (src/atlas.cpp): a surface cut into       *)
(* pieces.  A piece that takes a glyph is cut in three: the glyph's place   *)
(* and two leaves.  The tree is searched depth first, the first free leaf   *)
(* that fits is taken, and inner nodes fit nothing their leaves do not, so  *)
(* an atlas is its free leaves in that order and the places taken.          *)
(***************************************************************************)
EXTENDS Naturals, Sequences

Piece(x, y, w, h) == [x |-> x, y |-> y, w |-> w, h |-> h]

NewAtlas(width, height) == [free |-> <<Piece(0, 0, width, height)>>, used |-> {}]

Fits(p, w, h) == p.w >= w /\ p.h >= h

(* Mutant: the longer rest is as wide as the piece and as high. *)
Leaf2_Overlaps(p, w, h) ==
    IF p.w - w < p.h - h THEN Piece(p.x, p.y + h, p.w, p.h - h) ELSE Piece(p.x, p.y + h, p.w, p.h - h)

(* allocNew, twice: the wider rest is also the longer one. *)
Leaf1(p, w, h) ==
    IF p.w - w < p.h - h THEN Piece(p.x + w, p.y, p.w - w, h) ELSE Piece(p.x, p.y + h, w, p.h - h)
Leaf2(p, w, h) ==
    IF p.w - w < p.h - h THEN Piece(p.x, p.y + h, p.w, p.h - h) ELSE Piece(p.x + w, p.y, p.w - w, p.h)

Taken(p, w, h) == Piece(p.x, p.y, w, h)

(* The free leaf the search ends at. *)
IsFirstFit(free, i, w, h) == Fits(free[i], w, h) /\ \A j \in 1 .. i - 1 : ~Fits(free[j], w, h)

(* The two leaves stand where the piece stood. *)
Cut(free, i, w, h) ==
    [k \in 1 .. Len(free) + 1 |->
        IF k < i THEN free[k]
        ELSE IF k = i THEN Leaf1(free[i], w, h)
        ELSE IF k = i + 1 THEN Leaf2(free[i], w, h)
        ELSE free[k - 1]]

CanPlace(atlas, w, h) == \E i \in 1 .. Len(atlas.free) : Fits(atlas.free[i], w, h)

(* atlasPlace for a glyph of w by h: one pixel is left between glyphs.  `of` is what is
   drawn there. *)
PlacedAt(atlas, i, w, h, of) ==
    [free |-> Cut(atlas.free, i, w + 1, h + 1),
     used |-> atlas.used \union {[place |-> Taken(atlas.free[i], w + 1, h + 1), of |-> of]}]

Apart(p, q) == p.x + p.w <= q.x \/ q.x + q.w <= p.x \/ p.y + p.h <= q.y \/ q.y + q.h <= p.y

Inside(p, width, height) == p.x + p.w <= width /\ p.y + p.h <= height

(* No pixel is another glyph's, free, or outside the surface. *)
AtlasIsSound(atlas, width, height) ==
    /\ \A u \in atlas.used : Inside(u.place, width, height)
    /\ \A i \in 1 .. Len(atlas.free) : Inside(atlas.free[i], width, height)
    /\ \A u, v \in atlas.used : u # v => Apart(u.place, v.place)
    /\ \A u \in atlas.used, i \in 1 .. Len(atlas.free) : Apart(u.place, atlas.free[i])
    /\ \A i, j \in 1 .. Len(atlas.free) : i # j => Apart(atlas.free[i], atlas.free[j])
=============================================================================
