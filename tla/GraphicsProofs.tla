--------------------------- MODULE GraphicsProofs ---------------------------
(***************************************************************************)
(* What holds of the fonts, of the loading of images and of the screen, for *)
(* every glyph's shape, every size of an atlas and every number of slots,   *)
(* atlases, video modes and frames of a fade.                               *)
(***************************************************************************)
EXTENDS Graphics, SequenceTheorems, TLAPS

-----------------------------------------------------------------------------
(* Pieces of a surface.                                                    *)

Pieces == [x : Nat, y : Nat, w : Nat, h : Nat]

\* p lies within q.
Within(p, q) ==
    /\ q.x <= p.x /\ p.x + p.w <= q.x + q.w
    /\ q.y <= p.y /\ p.y + p.h <= q.y + q.h

LEMMA PieceIsPiece ==
  ASSUME NEW x \in Nat, NEW y \in Nat, NEW w \in Nat, NEW h \in Nat
  PROVE  /\ Piece(x, y, w, h) \in Pieces
         /\ Piece(x, y, w, h).x = x /\ Piece(x, y, w, h).y = y
         /\ Piece(x, y, w, h).w = w /\ Piece(x, y, w, h).h = h
BY DEF Piece, Pieces

LEMMA WithinStaysApart ==
  ASSUME NEW p \in Pieces, NEW q \in Pieces, NEW r \in Pieces, Within(p, q), Apart(q, r)
  PROVE  Apart(p, r) /\ Apart(r, p)
BY DEF Pieces, Within, Apart

LEMMA WithinStaysInside ==
  ASSUME NEW p \in Pieces, NEW q \in Pieces, Within(p, q), NEW w \in Nat, NEW h \in Nat,
         Inside(q, w, h)
  PROVE  Inside(p, w, h)
BY DEF Pieces, Within, Inside

LEMMA ApartBothWays ==
  ASSUME NEW p \in Pieces, NEW q \in Pieces, Apart(p, q)
  PROVE  Apart(q, p)
BY DEF Pieces, Apart

\* allocNew: the place and the two leaves lie within the piece and do not overlap.
LEMMA CutInThree ==
  ASSUME NEW p \in Pieces, NEW w \in Nat, NEW h \in Nat, Fits(p, w, h)
  PROVE  /\ Taken(p, w, h) \in Pieces /\ Leaf1(p, w, h) \in Pieces /\ Leaf2(p, w, h) \in Pieces
         /\ Within(Taken(p, w, h), p) /\ Within(Leaf1(p, w, h), p) /\ Within(Leaf2(p, w, h), p)
         /\ Apart(Taken(p, w, h), Leaf1(p, w, h)) /\ Apart(Taken(p, w, h), Leaf2(p, w, h))
         /\ Apart(Leaf1(p, w, h), Leaf2(p, w, h))
<1>0. p.x \in Nat /\ p.y \in Nat /\ p.w \in Nat /\ p.h \in Nat BY DEF Pieces
<1>1. /\ p.x + w \in Nat /\ p.y + h \in Nat /\ p.w - w \in Nat /\ p.h - h \in Nat
      /\ p.x + w + (p.w - w) = p.x + p.w /\ p.y + h + (p.h - h) = p.y + p.h
  BY <1>0 DEF Fits
<1>2. /\ Piece(p.x, p.y, w, h) \in Pieces
      /\ Piece(p.x + w, p.y, p.w - w, h) \in Pieces /\ Piece(p.x, p.y + h, p.w, p.h - h) \in Pieces
      /\ Piece(p.x, p.y + h, w, p.h - h) \in Pieces /\ Piece(p.x + w, p.y, p.w - w, p.h) \in Pieces
  BY <1>0, <1>1 DEF Piece, Pieces
<1>3. CASE p.w - w < p.h - h
  <2>1. /\ Taken(p, w, h) = Piece(p.x, p.y, w, h)
        /\ Leaf1(p, w, h) = Piece(p.x + w, p.y, p.w - w, h)
        /\ Leaf2(p, w, h) = Piece(p.x, p.y + h, p.w, p.h - h)
    BY <1>3 DEF Taken, Leaf1, Leaf2
  <2> QED BY <1>0, <1>1, <1>2, <2>1 DEF Piece, Within, Apart, Fits
<1>4. CASE ~(p.w - w < p.h - h)
  <2>1. /\ Taken(p, w, h) = Piece(p.x, p.y, w, h)
        /\ Leaf1(p, w, h) = Piece(p.x, p.y + h, w, p.h - h)
        /\ Leaf2(p, w, h) = Piece(p.x + w, p.y, p.w - w, p.h)
    BY <1>4 DEF Taken, Leaf1, Leaf2
  <2> QED BY <1>0, <1>1, <1>2, <2>1 DEF Piece, Within, Apart, Fits
<1> QED BY <1>3, <1>4

-----------------------------------------------------------------------------
(* Atlases.                                                                *)

\* What is drawn in an atlas: glyphs at sizes.
Drawn == Glyphs \X (Sizes \union {DefaultSize})
Places == [place : Pieces, of : Drawn]
Atlases == [free : Seq(Pieces), used : SUBSET Places]

Sound(atlas) == atlas \in Atlases /\ AtlasIsSound(atlas, Side, Side)

LEMMA NewAtlasSound == Sound(NewAtlas(Side, Side))
<1> DEFINE p == Piece(0, 0, Side, Side)
<1>1. p \in Pieces /\ Inside(p, Side, Side)
  BY FontAssumption DEF FontAssumption, Piece, Pieces, Inside
<1>2. NewAtlas(Side, Side) \in Atlases BY <1>1 DEF NewAtlas, Atlases
<1>3. NewAtlas(Side, Side).used = {} /\ Len(NewAtlas(Side, Side).free) = 1
      /\ NewAtlas(Side, Side).free[1] = p
  BY DEF NewAtlas
<1> QED BY <1>1, <1>2, <1>3 DEF Sound, AtlasIsSound

\* Where the piece of a list that was cut comes from.
Origin(i, k) == IF k <= i THEN k ELSE k - 1

LEMMA CutPieces ==
  ASSUME NEW free \in Seq(Pieces), NEW i \in 1 .. Len(free), NEW w \in Nat, NEW h \in Nat,
         Fits(free[i], w, h)
  PROVE  /\ Cut(free, i, w, h) \in Seq(Pieces)
         /\ Len(Cut(free, i, w, h)) = Len(free) + 1
         /\ \A k \in 1 .. Len(free) + 1 :
              /\ Origin(i, k) \in 1 .. Len(free)
              /\ Within(Cut(free, i, w, h)[k], free[Origin(i, k)])
         /\ Cut(free, i, w, h)[i] = Leaf1(free[i], w, h)
         /\ Cut(free, i, w, h)[i + 1] = Leaf2(free[i], w, h)
<1> DEFINE n == Len(free) + 1
           c == Cut(free, i, w, h)
<1>1. Len(free) \in Nat /\ n \in Nat /\ i \in Nat /\ \A k \in 1 .. Len(free) : free[k] \in Pieces
  OBVIOUS
<1>2. ASSUME NEW p \in Pieces PROVE Within(p, p)
  <2>1. p.x \in Nat /\ p.y \in Nat /\ p.w \in Nat /\ p.h \in Nat BY DEF Pieces
  <2>2. p.x <= p.x /\ p.y <= p.y /\ p.x + p.w <= p.x + p.w /\ p.y + p.h <= p.y + p.h BY <2>1
  <2> QED BY <2>2 DEF Within
<1>3. /\ Leaf1(free[i], w, h) \in Pieces /\ Leaf2(free[i], w, h) \in Pieces
      /\ Within(Leaf1(free[i], w, h), free[i]) /\ Within(Leaf2(free[i], w, h), free[i])
  BY <1>1, CutInThree
<1>4. \A k \in 1 .. n : c[k] = IF k < i THEN free[k]
                             ELSE IF k = i THEN Leaf1(free[i], w, h)
                             ELSE IF k = i + 1 THEN Leaf2(free[i], w, h)
                             ELSE free[k - 1]
  BY DEF Cut
<1>5. ASSUME NEW k \in 1 .. n
      PROVE  c[k] \in Pieces /\ Origin(i, k) \in 1 .. Len(free) /\ Within(c[k], free[Origin(i, k)])
  <2> HIDE DEF c, n
  <2>0. k \in Nat /\ 1 <= k /\ k <= n /\ n = Len(free) + 1 /\ i <= Len(free) /\ 1 <= i BY <1>1 DEF n
  <2>1. CASE k < i
    <3>1. c[k] = free[k] /\ Origin(i, k) = k /\ k \in 1 .. Len(free)
      BY <2>0, <2>1, <1>1, <1>4 DEF Origin
    <3> QED BY <3>1, <1>1, <1>2
  <2>2. CASE k = i
    <3>1. c[k] = Leaf1(free[i], w, h) /\ Origin(i, k) = i BY <2>0, <2>2, <1>1, <1>4 DEF Origin
    <3> QED BY <3>1, <1>3
  <2>3. CASE k = i + 1
    <3>1. c[k] = Leaf2(free[i], w, h) /\ Origin(i, k) = i BY <2>0, <2>3, <1>1, <1>4 DEF Origin
    <3> QED BY <3>1, <1>3
  <2>4. CASE k > i + 1
    <3>1. c[k] = free[k - 1] /\ Origin(i, k) = k - 1 /\ k - 1 \in 1 .. Len(free)
      BY <2>0, <2>4, <1>1, <1>4 DEF Origin
    <3> QED BY <3>1, <1>1, <1>2
  <2> QED BY <2>0, <2>1, <2>2, <2>3, <2>4, <1>1
<1>6. c = [k \in 1 .. n |-> c[k]] BY DEF Cut
<1>7. c \in Seq(Pieces) /\ Len(c) = n
  <2>1. c \in [1 .. n -> Pieces] BY <1>5, <1>6
  <2> HIDE DEF c, n
  <2> QED BY <2>1, <1>1
<1>8. i \in 1 .. n /\ i + 1 \in 1 .. n BY <1>1
<1> QED BY <1>1, <1>4, <1>5, <1>7, <1>8

\* atlasPlace keeps an atlas sound.
LEMMA PlacedSound ==
  ASSUME NEW atlas, Sound(atlas), NEW i \in 1 .. Len(atlas.free), NEW w \in Nat, NEW h \in Nat,
         NEW of \in Drawn, Fits(atlas.free[i], w + 1, h + 1)
  PROVE  Sound(PlacedAt(atlas, i, w, h, of))
<1> DEFINE free == atlas.free
           new == PlacedAt(atlas, i, w, h, of)
           place == Taken(free[i], w + 1, h + 1)
           it == [place |-> place, of |-> of]
<1>1. /\ free \in Seq(Pieces) /\ atlas.used \in SUBSET Places /\ Len(free) \in Nat
      /\ AtlasIsSound(atlas, Side, Side)
  BY DEF Sound, Atlases
<1>2. new.free = Cut(free, i, w + 1, h + 1) /\ new.used = atlas.used \union {it}
  BY DEF PlacedAt
<1>3. w + 1 \in Nat /\ h + 1 \in Nat /\ Side \in Nat BY FontAssumption DEF FontAssumption
<1>4. \A k \in 1 .. Len(free) : free[k] \in Pieces BY <1>1
<1>5. /\ place \in Pieces /\ Within(place, free[i])
      /\ Apart(place, Leaf1(free[i], w + 1, h + 1)) /\ Apart(place, Leaf2(free[i], w + 1, h + 1))
      /\ Apart(Leaf1(free[i], w + 1, h + 1), Leaf2(free[i], w + 1, h + 1))
  BY <1>3, <1>4, CutInThree
<1>6. /\ new.free \in Seq(Pieces) /\ Len(new.free) = Len(free) + 1
      /\ \A k \in 1 .. Len(free) + 1 :
           Origin(i, k) \in 1 .. Len(free) /\ Within(new.free[k], free[Origin(i, k)])
      /\ new.free[i] = Leaf1(free[i], w + 1, h + 1)
      /\ new.free[i + 1] = Leaf2(free[i], w + 1, h + 1)
  <2>1. PICK list \in Seq(Pieces), wide \in Nat, high \in Nat :
          list = free /\ wide = w + 1 /\ high = h + 1
    BY <1>1, <1>3
  <2>2. i \in 1 .. Len(list) /\ Fits(list[i], wide, high) BY <2>1
  <2> HIDE DEF free, new
  <2>3. /\ Cut(list, i, wide, high) \in Seq(Pieces)
        /\ Len(Cut(list, i, wide, high)) = Len(list) + 1
        /\ \A k \in 1 .. Len(list) + 1 :
             /\ Origin(i, k) \in 1 .. Len(list)
             /\ Within(Cut(list, i, wide, high)[k], list[Origin(i, k)])
        /\ Cut(list, i, wide, high)[i] = Leaf1(list[i], wide, high)
        /\ Cut(list, i, wide, high)[i + 1] = Leaf2(list[i], wide, high)
    BY <2>2, CutPieces
  <2>4. new.free = Cut(list, i, wide, high) BY <1>2, <2>1
  <2> QED BY <2>1, <2>3, <2>4
<1>7. \A k \in 1 .. Len(free) + 1 : new.free[k] \in Pieces BY <1>1, <1>6
<1>8. new \in Atlases
  <2>1. it \in Places BY <1>5 DEF Places
  <2>2. new.used \in SUBSET Places BY <1>1, <1>2, <2>1
  <2>3. new = [free |-> new.free, used |-> new.used] BY DEF PlacedAt
  <2> QED BY <1>6, <2>2, <2>3 DEF Atlases
<1>9. \A u \in atlas.used : u.place \in Pieces BY <1>1 DEF Places
<1>10. it.place = place OBVIOUS
<1> HIDE DEF free, new, place, it
<1>11. \A k \in 1 .. Len(free) + 1 : Origin(i, k) \in 1 .. Len(free) BY <1>6
<1>12. ASSUME NEW u \in new.used PROVE u.place \in Pieces /\ Inside(u.place, Side, Side)
  <2>1. CASE u \in atlas.used BY <2>1, <1>1, <1>9 DEF AtlasIsSound
  <2>2. CASE u = it
    <3>1. Inside(free[i], Side, Side) BY <1>1 DEF AtlasIsSound, free
    <3> QED BY <2>2, <3>1, <1>3, <1>4, <1>5, <1>10, WithinStaysInside DEF free
  <2> QED BY <2>1, <2>2, <1>2
<1>13. ASSUME NEW k \in 1 .. Len(new.free) PROVE Inside(new.free[k], Side, Side)
  <2>1. Inside(free[Origin(i, k)], Side, Side) BY <1>1, <1>6, <1>11 DEF AtlasIsSound, free
  <2> QED BY <2>1, <1>3, <1>4, <1>6, <1>7, <1>11, WithinStaysInside
<1>14. ASSUME NEW u \in atlas.used PROVE Apart(u.place, place) /\ Apart(place, u.place)
  <2>1. Apart(u.place, free[i]) BY <1>1 DEF AtlasIsSound, free
  <2>2. free[i] \in Pieces /\ u.place \in Pieces BY <1>4, <1>9 DEF free
  <2>3. Apart(free[i], u.place) BY <2>1, <2>2, ApartBothWays
  <2> QED BY <2>2, <2>3, <1>5, WithinStaysApart
<1>15. ASSUME NEW u \in new.used, NEW v \in new.used, u # v PROVE Apart(u.place, v.place)
  <2>1. CASE u \in atlas.used /\ v \in atlas.used BY <2>1, <1>1, <1>15 DEF AtlasIsSound
  <2>2. CASE u = it /\ v \in atlas.used BY <2>2, <1>10, <1>14
  <2>3. CASE v = it /\ u \in atlas.used BY <2>3, <1>10, <1>14
  <2> QED BY <2>1, <2>2, <2>3, <1>2, <1>15
<1>16. ASSUME NEW u \in new.used, NEW k \in 1 .. Len(new.free) PROVE Apart(u.place, new.free[k])
  <2> DEFINE o == Origin(i, k)
  <2>1. /\ o \in 1 .. Len(free) /\ Within(new.free[k], free[o]) /\ free[o] \in Pieces
        /\ new.free[k] \in Pieces /\ u.place \in Pieces
    BY <1>4, <1>6, <1>7, <1>12
  <2>2. CASE u \in atlas.used
    <3>1. Apart(u.place, free[o]) BY <2>1, <2>2, <1>1 DEF AtlasIsSound, free
    <3> HIDE DEF o
    <3>2. Apart(free[o], u.place) BY <2>1, <3>1, ApartBothWays
    <3> QED BY <2>1, <3>2, WithinStaysApart
  <2>3. CASE u = it /\ o # i
    <3>1. Apart(free[o], free[i]) BY <2>1, <2>3, <1>1 DEF AtlasIsSound, free
    <3> HIDE DEF o
    <3>2. free[i] \in Pieces BY <1>4 DEF free
    <3>3. Apart(new.free[k], free[i]) BY <2>1, <3>1, <3>2, WithinStaysApart
    <3>4. Apart(free[i], new.free[k]) BY <2>1, <3>2, <3>3, ApartBothWays
    <3>5. Apart(place, new.free[k]) BY <2>1, <3>2, <3>4, <1>5, WithinStaysApart
    <3> QED BY <3>5, <2>3, <1>10
  <2>4. CASE u = it /\ o = i
    <3>1. k \in Nat /\ i \in Nat BY <1>1, <1>6 DEF free
    <3>2. k = i \/ k = i + 1 BY <2>4, <3>1 DEF Origin
    <3> QED BY <3>2, <2>4, <1>5, <1>6, <1>10
  <2> QED BY <2>2, <2>3, <2>4, <1>2
<1>17. ASSUME NEW j \in 1 .. Len(new.free), NEW k \in 1 .. Len(new.free), j # k
       PROVE  Apart(new.free[j], new.free[k])
  <2> DEFINE p == Origin(i, j)
             q == Origin(i, k)
  <2>1. /\ p \in 1 .. Len(free) /\ Within(new.free[j], free[p]) /\ free[p] \in Pieces
        /\ q \in 1 .. Len(free) /\ Within(new.free[k], free[q]) /\ free[q] \in Pieces
        /\ new.free[j] \in Pieces /\ new.free[k] \in Pieces
    BY <1>4, <1>6, <1>7
  <2>2. CASE p # q
    <3>1. Apart(free[p], free[q]) BY <2>1, <2>2, <1>1 DEF AtlasIsSound, free
    <3> HIDE DEF p, q
    <3>2. Apart(new.free[j], free[q]) /\ Apart(free[q], new.free[j])
      BY <2>1, <3>1, WithinStaysApart
    <3> QED BY <2>1, <3>2, WithinStaysApart
  <2>3. CASE p = q
    <3>1. j \in Nat /\ k \in Nat /\ i \in Nat BY <1>1, <1>6 DEF free
    <3>2. (j = i /\ k = i + 1) \/ (j = i + 1 /\ k = i) BY <2>3, <3>1, <1>17 DEF Origin
    <3>3. new.free[i] \in Pieces /\ new.free[i + 1] \in Pieces BY <3>2, <2>1
    <3>4. Apart(new.free[i], new.free[i + 1]) BY <1>5, <1>6
    <3>5. Apart(new.free[i + 1], new.free[i]) BY <3>3, <3>4, ApartBothWays
    <3> QED BY <3>2, <3>4, <3>5
  <2> QED BY <2>2, <2>3
<1> QED BY <1>8, <1>12, <1>13, <1>15, <1>16, <1>17 DEF Sound, AtlasIsSound, new

-----------------------------------------------------------------------------
(* The fonts: every atlas is sound, and the cache of a slot names pixels    *)
(* that are in the slot's atlases, at the size its face draws at.           *)

Entries == [aid : Nat \ {0}, place : Pieces, glyph : Glyphs, size : Sizes \union {DefaultSize}]

FontTypeOK ==
    /\ valid \subseteq Slots
    /\ size \in [Slots -> Sizes \union {DefaultSize}]
    /\ atlases \in [Slots -> Seq(Atlases)]
    /\ cache \in [Slots -> [Glyphs -> Entries \union {None, Blank}]]

AllSound == \A s \in Slots : \A k \in 1 .. Len(atlases[s]) : Sound(atlases[s][k])

Held(s, g, e) == HoldsGlyph(s, e) /\ e.glyph = g /\ e.size = size[s]

CacheHolds == \A s \in Slots, g \in Glyphs : cache[s][g] \in {None, Blank} \/ Held(s, g, cache[s][g])

FontInv == FontTypeOK /\ AllSound /\ CacheHolds

LEMMA FontStart == FontInit => FontInv
<1> SUFFICES ASSUME FontInit PROVE FontInv OBVIOUS
<1>1. FontTypeOK BY DEF FontInit, FontTypeOK, NoGlyphs
<1>2. \A s \in Slots : Len(atlases[s]) = 0 BY DEF FontInit
<1>3. AllSound BY <1>2 DEF AllSound
<1>4. CacheHolds BY DEF FontInit, CacheHolds, NoGlyphs
<1> QED BY <1>1, <1>3, <1>4 DEF FontInv

\* fntCacheFlush.
LEMMA FlushStep ==
  ASSUME FontInv, NEW slots \in SUBSET Slots, NEW z \in Sizes \union {DefaultSize},
         FlushAt(slots, z), valid' \subseteq Slots
  PROVE  FontInv'
<1> USE DEF FlushAt
<1>1. FontTypeOK' BY DEF FontInv, FontTypeOK, NoGlyphs
<1>2. \A s \in slots : Len(atlases'[s]) = 0 /\ \A g \in Glyphs : cache'[s][g] = None
  BY DEF NoGlyphs
<1>3. \A s \in Slots \ slots : size'[s] = size[s] /\ atlases'[s] = atlases[s] /\ cache'[s] = cache[s]
  OBVIOUS
<1>4. AllSound' BY <1>2, <1>3 DEF FontInv, AllSound
<1>5. CacheHolds'
  <2> SUFFICES ASSUME NEW s \in Slots, NEW g \in Glyphs
               PROVE  cache'[s][g] \in {None, Blank} \/ Held(s, g, cache[s][g])'
    BY DEF CacheHolds
  <2>1. CASE s \in slots BY <2>1, <1>2
  <2>2. CASE s \notin slots
    <3>1. cache[s][g] \in {None, Blank} \/ Held(s, g, cache[s][g]) BY DEF FontInv, CacheHolds
    <3> QED BY <2>2, <3>1, <1>3 DEF Held, HoldsGlyph
  <2> QED BY <2>1, <2>2
<1> QED BY <1>1, <1>4, <1>5 DEF FontInv

LEMMA GrownSound ==
  ASSUME FontInv, NEW s \in Slots, NEW n \in Nat
  PROVE  /\ Grown(s, n) \in Seq(Atlases)
         /\ Len(Grown(s, n)) \in Nat /\ n <= Len(Grown(s, n)) /\ Len(atlases[s]) <= Len(Grown(s, n))
         /\ \A k \in 1 .. Len(Grown(s, n)) : Sound(Grown(s, n)[k]) /\ Grown(s, n)[k] = AtlasFor(s, k)
         /\ \A k \in 1 .. Len(atlases[s]) : Grown(s, n)[k] = atlases[s][k]
<1> DEFINE old == atlases[s]
           m == IF n > Len(old) THEN n ELSE Len(old)
           new == Grown(s, n)
<1>1. old \in Seq(Atlases) /\ Len(old) \in Nat /\ \A k \in 1 .. Len(old) : Sound(old[k])
  BY DEF FontInv, FontTypeOK, AllSound
<1>2. m \in Nat /\ n <= m /\ Len(old) <= m BY <1>1
<1>3. new = [k \in 1 .. m |-> AtlasFor(s, k)] BY DEF Grown
<1> HIDE DEF m, new
<1>4. ASSUME NEW k \in 1 .. m PROVE Sound(AtlasFor(s, k))
  <2>1. CASE k <= Len(old) BY <2>1, <1>1, <1>2 DEF AtlasFor
  <2>2. CASE ~(k <= Len(old)) BY <2>2, NewAtlasSound DEF AtlasFor
  <2> QED BY <2>1, <2>2
<1>5. new \in [1 .. m -> Atlases] BY <1>3, <1>4 DEF Sound
<1>6. new \in Seq(Atlases) /\ Len(new) = m BY <1>2, <1>5
<1>7. \A k \in 1 .. m : Sound(new[k]) /\ new[k] = AtlasFor(s, k) BY <1>3, <1>4
<1>8. \A k \in 1 .. Len(old) : new[k] = old[k]
  <2> SUFFICES ASSUME NEW k \in 1 .. Len(old) PROVE new[k] = old[k] OBVIOUS
  <2>1. k \in 1 .. m /\ k <= Len(old) BY <1>1, <1>2
  <2> QED BY <2>1, <1>7 DEF AtlasFor
<1> QED BY <1>2, <1>6, <1>7, <1>8 DEF new

\* The atlases of a slot that gets a glyph: nothing that is in them goes.
LEMMA GrowStep ==
  ASSUME FontInv, NEW s \in Slots, NEW g \in Glyphs,
         NEW new \in Seq(Atlases), \A k \in 1 .. Len(new) : Sound(new[k]),
         Len(atlases[s]) <= Len(new),
         \A k \in 1 .. Len(atlases[s]) : atlases[s][k].used \subseteq new[k].used,
         atlases' = [atlases EXCEPT ![s] = new],
         NEW e \in Entries \union {None, Blank}, cache' = [cache EXCEPT ![s][g] = e],
         e \in {None, Blank} \/ Held(s, g, e)',
         UNCHANGED <<valid, size>>
  PROVE  FontInv'
<1>1. FontTypeOK'
  <2>1. atlases' \in [Slots -> Seq(Atlases)] BY DEF FontInv, FontTypeOK
  <2>2. cache' \in [Slots -> [Glyphs -> Entries \union {None, Blank}]] BY DEF FontInv, FontTypeOK
  <2> QED BY <2>1, <2>2 DEF FontInv, FontTypeOK
<1>2. /\ atlases'[s] = new /\ \A t \in Slots \ {s} : atlases'[t] = atlases[t]
      /\ atlases[s] \in Seq(Atlases)
  BY DEF FontInv, FontTypeOK
<1>3. AllSound' BY <1>2 DEF FontInv, AllSound
<1>4. ASSUME NEW t \in Slots, NEW f, HoldsGlyph(t, f), f.aid \in Nat \ {0}
      PROVE  HoldsGlyph(t, f)'
  <2>1. CASE t = s
    <3>1. Len(new) \in Nat /\ Len(atlases[s]) \in Nat BY <1>2
    <3>2. f.aid <= Len(atlases[s]) BY <1>4, <2>1 DEF HoldsGlyph
    <3>3. f.aid \in 1 .. Len(atlases[s]) /\ f.aid <= Len(new) BY <1>4, <3>1, <3>2
    <3> QED BY <1>2, <1>4, <2>1, <3>3 DEF HoldsGlyph
  <2>2. CASE t # s BY <1>2, <1>4, <2>2 DEF HoldsGlyph
  <2> QED BY <2>1, <2>2
<1>5. CacheHolds'
  <2> SUFFICES ASSUME NEW t \in Slots, NEW h \in Glyphs
               PROVE  cache'[t][h] \in {None, Blank} \/ Held(t, h, cache[t][h])'
    BY DEF CacheHolds
  <2>1. CASE t = s /\ h = g
    <3>1. cache'[t][h] = e BY <2>1 DEF FontInv, FontTypeOK
    <3> QED BY <2>1, <3>1 DEF Held, HoldsGlyph
  <2>2. CASE ~(t = s /\ h = g)
    <3>1. cache'[t][h] = cache[t][h] BY <2>2 DEF FontInv, FontTypeOK
    <3>2. cache[t][h] \in Entries \union {None, Blank} BY DEF FontInv, FontTypeOK
    <3>3. CASE cache[t][h] \in {None, Blank} BY <3>1, <3>3
    <3>4. CASE cache[t][h] \notin {None, Blank}
      <4>1. Held(t, h, cache[t][h]) BY <3>4 DEF FontInv, CacheHolds
      <4>2. cache[t][h].aid \in Nat \ {0} BY <3>2, <3>4 DEF Entries
      <4>3. PICK f : f = cache[t][h] OBVIOUS
      <4>4. HoldsGlyph(t, f)' BY <4>1, <4>2, <4>3, <1>4 DEF Held
      <4>5. f.glyph = h /\ f.size = size'[t] BY <4>1, <4>3 DEF Held
      <4> QED BY <3>1, <4>3, <4>4, <4>5 DEF Held, HoldsGlyph
    <3> QED BY <3>3, <3>4
  <2> QED BY <2>1, <2>2
<1> QED BY <1>1, <1>3, <1>5 DEF FontInv

\* fntGlyphAtlasPlace.
LEMMA PlaceGlyphStep ==
  ASSUME FontInv, NEW s \in valid, NEW g \in Glyphs, PlaceGlyph(s, g), UNCHANGED <<valid, size>>
  PROVE  FontInv'
<1> DEFINE z == size[s]
           old == atlases[s]
<1>1. s \in Slots /\ z \in Sizes \union {DefaultSize} BY DEF FontInv, FontTypeOK
<1>2. PICK shape \in {Shape(g, z)} :
        \/ /\ shape.w = 0 \/ shape.h = 0
           /\ cache' = [cache EXCEPT ![s][g] = Blank]
           /\ UNCHANGED atlases
        \/ /\ shape.w > 0 /\ shape.h > 0
           /\ \E aid \in 1 .. AtlasMax :
                /\ HasRoom(s, aid, shape) /\ \A a \in 1 .. aid - 1 : ~HasRoom(s, a, shape)
                /\ \E surface \in {AtlasFor(s, aid)} : \E i \in 1 .. Len(surface.free) :
                     /\ IsFirstFit(surface.free, i, shape.w + 1, shape.h + 1)
                     /\ atlases' = [atlases EXCEPT ![s] =
                          [Grown(s, aid) EXCEPT ![aid] = PlacedAt(surface, i, shape.w, shape.h, <<g, z>>)]]
                     /\ cache' = [cache EXCEPT ![s][g] =
                          Entry(aid, Taken(surface.free[i], shape.w + 1, shape.h + 1), g, z)]
        \/ /\ shape.w > 0 /\ shape.h > 0
           /\ \A aid \in 1 .. AtlasMax : ~HasRoom(s, aid, shape)
           /\ atlases' = [atlases EXCEPT ![s] = Grown(s, AtlasMax)]
           /\ UNCHANGED cache
  BY DEF PlaceGlyph
<1>3. shape.w \in Nat /\ shape.h \in Nat BY <1>1, <1>2, FontAssumption DEF FontAssumption
<1>4. old \in Seq(Atlases) /\ Len(old) \in Nat /\ atlases' \in {atlases'} BY <1>1 DEF FontInv, FontTypeOK
<1>5. CASE cache' = [cache EXCEPT ![s][g] = Blank] /\ UNCHANGED atlases
  <2>1. atlases' = [atlases EXCEPT ![s] = old] BY <1>5 DEF FontInv, FontTypeOK
  <2>2. \A k \in 1 .. Len(old) : Sound(old[k]) BY <1>1 DEF FontInv, AllSound
  <2>3. PICK new \in Seq(Atlases) : new = old BY <1>4
  <2>4. PICK e \in Entries \union {None, Blank} : e = Blank OBVIOUS
  <2>5. /\ \A k \in 1 .. Len(new) : Sound(new[k])
        /\ Len(old) <= Len(new) /\ \A k \in 1 .. Len(old) : old[k].used \subseteq new[k].used
    BY <1>4, <2>2, <2>3
  <2>6. atlases' = [atlases EXCEPT ![s] = new] /\ cache' = [cache EXCEPT ![s][g] = e]
    BY <1>5, <2>1, <2>3, <2>4
  <2>7. e \in {None, Blank} BY <2>4
  <2> QED BY <1>1, <2>5, <2>6, <2>7, GrowStep
<1>6. ASSUME NEW aid \in 1 .. AtlasMax, NEW surface \in {AtlasFor(s, aid)},
             NEW i \in 1 .. Len(surface.free),
             IsFirstFit(surface.free, i, shape.w + 1, shape.h + 1),
             atlases' = [atlases EXCEPT ![s] =
               [Grown(s, aid) EXCEPT ![aid] = PlacedAt(surface, i, shape.w, shape.h, <<g, z>>)]],
             cache' = [cache EXCEPT ![s][g] =
               Entry(aid, Taken(surface.free[i], shape.w + 1, shape.h + 1), g, z)]
      PROVE  FontInv'
  <2> DEFINE grown == Grown(s, aid)
             placed == PlacedAt(surface, i, shape.w, shape.h, <<g, z>>)
             place == Taken(surface.free[i], shape.w + 1, shape.h + 1)
             e == Entry(aid, place, g, z)
  <2>1. aid \in Nat \ {0} /\ AtlasMax \in Nat BY FontAssumption DEF FontAssumption
  <2>2. /\ grown \in Seq(Atlases) /\ Len(grown) \in Nat /\ aid \in 1 .. Len(grown)
        /\ Len(old) <= Len(grown)
        /\ \A k \in 1 .. Len(grown) : Sound(grown[k]) /\ grown[k] = AtlasFor(s, k)
        /\ \A k \in 1 .. Len(old) : grown[k] = old[k]
    BY <1>1, <2>1, GrownSound
  <2>3. Sound(surface) /\ surface = grown[aid] BY <2>2
  <2>4. <<g, z>> \in Drawn BY <1>1 DEF Drawn
  <2>5. Fits(surface.free[i], shape.w + 1, shape.h + 1) BY <1>6 DEF IsFirstFit
  <2>6. Sound(placed) BY <1>3, <2>3, <2>4, <2>5, PlacedSound
  <2>7. placed.used = surface.used \union {[place |-> place, of |-> <<g, z>>]} BY DEF PlacedAt
  <2>8. place \in Pieces
    <3>1. surface.free[i] \in Pieces BY <2>3 DEF Sound, Atlases
    <3>2. shape.w + 1 \in Nat /\ shape.h + 1 \in Nat BY <1>3
    <3> QED BY <2>5, <3>1, <3>2, CutInThree
  <2>9. e \in Entries /\ e.aid = aid /\ e.place = place /\ e.glyph = g /\ e.size = z
    BY <1>1, <2>1, <2>8 DEF Entries, Entry
  <2> HIDE DEF grown, placed, place, e
  <2>10. PICK new \in Seq(Atlases) : new = [grown EXCEPT ![aid] = placed]
    <3>1. placed \in Atlases BY <2>6 DEF Sound
    <3>2. [grown EXCEPT ![aid] = placed] \in Seq(Atlases) BY <2>2, <3>1, ExceptSeq
    <3> QED BY <3>2
  <2>11. /\ Len(new) = Len(grown) /\ new[aid] = placed
         /\ \A k \in 1 .. Len(grown) : k # aid => new[k] = grown[k]
    BY <2>2, <2>10
  <2>12. \A k \in 1 .. Len(new) : Sound(new[k]) BY <2>2, <2>6, <2>11
  <2>13. \A k \in 1 .. Len(old) : old[k].used \subseteq new[k].used
    <3> SUFFICES ASSUME NEW k \in 1 .. Len(old) PROVE old[k].used \subseteq new[k].used OBVIOUS
    <3>1. k \in 1 .. Len(grown) /\ old[k] = grown[k] BY <1>4, <2>2
    <3>2. CASE k = aid BY <2>3, <2>7, <2>11, <3>1, <3>2
    <3>3. CASE k # aid BY <2>11, <3>1, <3>3
    <3> QED BY <3>2, <3>3
  <2>14. PICK f \in Entries \union {None, Blank} : f = e BY <2>9
  <2>15. atlases' = [atlases EXCEPT ![s] = new] /\ cache' = [cache EXCEPT ![s][g] = f]
    BY <1>6, <2>10, <2>14 DEF grown, placed, place, e
  <2>16. Held(s, g, f)'
    <3>1. atlases'[s] = new BY <1>1, <2>15 DEF FontInv, FontTypeOK
    <3>2. f.aid = aid /\ f.aid <= Len(new) BY <2>2, <2>9, <2>11, <2>14
    <3>3. [place |-> f.place, of |-> <<f.glyph, f.size>>] \in new[aid].used
      BY <2>7, <2>9, <2>11, <2>14
    <3>4. HoldsGlyph(s, f)' BY <3>1, <3>2, <3>3 DEF HoldsGlyph
    <3>5. f.glyph = g /\ f.size = size'[s] BY <2>9, <2>14
    <3> QED BY <3>4, <3>5 DEF Held
  <2>17. Len(old) <= Len(new) BY <2>2, <2>11
  <2> QED BY <1>1, <2>12, <2>13, <2>15, <2>16, <2>17, GrowStep
<1>7. CASE atlases' = [atlases EXCEPT ![s] = Grown(s, AtlasMax)] /\ UNCHANGED cache
  <2>1. AtlasMax \in Nat BY FontAssumption DEF FontAssumption
  <2>2. PICK new \in Seq(Atlases) : new = Grown(s, AtlasMax) BY <1>1, <2>1, GrownSound
  <2>3. /\ Len(old) <= Len(new) /\ \A k \in 1 .. Len(new) : Sound(new[k])
        /\ \A k \in 1 .. Len(old) : new[k] = old[k]
    BY <1>1, <2>1, <2>2, GrownSound
  <2>4. PICK e \in Entries \union {None, Blank} : e = cache[s][g] BY <1>1 DEF FontInv, FontTypeOK
  <2>5. cache' = [cache EXCEPT ![s][g] = e] BY <1>7, <2>4 DEF FontInv, FontTypeOK
  <2>6. e \in {None, Blank} \/ Held(s, g, e) BY <1>1, <2>4 DEF FontInv, CacheHolds
  <2>7. ASSUME e \notin {None, Blank} PROVE Held(s, g, e)'
    <3>1. Held(s, g, e) /\ e.aid \in Nat \ {0} BY <2>6, <2>7 DEF Entries
    <3>2. atlases'[s] = new BY <1>1, <1>7, <2>2 DEF FontInv, FontTypeOK
    <3>3. e.aid \in 1 .. Len(old) BY <3>1, <1>4 DEF Held, HoldsGlyph
    <3>4. Len(new) \in Nat BY <2>2
    <3>5. e.aid <= Len(new) /\ new[e.aid] = old[e.aid] BY <1>4, <2>3, <3>3, <3>4
    <3> QED BY <3>1, <3>2, <3>5 DEF Held, HoldsGlyph
  <2>8. atlases' = [atlases EXCEPT ![s] = new] BY <1>7, <2>2
  <2>9. \A k \in 1 .. Len(old) : old[k].used \subseteq new[k].used BY <2>3
  <2> QED BY <1>1, <2>3, <2>5, <2>7, <2>8, <2>9, GrowStep
<1> QED BY <1>2, <1>5, <1>6, <1>7

LEMMA FontSame ==
  ASSUME FontInv, UNCHANGED fontVars
  PROVE  FontInv'
BY DEF fontVars, FontInv, FontTypeOK, AllSound, CacheHolds, Held, HoldsGlyph

LEMMA FontStep ==
  ASSUME FontInv, FontOp
  PROVE  FontInv'
<1>0. /\ valid \subseteq Slots /\ DefaultSize \in Sizes \union {DefaultSize}
      /\ \A y \in Sizes : y \in Sizes \union {DefaultSize}
  BY DEF FontInv, FontTypeOK
<1>1. CASE LoadFont
  <2>1. PICK s \in Slots \ valid :
          \/ valid' = valid \union {s} /\ FlushAt(valid \union {s}, DefaultSize)
          \/ UNCHANGED fontVars
    BY <1>1 DEF LoadFont
  <2>3. CASE valid' = valid \union {s} /\ FlushAt(valid \union {s}, DefaultSize)
    <3>1. PICK slots \in SUBSET Slots : slots = valid \union {s} BY <1>0
    <3> QED BY <1>0, <2>3, <3>1, FlushStep
  <2>4. CASE UNCHANGED fontVars
    BY <2>4, FontSame
  <2> QED BY <2>1, <2>3, <2>4
<1>2. CASE SetCharSize
  <2>1. PICK s \in valid, z \in Sizes : FlushAt({s}, z) BY <1>2 DEF SetCharSize
  <2>2. valid' = valid BY <1>2 DEF SetCharSize
  <2>3. {s} \in SUBSET Slots /\ z \in Sizes \union {DefaultSize} /\ valid' \subseteq Slots BY <1>0, <2>2
  <2> QED BY <2>1, <2>2, <2>3, FlushStep
<1>3. CASE ReleaseFont
  <2>1. PICK s \in valid \ {0} : valid' = valid \ {s} /\ FlushAt({s}, DefaultSize)
    BY <1>3 DEF ReleaseFont
  <2>3. {s} \in SUBSET Slots /\ valid' \subseteq Slots BY <1>0, <2>1
  <2> QED BY <1>0, <2>1, <2>3, FlushStep
<1>4. CASE CacheGlyph BY <1>4, PlaceGlyphStep DEF CacheGlyph
<1> QED BY <1>1, <1>2, <1>3, <1>4 DEF FontOp

-----------------------------------------------------------------------------
(* Loading an image: which pointers are live at each step.  Only a load     *)
(* that has given up leaves one that is freed and set.                      *)

Live(t, steps) == ptr[t] = IF step \in steps THEN "live" ELSE "null"

Png == {"pngTex", "info", "size", "rows", "pixels", "palette", "copied", "end"}
Bmp == {"bmp", "headers", "bmpClut", "bmpPalette", "bmpSize", "bmpImage", "bmpPixels"}
WithTex == (Png \ {"pngTex"}) \union (Bmp \ {"bmp"}) \union {"upload"}
WithMem == {"rows", "pixels", "palette", "copied", "end", "bmpImage", "bmpPixels", "upload"}
WithClut == {"copied", "end", "bmpSize", "bmpImage", "bmpPixels", "upload"}

InHand ==
    step # "done" =>
      /\ Live("tex", WithTex) /\ Live("mem", WithMem)
      /\ Live("clut", {"bmpPalette"} \union IF kind \in Palettes THEN WithClut ELSE {})
      /\ Live("rows", {"pixels", "palette", "copied"})
      /\ Live("image", {"bmpPixels"})
      /\ ptr["png"] \in {"live", "null"}
      /\ step # "upload" => Live("png", Png)
      /\ ptr["file"] \in {"live", "null"}
      /\ step \in Bmp \union {"opened"} => ptr["file"] = "live"
      /\ step = "none" => ptr["file"] = "null"

Ended ==
    step = "done" =>
      /\ ~loaded => \A t \in Things : ptr[t] \in {"null", "freed"}
      /\ loaded => \A t \in Things : ptr[t] =
                     IF t = "tex" \/ (t = "mem" /\ delayed) \/ (t = "clut" /\ delayed /\ kind \in Palettes)
                     THEN "live" ELSE "null"

ImageInv ==
    /\ step \in {"none", "opened", "upload", "done"} \union {"png"} \union Png \union Bmp
    /\ ptr = [t \in Things |-> ptr[t]]
    /\ step # "done" => ~loaded
    /\ step = "none" => kind = "pngOther"
    /\ step \in {"palette", "bmpClut", "bmpPalette"} => kind \in Palettes
    /\ InHand /\ Ended /\ ~slip

LEMMA ImageStart == ImageInit => ImageInv
<1> SUFFICES ASSUME ImageInit PROVE ImageInv OBVIOUS
<1>1. step = "none" /\ ~loaded /\ ~slip /\ kind = "pngOther" BY DEF ImageInit
<1>2. ptr = [t \in Things |-> "null"] BY DEF ImageInit
<1> QED BY <1>1, <1>2 DEF ImageInv, InHand, Ended, Live, Things, Png, Bmp, WithTex, WithMem, WithClut, Palettes

LEMMA FreeDoes ==
  ASSUME NEW ts, NEW left, Free(ts, left), ~slip, \A t \in ts : ptr[t] # "freed"
  PROVE  /\ ptr' = [t \in Things |-> ptr'[t]]
         /\ \A t \in Things : ptr'[t] = IF t \in ts /\ ptr[t] = "live" THEN left ELSE ptr[t]
         /\ ~slip'
<1>1. ptr' = [t \in Things |-> IF t \in ts /\ ptr[t] = "live" THEN left ELSE ptr[t]] BY DEF Free
<1>2. \A t \in Things : ptr'[t] = IF t \in ts /\ ptr[t] = "live" THEN left ELSE ptr[t] BY <1>1
<1>3. ptr' = [t \in Things |-> ptr'[t]] BY <1>1, <1>2
<1>4. slip' = (slip \/ \E t \in ts : ptr[t] = "freed") BY DEF Free
<1>5. ~slip' BY <1>4
<1> QED BY <1>2, <1>3, <1>5

LEMMA GetDoes ==
  ASSUME ImageInv, NEW t \in Things, Have(t)
  PROVE  /\ ptr' = [u \in Things |-> ptr'[u]]
         /\ ptr'[t] = "live" /\ \A u \in Things \ {t} : ptr'[u] = ptr[u]
BY DEF ImageInv, Have

\* Every pointer is set or not, none is freed and set, before the load ends.
LEMMA NoneFreed ==
  ASSUME ImageInv, step # "done"
  PROVE  \A t \in Things : ptr[t] \in {"live", "null"}
<1> SUFFICES ASSUME NEW t \in Things PROVE ptr[t] \in {"live", "null"} OBVIOUS
<1>1. CASE t \in {"png", "file"} BY <1>1 DEF ImageInv, InHand
<1>2. CASE t \in {"tex", "mem", "clut"} BY <1>2 DEF ImageInv, InHand, Live
<1>3. CASE t \in {"rows", "image"} BY <1>3 DEF ImageInv, InHand, Live
<1> QED BY <1>1, <1>2, <1>3 DEF Things

\* A load that frees all it has leaves nothing.
LEMMA GiveUpStep ==
  ASSUME ImageInv, step # "done", NEW ts \in SUBSET Things,
         \A t \in Things \ ts : ptr[t] = "null", GiveUp(ts)
  PROVE  ImageInv'
<1>1. \A t \in Things : ptr[t] \in {"live", "null"} BY NoneFreed
<1>2. ~slip /\ Free(ts, "freed") /\ \A t \in ts : ptr[t] # "freed" BY <1>1 DEF ImageInv, GiveUp
<1>3. /\ ptr' = [t \in Things |-> ptr'[t]] /\ ~slip'
      /\ \A t \in Things : ptr'[t] = IF t \in ts /\ ptr[t] = "live" THEN "freed" ELSE ptr[t]
  BY <1>2, FreeDoes
<1>4. step' = "done" /\ ~loaded' BY DEF GiveUp, Go
<1>5. \A t \in Things : ptr'[t] \in {"null", "freed"} BY <1>1, <1>3
<1> QED BY <1>3, <1>4, <1>5 DEF ImageInv, InHand, Ended

\* The PNG decoder, a step at a time: it goes on or jumps.
LEMMA PngStep ==
  ASSUME ImageInv, PngStruct \/ PngTex \/ Info \/ Unsupported \/ PngMem \/ Rows \/ Pixels \/ Palette \/ PngEnd
  PROVE  ImageInv'
<1>1. CASE PngStruct
  <2> DEFINE ts == {"file"}
  <2>1. step = "png" /\ ~loaded /\ ~slip BY <1>1 DEF PngStruct, ImageInv
  <2>2. ts \in SUBSET Things /\ \A t \in Things \ ts : ptr[t] = "null"
    BY <2>1 DEF ImageInv, InHand, Live, Things, PngFrame, WithTex, WithMem, WithClut, Png, Bmp, Palettes
  <2>3. ASSUME GiveUp(ts) PROVE ImageInv' BY <2>1, <2>2, <2>3, GiveUpStep
  <2>4. ASSUME ~GiveUp(ts) PROVE ImageInv'
    <3>1. "png" \in Things /\ Have("png") BY <1>1, <2>4 DEF PngStruct, Things
    <3>2. /\ ptr' = [t \in Things |-> ptr'[t]]
          /\ ptr'["png"] = "live" /\ \A t \in Things \ {"png"} : ptr'[t] = ptr[t]
      BY <3>1, GetDoes
    <3>3. UNCHANGED <<delayed, loaded, slip>> BY <1>1, <2>4 DEF PngStruct, Same
    <3> QED BY <1>1, <2>1, <2>4, <3>2, <3>3
            DEF PngStruct, Same, Go, ImageInv, InHand, Ended, Live, Things, WithTex, WithMem, WithClut,
                Png, Bmp, Palettes, PngKinds, BmpKinds
  <2> QED BY <2>3, <2>4
<1>2. CASE PngTex
  <2> DEFINE ts == PngFrame
  <2>1. step = "pngTex" /\ ~loaded /\ ~slip BY <1>2 DEF PngTex, ImageInv
  <2>2. ts \in SUBSET Things /\ \A t \in Things \ ts : ptr[t] = "null"
    BY <2>1 DEF ImageInv, InHand, Live, Things, PngFrame, WithTex, WithMem, WithClut, Png, Bmp, Palettes
  <2>3. ASSUME GiveUp(ts) PROVE ImageInv' BY <2>1, <2>2, <2>3, GiveUpStep
  <2>4. ASSUME ~GiveUp(ts) PROVE ImageInv'
    <3>1. "tex" \in Things /\ Have("tex") BY <1>2, <2>4 DEF PngTex, Things
    <3>2. /\ ptr' = [t \in Things |-> ptr'[t]]
          /\ ptr'["tex"] = "live" /\ \A t \in Things \ {"tex"} : ptr'[t] = ptr[t]
      BY <3>1, GetDoes
    <3>3. UNCHANGED <<delayed, loaded, slip>> BY <1>2, <2>4 DEF PngTex, Same
    <3> QED BY <1>2, <2>1, <2>4, <3>2, <3>3
            DEF PngTex, Same, Go, ImageInv, InHand, Ended, Live, Things, WithTex, WithMem, WithClut,
                Png, Bmp, Palettes, PngKinds, BmpKinds
  <2> QED BY <2>3, <2>4
<1>3. CASE Info
  <2> DEFINE ts == {"rows", "mem", "clut", "tex"} \union PngFrame
  <2>1. step = "info" /\ ~loaded /\ ~slip BY <1>3 DEF Info, ImageInv
  <2>2. ts \in SUBSET Things /\ \A t \in Things \ ts : ptr[t] = "null"
    BY <2>1 DEF ImageInv, InHand, Live, Things, PngFrame, WithTex, WithMem, WithClut, Png, Bmp, Palettes
  <2>3. ASSUME GiveUp(ts) PROVE ImageInv' BY <2>1, <2>2, <2>3, GiveUpStep
  <2>4. ASSUME ~GiveUp(ts) PROVE ImageInv'
    <3>2. UNCHANGED ptr BY <1>3, <2>4 DEF Info, Jump
    <3>3. UNCHANGED <<delayed, loaded, slip>> BY <1>3, <2>4 DEF Info, Jump, Same
    <3> QED BY <1>3, <2>1, <2>4, <3>2, <3>3
            DEF Info, Jump, Same, Go, ImageInv, InHand, Ended, Live, Things, WithTex, WithMem, WithClut,
                Png, Bmp, Palettes, PngKinds, BmpKinds
  <2> QED BY <2>3, <2>4
<1>4. CASE Unsupported
  <2> DEFINE ts == {"tex"} \union PngFrame
  <2>1. step = "size" /\ ~loaded /\ ~slip BY <1>4 DEF Unsupported, ImageInv
  <2>2. ts \in SUBSET Things /\ \A t \in Things \ ts : ptr[t] = "null"
    BY <2>1 DEF ImageInv, InHand, Live, Things, PngFrame, WithTex, WithMem, WithClut, Png, Bmp, Palettes
  <2>3. ASSUME GiveUp(ts) PROVE ImageInv' BY <2>1, <2>2, <2>3, GiveUpStep
  <2> QED BY <1>4, <2>3 DEF Unsupported
<1>5. CASE PngMem
  <2> DEFINE ts == {"rows", "mem", "clut", "tex"} \union PngFrame
  <2>1. step = "size" /\ ~loaded /\ ~slip BY <1>5 DEF PngMem, ImageInv
  <2>2. ts \in SUBSET Things /\ \A t \in Things \ ts : ptr[t] = "null"
    BY <2>1 DEF ImageInv, InHand, Live, Things, PngFrame, WithTex, WithMem, WithClut, Png, Bmp, Palettes
  <2>3. ASSUME GiveUp(ts) PROVE ImageInv' BY <2>1, <2>2, <2>3, GiveUpStep
  <2>4. ASSUME ~GiveUp(ts) PROVE ImageInv'
    <3>1. "mem" \in Things /\ Have("mem") BY <1>5, <2>4 DEF PngMem, Jump, Things
    <3>2. /\ ptr' = [t \in Things |-> ptr'[t]]
          /\ ptr'["mem"] = "live" /\ \A t \in Things \ {"mem"} : ptr'[t] = ptr[t]
      BY <3>1, GetDoes
    <3>3. UNCHANGED <<delayed, loaded, slip>> BY <1>5, <2>4 DEF PngMem, Jump, Same
    <3> QED BY <1>5, <2>1, <2>4, <3>2, <3>3
            DEF PngMem, Jump, Same, Go, ImageInv, InHand, Ended, Live, Things, WithTex, WithMem, WithClut,
                Png, Bmp, Palettes, PngKinds, BmpKinds
  <2> QED BY <2>3, <2>4
<1>6. CASE Rows
  <2> DEFINE ts == {"rows", "mem", "clut", "tex"} \union PngFrame
  <2>1. step = "rows" /\ ~loaded /\ ~slip BY <1>6 DEF Rows, ImageInv
  <2>2. ts \in SUBSET Things /\ \A t \in Things \ ts : ptr[t] = "null"
    BY <2>1 DEF ImageInv, InHand, Live, Things, PngFrame, WithTex, WithMem, WithClut, Png, Bmp, Palettes
  <2>3. ASSUME GiveUp(ts) PROVE ImageInv' BY <2>1, <2>2, <2>3, GiveUpStep
  <2>4. ASSUME ~GiveUp(ts) PROVE ImageInv'
    <3>1. "rows" \in Things /\ Have("rows") BY <1>6, <2>4 DEF Rows, Jump, Things
    <3>2. /\ ptr' = [t \in Things |-> ptr'[t]]
          /\ ptr'["rows"] = "live" /\ \A t \in Things \ {"rows"} : ptr'[t] = ptr[t]
      BY <3>1, GetDoes
    <3>3. UNCHANGED <<delayed, loaded, slip>> BY <1>6, <2>4 DEF Rows, Jump, Same
    <3> QED BY <1>6, <2>1, <2>4, <3>2, <3>3
            DEF Rows, Jump, Same, Go, ImageInv, InHand, Ended, Live, Things, WithTex, WithMem, WithClut,
                Png, Bmp, Palettes, PngKinds, BmpKinds
  <2> QED BY <2>3, <2>4
<1>7. CASE Pixels
  <2> DEFINE ts == {"rows", "mem", "clut", "tex"} \union PngFrame
  <2>1. step = "pixels" /\ ~loaded /\ ~slip BY <1>7 DEF Pixels, ImageInv
  <2>2. ts \in SUBSET Things /\ \A t \in Things \ ts : ptr[t] = "null"
    BY <2>1 DEF ImageInv, InHand, Live, Things, PngFrame, WithTex, WithMem, WithClut, Png, Bmp, Palettes
  <2>3. ASSUME GiveUp(ts) PROVE ImageInv' BY <2>1, <2>2, <2>3, GiveUpStep
  <2>4. ASSUME ~GiveUp(ts) PROVE ImageInv'
    <3>2. UNCHANGED ptr BY <1>7, <2>4 DEF Pixels, Jump
    <3>3. UNCHANGED <<delayed, loaded, slip>> BY <1>7, <2>4 DEF Pixels, Jump, Same
    <3> QED BY <1>7, <2>1, <2>4, <3>2, <3>3
            DEF Pixels, Jump, Same, Go, ImageInv, InHand, Ended, Live, Things, WithTex, WithMem, WithClut,
                Png, Bmp, Palettes, PngKinds, BmpKinds
  <2> QED BY <2>3, <2>4
<1>8. CASE Palette
  <2> DEFINE ts == {"rows", "mem", "clut", "tex"} \union PngFrame
  <2>1. step = "palette" /\ ~loaded /\ ~slip BY <1>8 DEF Palette, ImageInv
  <2>2. ts \in SUBSET Things /\ \A t \in Things \ ts : ptr[t] = "null"
    BY <2>1 DEF ImageInv, InHand, Live, Things, PngFrame, WithTex, WithMem, WithClut, Png, Bmp, Palettes
  <2>3. ASSUME GiveUp(ts) PROVE ImageInv' BY <2>1, <2>2, <2>3, GiveUpStep
  <2>4. ASSUME ~GiveUp(ts) PROVE ImageInv'
    <3>1. "clut" \in Things /\ Have("clut") BY <1>8, <2>4 DEF Palette, Jump, Things
    <3>2. /\ ptr' = [t \in Things |-> ptr'[t]]
          /\ ptr'["clut"] = "live" /\ \A t \in Things \ {"clut"} : ptr'[t] = ptr[t]
      BY <3>1, GetDoes
    <3>3. UNCHANGED <<delayed, loaded, slip>> BY <1>8, <2>4 DEF Palette, Jump, Same
    <3> QED BY <1>8, <2>1, <2>4, <3>2, <3>3
            DEF Palette, Jump, Same, Go, ImageInv, InHand, Ended, Live, Things, WithTex, WithMem, WithClut,
                Png, Bmp, Palettes, PngKinds, BmpKinds
  <2> QED BY <2>3, <2>4
<1>9. CASE PngEnd
  <2> DEFINE ts == {"rows", "mem", "clut", "tex"} \union PngFrame
  <2>1. step = "end" /\ ~loaded /\ ~slip BY <1>9 DEF PngEnd, ImageInv
  <2>2. ts \in SUBSET Things /\ \A t \in Things \ ts : ptr[t] = "null"
    BY <2>1 DEF ImageInv, InHand, Live, Things, PngFrame, WithTex, WithMem, WithClut, Png, Bmp, Palettes
  <2>3. ASSUME GiveUp(ts) PROVE ImageInv' BY <2>1, <2>2, <2>3, GiveUpStep
  <2>4. ASSUME ~GiveUp(ts) PROVE ImageInv'
    <3>2. UNCHANGED ptr BY <1>9, <2>4 DEF PngEnd, Jump
    <3>3. UNCHANGED <<delayed, loaded, slip>> BY <1>9, <2>4 DEF PngEnd, Jump, Same
    <3> QED BY <1>9, <2>1, <2>4, <3>2, <3>3
            DEF PngEnd, Jump, Same, Go, ImageInv, InHand, Ended, Live, Things, WithTex, WithMem, WithClut,
                Png, Bmp, Palettes, PngKinds, BmpKinds
  <2> QED BY <2>3, <2>4
<1> QED BY <1>1, <1>2, <1>3, <1>4, <1>5, <1>6, <1>7, <1>8, <1>9

\* The BMP decoder.
LEMMA BmpStep ==
  ASSUME ImageInv, BmpTex \/ Headers \/ BmpClut \/ BmpPalette \/ BmpMem \/ BmpImage \/ BmpPixels
  PROVE  ImageInv'
<1>1. CASE BmpTex
  <2> DEFINE ts == {"file"}
  <2>1. step = "bmp" /\ ~loaded /\ ~slip BY <1>1 DEF BmpTex, ImageInv
  <2>2. ts \in SUBSET Things /\ \A t \in Things \ ts : ptr[t] = "null"
    BY <2>1 DEF ImageInv, InHand, Live, Things, PngFrame, WithTex, WithMem, WithClut, Png, Bmp, Palettes
  <2>3. ASSUME GiveUp(ts) PROVE ImageInv' BY <2>1, <2>2, <2>3, GiveUpStep
  <2>4. ASSUME ~GiveUp(ts) PROVE ImageInv'
    <3>1. "tex" \in Things /\ Have("tex") BY <1>1, <2>4 DEF BmpTex, Things
    <3>2. /\ ptr' = [t \in Things |-> ptr'[t]]
          /\ ptr'["tex"] = "live" /\ \A t \in Things \ {"tex"} : ptr'[t] = ptr[t]
      BY <3>1, GetDoes
    <3>3. UNCHANGED <<delayed, loaded, slip>> BY <1>1, <2>4 DEF BmpTex, Same
    <3> QED BY <1>1, <2>1, <2>4, <3>2, <3>3
            DEF BmpTex, Same, Go, ImageInv, InHand, Ended, Live, Things, WithTex, WithMem, WithClut,
                Png, Bmp, Palettes, PngKinds, BmpKinds
  <2> QED BY <2>3, <2>4
<1>2. CASE Headers
  <2> DEFINE ts == {"tex", "file"}
  <2>1. step = "headers" /\ ~loaded /\ ~slip BY <1>2 DEF Headers, ImageInv
  <2>2. ts \in SUBSET Things /\ \A t \in Things \ ts : ptr[t] = "null"
    BY <2>1 DEF ImageInv, InHand, Live, Things, PngFrame, WithTex, WithMem, WithClut, Png, Bmp, Palettes
  <2>3. ASSUME GiveUp(ts) PROVE ImageInv' BY <2>1, <2>2, <2>3, GiveUpStep
  <2>4. ASSUME ~GiveUp(ts) PROVE ImageInv'
    <3>2. UNCHANGED ptr BY <1>2, <2>4 DEF Headers
    <3>3. UNCHANGED <<delayed, loaded, slip>> BY <1>2, <2>4 DEF Headers, Same
    <3> QED BY <1>2, <2>1, <2>4, <3>2, <3>3
            DEF Headers, Same, Go, ImageInv, InHand, Ended, Live, Things, WithTex, WithMem, WithClut,
                Png, Bmp, Palettes, PngKinds, BmpKinds
  <2> QED BY <2>3, <2>4
<1>3. CASE BmpClut
  <2> DEFINE ts == {"tex", "file"}
  <2>1. step = "bmpClut" /\ ~loaded /\ ~slip BY <1>3 DEF BmpClut, ImageInv
  <2>2. ts \in SUBSET Things /\ \A t \in Things \ ts : ptr[t] = "null"
    BY <2>1 DEF ImageInv, InHand, Live, Things, PngFrame, WithTex, WithMem, WithClut, Png, Bmp, Palettes
  <2>3. ASSUME GiveUp(ts) PROVE ImageInv' BY <2>1, <2>2, <2>3, GiveUpStep
  <2>4. ASSUME ~GiveUp(ts) PROVE ImageInv'
    <3>1. "clut" \in Things /\ Have("clut") BY <1>3, <2>4 DEF BmpClut, Things
    <3>2. /\ ptr' = [t \in Things |-> ptr'[t]]
          /\ ptr'["clut"] = "live" /\ \A t \in Things \ {"clut"} : ptr'[t] = ptr[t]
      BY <3>1, GetDoes
    <3>3. UNCHANGED <<delayed, loaded, slip>> BY <1>3, <2>4 DEF BmpClut, Same
    <3> QED BY <1>3, <2>1, <2>4, <3>2, <3>3
            DEF BmpClut, Same, Go, ImageInv, InHand, Ended, Live, Things, WithTex, WithMem, WithClut,
                Png, Bmp, Palettes, PngKinds, BmpKinds
  <2> QED BY <2>3, <2>4
<1>4. CASE BmpPalette
  <2> DEFINE ts == {"clut", "tex", "file"}
  <2>1. step = "bmpPalette" /\ ~loaded /\ ~slip BY <1>4 DEF BmpPalette, ImageInv
  <2>2. ts \in SUBSET Things /\ \A t \in Things \ ts : ptr[t] = "null"
    BY <2>1 DEF ImageInv, InHand, Live, Things, PngFrame, WithTex, WithMem, WithClut, Png, Bmp, Palettes
  <2>3. ASSUME GiveUp(ts) PROVE ImageInv' BY <2>1, <2>2, <2>3, GiveUpStep
  <2>4. ASSUME ~GiveUp(ts) PROVE ImageInv'
    <3>2. UNCHANGED ptr BY <1>4, <2>4 DEF BmpPalette
    <3>3. UNCHANGED <<delayed, loaded, slip>> BY <1>4, <2>4 DEF BmpPalette, Same
    <3> QED BY <1>4, <2>1, <2>4, <3>2, <3>3
            DEF BmpPalette, Same, Go, ImageInv, InHand, Ended, Live, Things, WithTex, WithMem, WithClut,
                Png, Bmp, Palettes, PngKinds, BmpKinds
  <2> QED BY <2>3, <2>4
<1>5. CASE BmpMem
  <2> DEFINE ts == {"clut", "tex", "file"}
  <2>1. step = "bmpSize" /\ ~loaded /\ ~slip BY <1>5 DEF BmpMem, ImageInv
  <2>2. ts \in SUBSET Things /\ \A t \in Things \ ts : ptr[t] = "null"
    BY <2>1 DEF ImageInv, InHand, Live, Things, PngFrame, WithTex, WithMem, WithClut, Png, Bmp, Palettes
  <2>3. ASSUME GiveUp(ts) PROVE ImageInv' BY <2>1, <2>2, <2>3, GiveUpStep
  <2>4. ASSUME ~GiveUp(ts) PROVE ImageInv'
    <3>1. "mem" \in Things /\ Have("mem") BY <1>5, <2>4 DEF BmpMem, Things
    <3>2. /\ ptr' = [t \in Things |-> ptr'[t]]
          /\ ptr'["mem"] = "live" /\ \A t \in Things \ {"mem"} : ptr'[t] = ptr[t]
      BY <3>1, GetDoes
    <3>3. UNCHANGED <<delayed, loaded, slip>> BY <1>5, <2>4 DEF BmpMem, Same
    <3> QED BY <1>5, <2>1, <2>4, <3>2, <3>3
            DEF BmpMem, Same, Go, ImageInv, InHand, Ended, Live, Things, WithTex, WithMem, WithClut,
                Png, Bmp, Palettes, PngKinds, BmpKinds
  <2> QED BY <2>3, <2>4
<1>6. CASE BmpImage
  <2> DEFINE ts == {"mem", "clut", "tex", "file"}
  <2>1. step = "bmpImage" /\ ~loaded /\ ~slip BY <1>6 DEF BmpImage, ImageInv
  <2>2. ts \in SUBSET Things /\ \A t \in Things \ ts : ptr[t] = "null"
    BY <2>1 DEF ImageInv, InHand, Live, Things, PngFrame, WithTex, WithMem, WithClut, Png, Bmp, Palettes
  <2>3. ASSUME GiveUp(ts) PROVE ImageInv' BY <2>1, <2>2, <2>3, GiveUpStep
  <2>4. ASSUME ~GiveUp(ts) PROVE ImageInv'
    <3>1. "image" \in Things /\ Have("image") BY <1>6, <2>4 DEF BmpImage, Things
    <3>2. /\ ptr' = [t \in Things |-> ptr'[t]]
          /\ ptr'["image"] = "live" /\ \A t \in Things \ {"image"} : ptr'[t] = ptr[t]
      BY <3>1, GetDoes
    <3>3. UNCHANGED <<delayed, loaded, slip>> BY <1>6, <2>4 DEF BmpImage, Same
    <3> QED BY <1>6, <2>1, <2>4, <3>2, <3>3
            DEF BmpImage, Same, Go, ImageInv, InHand, Ended, Live, Things, WithTex, WithMem, WithClut,
                Png, Bmp, Palettes, PngKinds, BmpKinds
  <2> QED BY <2>3, <2>4
<1>7. CASE BmpPixels
  <2> DEFINE ts == {"image", "mem", "clut", "tex", "file"}
  <2>1. step = "bmpPixels" /\ ~loaded /\ ~slip BY <1>7 DEF BmpPixels, ImageInv
  <2>2. ts \in SUBSET Things /\ \A t \in Things \ ts : ptr[t] = "null"
    BY <2>1 DEF ImageInv, InHand, Live, Things, PngFrame, WithTex, WithMem, WithClut, Png, Bmp, Palettes
  <2>3. ASSUME GiveUp(ts) PROVE ImageInv' BY <2>1, <2>2, <2>3, GiveUpStep
  <2>4. ASSUME ~GiveUp(ts) PROVE ImageInv'
    <3>1. Free({"image", "file"}, "null") /\ step' = "upload" /\ UNCHANGED <<kind, delayed, loaded>>
      BY <1>7, <2>4 DEF BmpPixels, Go
    <3>2. \A t \in Things : ptr[t] # "freed" BY <2>1, NoneFreed
    <3>3. \A t \in {"image", "file"} : ptr[t] # "freed" BY <3>2 DEF Things
    <3>4. /\ ptr' = [t \in Things |-> ptr'[t]] /\ ~slip'
          /\ \A t \in Things : ptr'[t] =
               IF t \in {"image", "file"} /\ ptr[t] = "live" THEN "null" ELSE ptr[t]
      BY <2>1, <3>1, <3>3, FreeDoes
    <3> QED BY <2>1, <3>1, <3>4
            DEF ImageInv, InHand, Ended, Live, Things, WithTex, WithMem, WithClut, Png, Bmp, Palettes
  <2> QED BY <2>3, <2>4
<1> QED BY <1>1, <1>2, <1>3, <1>4, <1>5, <1>6, <1>7

\* The choice of the decoder and the upload.
LEMMA EndsStep ==
  ASSUME ImageInv, Magic \/ Upload
  PROVE  ImageInv'
<1>1. CASE Magic
  <2> DEFINE ts == {"file"}
  <2>1. step = "opened" /\ ~loaded /\ ~slip BY <1>1 DEF Magic, ImageInv
  <2>2. ts \in SUBSET Things /\ \A t \in Things \ ts : ptr[t] = "null"
    BY <2>1 DEF ImageInv, InHand, Live, Things, PngFrame, WithTex, WithMem, WithClut, Png, Bmp, Palettes
  <2>3. ASSUME GiveUp(ts) PROVE ImageInv' BY <2>1, <2>2, <2>3, GiveUpStep
  <2>4. ASSUME ~GiveUp(ts) PROVE ImageInv'
    <3>2. UNCHANGED ptr BY <1>1, <2>4 DEF Magic
    <3>3. UNCHANGED <<delayed, loaded, slip>> BY <1>1, <2>4 DEF Magic, Same
    <3> QED BY <1>1, <2>1, <2>4, <3>2, <3>3
            DEF Magic, Same, Go, ImageInv, InHand, Ended, Live, Things, WithTex, WithMem, WithClut,
                Png, Bmp, Palettes, PngKinds, BmpKinds
  <2> QED BY <2>3, <2>4
<1>2. CASE Upload
  <2> DEFINE ts == {"mem", "clut", "tex"} \union PngFrame
  <2>1. step = "upload" /\ ~loaded /\ ~slip BY <1>2 DEF Upload, ImageInv
  <2>2. ts \in SUBSET Things /\ \A t \in Things \ ts : ptr[t] = "null"
    BY <2>1 DEF ImageInv, InHand, Live, Things, PngFrame, WithTex, WithMem, WithClut, Png, Bmp, Palettes
  <2>3. ASSUME GiveUp(ts) PROVE ImageInv' BY <2>1, <2>2, <2>3, GiveUpStep
  <2>4. ASSUME ~GiveUp(ts) PROVE ImageInv'
    <3> DEFINE gone == PngFrame \union (IF delayed THEN {} ELSE {"mem", "clut"})
    <3>1. Free(gone, "null") /\ loaded' = TRUE /\ step' = "done" /\ UNCHANGED <<kind, delayed>>
      BY <1>2, <2>4 DEF Upload, Go
    <3>2. \A t \in Things : ptr[t] \in {"live", "null"} BY <2>1, NoneFreed
    <3>3. \A t \in gone : ptr[t] # "freed" BY <3>2 DEF Things, PngFrame
    <3>4. /\ ptr' = [t \in Things |-> ptr'[t]] /\ ~slip'
          /\ \A t \in Things : ptr'[t] = IF t \in gone /\ ptr[t] = "live" THEN "null" ELSE ptr[t]
      BY <2>1, <3>1, <3>3, FreeDoes
    <3>5. loaded' BY <3>1
    <3>6. Ended'
      <4> SUFFICES ASSUME NEW t \in Things
                   PROVE ptr'[t] = IF t = "tex" \/ (t = "mem" /\ delayed)
                                      \/ (t = "clut" /\ delayed /\ kind \in Palettes)
                                   THEN "live" ELSE "null"
        BY <3>1, <3>5 DEF Ended
      <4>1. /\ ptr["tex"] = "live" /\ ptr["mem"] = "live" /\ ptr["rows"] = "null" /\ ptr["image"] = "null"
            /\ ptr["clut"] = IF kind \in Palettes THEN "live" ELSE "null"
        BY <2>1 DEF ImageInv, InHand, Live, WithTex, WithMem, WithClut
      <4>2. ptr["png"] \in {"live", "null"} /\ ptr["file"] \in {"live", "null"}
        BY <3>2 DEF Things
      <4> QED BY <3>4, <4>1, <4>2 DEF Things, PngFrame
    <3> QED BY <3>1, <3>4, <3>5, <3>6 DEF ImageInv, InHand
  <2> QED BY <2>3, <2>4
<1> QED BY <1>1, <1>2

LEMMA RowsFreedStep ==
  ASSUME ImageInv, RowsFreed
  PROVE  ImageInv'
<1>1. step = "copied" /\ ~slip /\ ~loaded BY DEF RowsFreed, ImageInv
<1>2. Free({"rows"}, "null") /\ step' = "end" /\ UNCHANGED <<kind, delayed, loaded>> BY DEF RowsFreed, Go
<1>3. ptr["rows"] = "live" BY <1>1 DEF ImageInv, InHand, Live
<1>4. /\ ptr' = [t \in Things |-> ptr'[t]] /\ ~slip'
      /\ \A t \in Things : ptr'[t] = IF t \in {"rows"} /\ ptr[t] = "live" THEN "null" ELSE ptr[t]
  BY <1>1, <1>2, <1>3, FreeDoes
<1> QED BY <1>1, <1>2, <1>3, <1>4
        DEF ImageInv, InHand, Ended, Live, Things, WithTex, WithMem, WithClut, Png, Bmp, Palettes

LEMMA LoadImageStep ==
  ASSUME ImageInv, LoadImage \/ NotOpened
  PROVE  ImageInv'
<1>1. step = "none" /\ ~loaded /\ ~slip BY DEF LoadImage, NotOpened, ImageInv
<1>2. \A t \in Things : ptr[t] = "null"
  BY <1>1 DEF ImageInv, InHand, Live, Things, WithTex, WithMem, WithClut, Png, Bmp, Palettes
<1>3. CASE NotOpened
  <2>1. {} \in SUBSET Things OBVIOUS
  <2> QED BY <1>1, <1>2, <1>3, <2>1, GiveUpStep DEF NotOpened
<1>4. CASE LoadImage
  <2>1. UNCHANGED <<kind, loaded, slip>> BY <1>4 DEF LoadImage
  <2>2. CASE step' = "png" /\ UNCHANGED ptr
    BY <1>1, <1>2, <2>1, <2>2
       DEF ImageInv, InHand, Ended, Live, Things, WithTex, WithMem, WithClut, Png, Bmp, Palettes
  <2>3. CASE step' = "opened" /\ Have("file")
    <3>1. "file" \in Things BY DEF Things
    <3>2. /\ ptr' = [t \in Things |-> ptr'[t]]
          /\ ptr'["file"] = "live" /\ \A t \in Things \ {"file"} : ptr'[t] = ptr[t]
      BY <2>3, <3>1, GetDoes
    <3> QED BY <1>1, <1>2, <2>1, <2>3, <3>2
         DEF ImageInv, InHand, Ended, Live, Things, WithTex, WithMem, WithClut, Png, Bmp, Palettes
  <2> QED BY <1>4, <2>2, <2>3 DEF LoadImage, Go
<1> QED BY <1>3, <1>4

LEMMA FreeImageStep ==
  ASSUME ImageInv, FreeImage
  PROVE  ImageInv'
<1>1. step = "done" /\ step' = "none" /\ kind' = "pngOther" /\ UNCHANGED slip BY DEF FreeImage, Go
<1>2. loaded' = FALSE BY DEF FreeImage
<1>3. ~loaded' BY <1>2
<1>4. ptr' = [t \in Things |-> ptr'[t]] /\ \A t \in Things : ptr'[t] = "null"
  <2>1. CASE loaded
    <3>1. ptr' = [t \in Things |-> IF t \in {"mem", "clut", "tex"} THEN "null" ELSE ptr[t]]
      BY <2>1 DEF FreeImage
    <3>2. \A t \in Things : ptr[t] =
            IF t = "tex" \/ (t = "mem" /\ delayed) \/ (t = "clut" /\ delayed /\ kind \in Palettes)
            THEN "live" ELSE "null"
      BY <1>1, <2>1 DEF ImageInv, Ended
    <3>3. \A t \in Things : ptr'[t] = "null" BY <3>1, <3>2
    <3> QED BY <3>1, <3>3
  <2>2. CASE ~loaded
    <3>1. ptr' = [t \in Things |-> IF ptr[t] = "freed" THEN "null" ELSE ptr[t]]
      BY <2>2 DEF FreeImage
    <3> QED BY <1>1, <2>2, <3>1 DEF ImageInv, Ended
  <2> QED BY <2>1, <2>2
<1>5. slip' <=> slip BY <1>1
<1> QED BY <1>1, <1>3, <1>4, <1>5
        DEF ImageInv, InHand, Ended, Live, Things, WithTex, WithMem, WithClut, Png, Bmp, Palettes

LEMMA ImageSame ==
  ASSUME ImageInv, UNCHANGED imageVars
  PROVE  ImageInv'
BY DEF imageVars, ImageInv, InHand, Ended, Live

-----------------------------------------------------------------------------
(* The screen: after FadeFrames flips of a fade the buffer shown is black,  *)
(* after one more both are.                                                 *)

ScreenTypeOK ==
    /\ at \in {"off", "exec", "wait", "drain", "swap", "menu", "fade", "start", "program", "gone"}
    /\ job \in {"boot", "frame", "fade"} /\ flips \in Nat
    /\ at = "fade" => job = "fade"
    /\ at = "off" => job = "boot"

Darkening ==
    job = "fade" =>
      /\ at \in {"fade", "exec"} /\ flips >= FadeFrames => shown = "black"
      /\ at \in {"fade", "exec"} /\ flips > FadeFrames => Dark
      /\ at = "exec" => drawn = IF flips + 1 < FadeFrames THEN "dim" ELSE "black"
      /\ at \in {"wait", "drain", "swap"} /\ flips + 1 >= FadeFrames => hidden = "black"
      /\ at \in {"wait", "drain", "swap"} /\ flips >= FadeFrames => Dark

DarkWhenItMatters == at = "start" \/ (at = "program" /\ after # mode) => Dark

ScreenInv == ScreenTypeOK /\ Darkening /\ DarkWhenItMatters /\ BlackBeforeReset

LEMMA ScreenStart == ScreenInit => ScreenInv
BY DEF ScreenInit, ScreenInv, ScreenTypeOK, Darkening, DarkWhenItMatters, BlackBeforeReset

LEMMA ScreenStep ==
  ASSUME ScreenInv, ScreenOp \/ VBlank
  PROVE  ScreenInv'
<1> USE ScreenAssumption
    DEF ScreenAssumption, ScreenInv, ScreenTypeOK, Darkening, DarkWhenItMatters, BlackBeforeReset,
        Dark, Buffers, Fade
<1>1. CASE InitGraphics BY <1>1 DEF InitGraphics
<1>2. CASE DrawFrame BY <1>2 DEF DrawFrame
<1>3. CASE StartProgram BY <1>3 DEF StartProgram
<1>4. CASE SetVideoMode BY <1>4 DEF SetVideoMode
<1>5. CASE FadeFrame BY <1>5 DEF FadeFrame
<1>6. CASE WaitSema BY <1>6 DEF WaitSema
<1>7. CASE Drain BY <1>7 DEF Drain
<1>8. CASE Swap
  <2>1. CASE flips + 1 < Flips /\ flips' = flips + 1 /\ job' = job
    BY <1>8, <2>1 DEF Swap, Flips
  <2>2. CASE flips + 1 = Flips /\ flips' = 0 /\ job' = "frame"
    BY <1>8, <2>2 DEF Swap, Flips
  <2> QED BY <1>8, <2>1, <2>2 DEF Swap
<1>9. CASE ProgramMode
  <2>1. glared' = (glared \/ (after # mode /\ ~Dark)) BY <1>9 DEF ProgramMode
  <2>2. ~glared' BY <1>9, <2>1 DEF ProgramMode
  <2> QED BY <1>9, <2>2 DEF ProgramMode
<1>10. CASE Started
  <2>1. glared' = (glared \/ ~Dark) BY <1>10 DEF Started
  <2>2. ~glared' BY <1>10, <2>1 DEF Started
  <2> QED BY <1>10, <2>2 DEF Started
<1>11. CASE QueueExec BY <1>11 DEF QueueExec, Over
<1>12. CASE VBlank BY <1>12 DEF VBlank
<1> QED BY <1>1, <1>2, <1>3, <1>4, <1>5, <1>6, <1>7, <1>8, <1>9, <1>10, <1>11, <1>12 DEF ScreenOp

LEMMA ScreenSame ==
  ASSUME ScreenInv, UNCHANGED screenVars
  PROVE  ScreenInv'
BY DEF screenVars, ScreenInv, ScreenTypeOK, Darkening, DarkWhenItMatters, BlackBeforeReset, Dark

-----------------------------------------------------------------------------
(* All three together.                                                     *)

IInv == FontInv /\ ImageInv /\ ScreenInv

LEMMA InitIInv == Init => IInv
BY FontStart, ImageStart, ScreenStart DEF Init, IInv

LEMMA DecodeStepKeeps ==
  ASSUME ImageInv, Decode
  PROVE  ImageInv'
BY PngStep, BmpStep, EndsStep, RowsFreedStep DEF Decode

LEMMA NextIInv == IInv /\ [Next]_vars => IInv'
<1> SUFFICES ASSUME IInv, [Next]_vars PROVE IInv' OBVIOUS
<1>0. FontInv /\ ImageInv /\ ScreenInv BY DEF IInv
<1>1. CASE FontCall BY <1>0, <1>1, FontStep, ImageSame, ScreenSame DEF FontCall, IInv
<1>2. CASE BeginLoad BY <1>0, <1>2, FontSame, LoadImageStep, ScreenSame DEF BeginLoad, IInv
<1>3. CASE DecodeStep BY <1>0, <1>3, FontSame, DecodeStepKeeps, ScreenSame DEF DecodeStep, IInv
<1>4. CASE GiveBack BY <1>0, <1>4, FontSame, FreeImageStep, ScreenSame DEF GiveBack, IInv
<1>6. CASE ScreenCall BY <1>0, <1>6, FontSame, ImageSame, ScreenStep DEF ScreenCall, IInv
<1>7. CASE Interrupt BY <1>0, <1>7, FontSame, ImageSame, ScreenStep DEF Interrupt, IInv
<1>8. CASE UNCHANGED vars BY <1>0, <1>8, FontSame, ImageSame, ScreenSame DEF vars, IInv
<1> QED BY <1>1, <1>2, <1>3, <1>4, <1>6, <1>7, <1>8 DEF Next

LEMMA Invariance == Spec => []IInv
<1> QED BY InitIInv, NextIInv, PTL DEF Spec

\* atlasPlace gives no pixel to two glyphs, and none outside the surface, whatever the
\* shapes of the glyphs and the side of the surface.
THEOREM GlyphsShareNothing == Spec => []GlyphsKeepApart
<1>1. IInv => GlyphsKeepApart
  BY DEF IInv, FontInv, AllSound, Sound, GlyphsKeepApart
<1> QED BY <1>1, Invariance, PTL

\* The entry of a glyph names the pixels of that glyph at the size the face draws at:
\* fntCacheFlush leaves no page behind, and no placing disturbs another glyph.
THEOREM CachesAreTheirs == Spec => []CachedGlyphsAreTheirs
<1>1. IInv => CachedGlyphsAreTheirs
  BY DEF IInv, FontInv, FontTypeOK, CacheHolds, Held, CachedGlyphsAreTheirs
<1> QED BY <1>1, Invariance, PTL

\* load_image frees nothing twice and keeps nothing but what it returns, whichever call of
\* libpng jumps and whichever read or allocation of the BMP decoder fails.
THEOREM ImagesAreClean == Spec => []LoadsAreClean
<1>1. IInv => LoadsAreClean
  <2> SUFFICES ASSUME IInv PROVE LoadsAreClean OBVIOUS
  <2>1. ~slip BY DEF IInv, ImageInv
  <2>2. ASSUME step = "none" \/ (step = "done" /\ ~loaded)
        PROVE  ~loaded /\ {t \in Things : ptr[t] = "live"} = {}
    <3>1. ~loaded BY <2>2 DEF IInv, ImageInv
    <3>2. \A t \in Things : ptr[t] # "live"
      BY <2>2 DEF IInv, ImageInv, InHand, Ended, Live, Things, WithTex, WithMem, WithClut, Png, Bmp,
                  Palettes
    <3> QED BY <3>1, <3>2
  <2>3. ASSUME step = "done", loaded
        PROVE  {t \in Things : ptr[t] = "live"} =
                 {"tex"} \union IF ~delayed THEN {}
                                ELSE IF kind \in Palettes THEN {"mem", "clut"} ELSE {"mem"}
    <3>1. \A t \in Things : ptr[t] =
            IF t = "tex" \/ (t = "mem" /\ delayed) \/ (t = "clut" /\ delayed /\ kind \in Palettes)
            THEN "live" ELSE "null"
      BY <2>3 DEF IInv, ImageInv, Ended
    <3> QED BY <3>1 DEF Things
  <2> QED BY <2>1, <2>2, <2>3 DEF LoadsAreClean
<1> QED BY <1>1, Invariance, PTL

\* setVideoMode programs the GS anew, and lua_loadELF starts a program, with both buffers
\* black, however many frames the fade has.
THEOREM ResetsAreBlack == Spec => []BlackBeforeReset
<1>1. IInv => BlackBeforeReset BY DEF IInv, ScreenInv
<1> QED BY <1>1, Invariance, PTL

-----------------------------------------------------------------------------
(* A flip ends.                                                            *)

Flipping == {"exec", "wait", "drain", "swap", "fade"}

(* What is to be done for the flip the main thread is at.                   *)
StepsLeft ==
  CASE at = "fade" -> 5 [] at = "exec" -> 4 [] at = "wait" -> 3 [] at = "drain" -> 2 [] at = "swap" -> 1 [] OTHER -> 0

(* A job has a flip to come, and the interrupt whose signal it waits for is *)
(* installed.                                                               *)
FlipInv ==
  /\ at = "off" => flips = 0
  /\ at # "off" => hooked
  /\ at \in Flipping => flips < Flips

\* flipScreen, fadeScreenToBlack and the boot's two frames: a step of the main thread ends a flip
\* of the job or brings it nearer to its end; a vertical blank undoes nothing of it.
FlipCounts ==
  at \in Flipping /\ at' \in Flipping =>
    IF VBlank THEN UNCHANGED <<job, flips, StepsLeft>>
    ELSE job' = job /\ (flips < flips' \/ (flips' = flips /\ StepsLeft' < StepsLeft))

LEMMA FlipStep ==
  ASSUME ScreenInv, FlipInv, ScreenOp \/ VBlank
  PROVE  FlipInv' /\ FlipCounts
<1>0. /\ FadeFrames \in Nat \ {0} /\ flips \in Nat /\ job \in {"boot", "frame", "fade"}
      /\ at = "fade" => job = "fade"
      /\ at = "off" => job = "boot"
  BY ScreenAssumption DEF ScreenAssumption, ScreenInv, ScreenTypeOK
<1> USE DEF FlipInv, FlipCounts, Flipping, StepsLeft, Buffers
<1>1. CASE VBlank
  BY <1>0, <1>1 DEF VBlank, Flips
<1>2. CASE ScreenOp
  <2>0. CASE VBlank BY <1>1, <2>0
  <2>1. CASE InitGraphics BY <1>0, <2>1 DEF InitGraphics, Flips
  <2>2. CASE DrawFrame BY <1>0, <2>2 DEF DrawFrame, Flips
  <2>3. CASE StartProgram BY <1>0, <2>3 DEF StartProgram, Fade, Flips
  <2>4. CASE SetVideoMode BY <1>0, <2>4 DEF SetVideoMode, Fade, Flips
  <2>5. CASE FadeFrame /\ ~ VBlank BY <1>0, <2>5 DEF FadeFrame, Flips
  <2>6. CASE WaitSema /\ ~ VBlank BY <1>0, <2>6 DEF WaitSema, Flips
  <2>7. CASE Drain /\ ~ VBlank BY <1>0, <2>7 DEF Drain, Flips
  <2>8. CASE Swap /\ ~ VBlank
    <3>1. CASE flips + 1 < Flips /\ flips' = flips + 1 /\ job' = job
      <4>1. at \in Flipping /\ hooked' = hooked /\ at' \in {"exec", "fade"} BY <2>8, <3>1 DEF Swap
      <4>2. Flips' = Flips /\ flips' < Flips /\ flips < flips' BY <1>0, <3>1 DEF Flips
      <4> QED BY <2>8, <3>1, <4>1, <4>2
    <3>2. CASE at' \in {"menu", "start", "program"}
      <4>1. at' \notin Flipping \union {"off"} /\ hooked' = hooked /\ at \in Flipping BY <2>8, <3>2 DEF Swap
      <4> QED BY <4>1
    <3> QED BY <2>8, <3>1, <3>2 DEF Swap
  <2>9. CASE ProgramMode \/ Started BY <1>0, <2>9 DEF ProgramMode, Started
  <2>10. CASE QueueExec /\ ~ VBlank BY <1>0, <2>10 DEF QueueExec, Flips
  <2> QED BY <1>2, <2>0, <2>1, <2>2, <2>3, <2>4, <2>5, <2>6, <2>7, <2>8, <2>9, <2>10 DEF ScreenOp
<1> QED BY <1>1, <1>2

\* The vertical blank that a flip waits for is never off, and a fade, a frame and the boot's
\* black frames have so many flips, of so many steps: the main thread comes back to the menu,
\* for a fade of any length (graphics.cpp, flipScreen and fadeScreenToBlack).
THEOREM FlipsRunOut == Spec => []FlipInv /\ [][FlipCounts]_screenVars
<1>1. Init => FlipInv BY DEF Init, ScreenInit, FlipInv, Flipping
<1>2. ASSUME IInv, FlipInv, [Next]_vars PROVE FlipInv' /\ [FlipCounts]_screenVars
  <2>1. CASE UNCHANGED screenVars
    <3>1. FlipInv' BY <1>2, <2>1 DEF screenVars, FlipInv, Flips
    <3> QED BY <2>1, <3>1
  <2>2. CASE ScreenOp \/ VBlank
    BY <1>2, <2>2, FlipStep DEF IInv
  <2> QED
    BY <1>2, <2>1, <2>2 DEF Next, FontCall, BeginLoad, DecodeStep, GiveBack, ScreenCall, Interrupt, vars
<1> QED BY <1>1, <1>2, Invariance, PTL DEF Spec
=============================================================================
