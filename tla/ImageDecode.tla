---------------------------- MODULE ImageDecode -----------------------------
(***************************************************************************)
(* Loading one image (src/graphics.cpp, load_image and the PNG and BMP      *)
(* decoders): what the load holds from step to step, and what each way out  *)
(* of it gives back.  libpng leaves by longjmp, from any of its calls, to   *)
(* one clean-up that frees what the pointers say there is.  Pixels are left *)
(* out; VRAM is a bump allocator that is never given back.                  *)
(***************************************************************************)
EXTENDS Naturals

Things == {"file", "png", "tex", "mem", "clut", "rows", "image"}

Palettes == {"png4", "png8", "bmp4", "bmp8"}
PngKinds == {"pngTrue", "png4", "png8", "pngOther"}
BmpKinds == {"bmp4", "bmp8", "bmp16", "bmp24"}

VARIABLES
    step,             \* where the load is; "none" before it, "done" when it returns
    ptr,              \* each pointer: "null", "live", or "freed" and still set
    kind, delayed,    \* what is decoded; to be uploaded when it is drawn
    loaded,           \* the load returned a texture
    slip              \* something was freed twice

imageVars == <<step, ptr, kind, delayed, loaded, slip>>

ImageInit ==
    /\ step = "none" /\ ptr = [t \in Things |-> "null"]
    /\ kind = "pngOther" /\ delayed = TRUE /\ loaded = FALSE /\ slip = FALSE

Go(s) == step' = s
Have(t) == ptr' = [ptr EXCEPT ![t] = "live"]

(* free() of each of ts: of a NULL pointer it does nothing. *)
Free(ts, left) ==
    /\ ptr' = [t \in Things |-> IF t \in ts /\ ptr[t] = "live" THEN left ELSE ptr[t]]
    /\ slip' = (slip \/ \E t \in ts : ptr[t] = "freed")

(* The load frees ts and returns NULL. *)
GiveUp(ts) == Free(ts, "freed") /\ Go("done") /\ loaded' = FALSE /\ UNCHANGED <<kind, delayed>>

Same == UNCHANGED <<kind, delayed, loaded, slip>>

-----------------------------------------------------------------------------
(* load_image: an embedded name is decoded from memory, any other is opened and its first
   two bytes choose the decoder. *)
LoadImage ==
    /\ step = "none"
    /\ delayed' \in BOOLEAN
    /\ \/ Go("png") /\ UNCHANGED ptr
       \/ Go("opened") /\ Have("file")
    /\ UNCHANGED <<kind, loaded, slip>>

NotOpened == step = "none" /\ GiveUp({})

Magic ==
    /\ step = "opened"
    /\ \/ GiveUp({"file"})
       \/ \E s \in {"png", "bmp"} : Go(s) /\ UNCHANGED ptr /\ Same

-----------------------------------------------------------------------------
(* The PNG decoder. *)
PngFrame == {"png", "file"}

PngStruct ==
    /\ step = "png"
    /\ \/ Have("png") /\ Go("pngTex") /\ Same
       \/ GiveUp({"file"})

PngTex ==
    /\ step = "pngTex"
    /\ \/ Have("tex") /\ Go("info") /\ Same
       \/ GiveUp(PngFrame)

(* setjmp's clean-up, and the caller's. *)
Jump == GiveUp({"rows", "mem", "clut", "tex"} \union PngFrame)

Info ==
    /\ step = "info"
    /\ \/ kind' \in PngKinds /\ Go("size") /\ UNCHANGED <<ptr, delayed, loaded, slip>>
       \/ Jump

Unsupported == step = "size" /\ kind = "pngOther" /\ GiveUp({"tex"} \union PngFrame)

PngMem ==
    /\ step = "size" /\ kind # "pngOther"
    /\ \/ Have("mem") /\ Go("rows") /\ Same
       \/ Jump

(* The array of rows; then a row may not be had. *)
Rows ==
    /\ step = "rows"
    /\ \/ Have("rows") /\ Go("pixels") /\ Same
       \/ Jump

Pixels ==
    /\ step = "pixels"
    /\ \/ Go(IF kind \in Palettes THEN "palette" ELSE "copied") /\ UNCHANGED ptr /\ Same
       \/ Jump

Palette ==
    /\ step = "palette"
    /\ \/ Have("clut") /\ Go("copied") /\ Same
       \/ Jump

(* Mutant: the pointer to the rows is left as it is. *)
RowsFreed_Dangling == step = "copied" /\ Free({"rows"}, "freed") /\ Go("end") /\ UNCHANGED <<kind, delayed, loaded>>

RowsFreed == step = "copied" /\ Free({"rows"}, "null") /\ Go("end") /\ UNCHANGED <<kind, delayed, loaded>>

(* png_read_end can fail as well. *)
PngEnd ==
    /\ step = "end"
    /\ \/ Go("upload") /\ UNCHANGED ptr /\ Same
       \/ Jump

-----------------------------------------------------------------------------
(* The BMP decoder. *)
BmpTex ==
    /\ step = "bmp"
    /\ \/ Have("tex") /\ Go("headers") /\ Same
       \/ GiveUp({"file"})

Headers ==
    /\ step = "headers"
    /\ \/ \E k \in BmpKinds : /\ kind' = k /\ Go(IF k \in Palettes THEN "bmpClut" ELSE "bmpSize")
                              /\ UNCHANGED <<ptr, delayed, loaded, slip>>
       \/ GiveUp({"tex", "file"})

BmpClut ==
    /\ step = "bmpClut"
    /\ \/ Have("clut") /\ Go("bmpPalette") /\ Same
       \/ GiveUp({"tex", "file"})

BmpPalette ==
    /\ step = "bmpPalette"
    /\ \/ Go("bmpSize") /\ UNCHANGED ptr /\ Same
       \/ GiveUp({"clut", "tex", "file"})

(* Offset, dimensions and length, then the texture's memory. *)
BmpMem ==
    /\ step = "bmpSize"
    /\ \/ Have("mem") /\ Go("bmpImage") /\ Same
       \/ GiveUp({"clut", "tex", "file"})

BmpImage ==
    /\ step = "bmpImage"
    /\ \/ Have("image") /\ Go("bmpPixels") /\ Same
       \/ GiveUp({"mem", "clut", "tex", "file"})

BmpPixels ==
    /\ step = "bmpPixels"
    /\ \/ Free({"image", "file"}, "null") /\ Go("upload") /\ UNCHANGED <<kind, delayed, loaded>>
       \/ GiveUp({"image", "mem", "clut", "tex", "file"})

-----------------------------------------------------------------------------
(* A texture that is not delayed is uploaded now and keeps no memory; VRAM may be full.
   The caller destroys what libpng had and closes the file. *)
Upload ==
    /\ step = "upload"
    /\ \/ /\ Free(PngFrame \union (IF delayed THEN {} ELSE {"mem", "clut"}), "null")
          /\ loaded' = TRUE /\ Go("done") /\ UNCHANGED <<kind, delayed>>
       \/ ~delayed /\ GiveUp({"mem", "clut", "tex"} \union PngFrame)

(* Nothing was returned, or freeImage gives the texture back. *)
FreeImage ==
    /\ step = "done"
    /\ ptr' = IF loaded THEN [t \in Things |-> IF t \in {"mem", "clut", "tex"} THEN "null" ELSE ptr[t]]
              ELSE [t \in Things |-> IF ptr[t] = "freed" THEN "null" ELSE ptr[t]]
    /\ Go("none") /\ loaded' = FALSE /\ delayed' = TRUE /\ kind' = "pngOther" /\ UNCHANGED slip

Decode ==
    \/ Magic \/ PngStruct \/ PngTex \/ Info \/ Unsupported \/ PngMem \/ Rows \/ Pixels \/ Palette \/ RowsFreed \/ PngEnd
    \/ BmpTex \/ Headers \/ BmpClut \/ BmpPalette \/ BmpMem \/ BmpImage \/ BmpPixels \/ Upload

-----------------------------------------------------------------------------
(* However a load ends, it freed nothing twice and holds no more than the texture it
   returned (graphics.cpp: "frees THIS function's in-progress buffers"); a texture that was
   given back holds nothing. *)
LoadsAreClean ==
    /\ ~slip
    /\ step \in {"none", "done"} =>
         {t \in Things : ptr[t] = "live"} =
             IF ~loaded THEN {}
             ELSE {"tex"} \union IF ~delayed THEN {}
                  ELSE IF kind \in Palettes THEN {"mem", "clut"} ELSE {"mem"}
=============================================================================
