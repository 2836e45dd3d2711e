SPECIFICATION Spec
CONSTANTS
    Slots = {0, 1}
    AtlasMax = 2
    Side = 4
    Glyphs = {"i", "m", "w"}
    Sizes = {1, 2}
    DefaultSize = 2
    Shape <- Bitmap
    None = None
    FadeFrames = 2
    Modes = {"ntsc", "p480"}
INVARIANTS
    CachedGlyphsAreTheirs
    GlyphsKeepApart
    LoadsAreClean
    BlackBeforeReset
PROPERTIES
    FlipsReturn
