SPECIFICATION Spec
CONSTANTS
    Mazes <- TwoMazes
    BLOCK = 2
    SCROLL_X_DIM = 8
    SCROLL_Y_DIM = 6
    EXTRA = 4
    SHOW_MIN = 1
    PAN_BORDER = 1
    Opaque <- AllButCorner
    MaxTicks = 2
INVARIANTS
    WindowHolds PictureIsTrue
