SPECIFICATION Spec
CONSTANTS
    Inodes = {i1, i2, i3}
    a = a
    b = b
    x = x
    y = y
    Heads = {a, b}
    Tails = {x, y}
    Parts = 4
    Docs <- MCDocs
    MaxEdits = 3
    Nothing = Nothing
    Garbage = Garbage
    None = None
SYMMETRY Symmetry
INVARIANTS TypeOK WholeUnlessTorn PiecesOffered PrivateWhenRead
