CONSTANTS
    Proc = {p1, p2}
    Name = {".", "e", "f", "g", "h"}
    Blank = "blank"
    Char = {"a", "b", "f"}
    BLOCK_SIZE = 4
    NUM_BLOCKS = 2
    NUM_INODES = 6
    INODE_BLOCKS = 2
    MAX_FILES_NUMBER = 6
    MAX_FILE_NUM = 4
    Data <- MCData
    Count = {2}
    CP_BUF = 2
    Image <- MCImage
    MAX_CHANGES = 2
    MAX_OPEN = 2
    FileName = {"e", "f"}
    NewName = {"h"}
    Env = {}
SYMMETRY Symmetry
SPECIFICATION Spec
INVARIANTS
    TypeOK
    
PROPERTIES
    ImplementsStore
