SPECIFICATION Spec
CONSTANTS
    Files = {"redis.conf", "micronet.json"}
    Pages = {p1}
    Slots = {1, 2}
    MaxEdits = 2
    MaxKills = 1
    Missing = Missing
    Cut = Cut
    Blank = Blank
    Asked = Asked
    None = None
INVARIANTS
    TypeOK
    EditsSurvive
    OwnText
