CONSTANTS
    Ids <- MCIds
    AnswerKeys = {"name", "k1", "k2", "flag", "device"}
    Devices = {"sda3", "sdb1", "plain"}
    Containers = {"sda3", "sdb1"}
    Posted <- MCPosted
    OrderLimit = 3
    AnswerFiles <- MCAnswerFiles
SPECIFICATION Spec
INVARIANTS TypeOK ItemsLeaveOneKey  EditsApply
PROPERTIES KeepsAKey 
ACTION_CONSTRAINT MCExports
