SPECIFICATION Spec
CONSTANTS
    None = None
    Blanks = {"", " "}
    FieldOrder <- MCFieldOrder
    RemoteId <- MCRemoteId
    Tag <- MCTag
    NewItemId <- MCNewItemId
    ZoneShift <- MCZoneShift
    Scenario <- MCDraftsAlone
INVARIANT
    InvalidUnsent
