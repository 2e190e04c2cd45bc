SPECIFICATION Spec
CONSTANTS
    None = None
    Texts <- MCTexts
    Blanks = {"", " "}
    Empty = ""
    InElement <- MCInElement
    InAttribute <- MCInAttribute
    Spelling <- MCSpelling
    Truth <- MCTruth
    MaxIndex = 703
    MaxWord = 8
    SlideName <- MCSlideName
    SlideTitle <- MCSlideTitle
    Presentation = "Presentation"
    CodecId <- MCCodecId
    Scenario <- MCScenario
INVARIANTS
    ExactValuesSurvive
    TripsSettle
    LossesNamed
    PackagesClosed
    ExtractionFaithful
PROPERTY
    UndoRestores
