---------------------------- MODULE MCOfficeFiles -----------------------------
(* Small instances of OfficeFiles for TLC. *)
EXTENDS OfficeFiles

Words(texts) == [t \in texts |-> [form |-> "words", digits |-> 0, places |-> 0, den |-> 1]]
Digits(n) == [form |-> "integer", digits |-> n, places |-> 0, den |-> 1]
Decimal(n, places) == [form |-> "decimal", digits |-> n, places |-> places, den |-> 1]
Over(n, d) == [form |-> "ratio", digits |-> n, places |-> 0, den |-> d]

MCSpelling ==
    ("0" :> Digits(0)) @@ ("1" :> Digits(1)) @@ ("2" :> Digits(2))
    @@ ("2.50" :> Decimal(250, 2)) @@ ("-0.5" :> Decimal(-5, 1))
    @@ ("10/4" :> Over(10, 4)) @@ ("1/0" :> Over(1, 0))
    @@ ("0/1" :> Over(0, 1)) @@ ("1/1" :> Over(1, 1)) @@ ("2/1" :> Over(2, 1))
    @@ ("5/2" :> Over(5, 2)) @@ ("-1/2" :> Over(-1, 2))
    @@ ("1.5e3" :> [form |-> "science", digits |-> 15, places |-> 1, den |-> 1])
    @@ Words({"", " ", "true", "false", "two-lines", "two lines", "unprintable", "A1+B1",
              "Sheet1", "Presentation", "slide-1", "slide-2", "slide-3",
              "Slide 1", "Slide 2", "Slide 3", "intro", "codec/ooxml-pptx", "codec/odf"})
MCTexts == DOMAIN MCSpelling
\* A line break in an attribute is read as a space; a control character is
\* not XML anywhere.
MCInElement == [t \in MCTexts |-> IF t = "unprintable" THEN None ELSE t]
MCInAttribute == [t \in MCTexts |-> IF t = "two-lines" THEN "two lines" ELSE MCInElement[t]]
MCTruth == [t \in MCTexts |-> IF t \in {"1", "true"} THEN "true"
                              ELSE IF t \in {"0", "false", "", " "} THEN "false" ELSE "neither"]
MCSlideName == <<"slide-1", "slide-2", "slide-3">>
MCSlideTitle == <<"Slide 1", "Slide 2", "Slide 3">>
MCCodecId == [pptx |-> "codec/ooxml-pptx", odp |-> "codec/odf"]

OwnId == [scheme |-> "own", name |-> ""]
Half == Number(<<-1, 2>>)
Five == Number(<<5, 2>>)
A1 == Cell(1, 1)
Z2 == Cell(26, 2)
AA2 == Cell(27, 2)
ZZ1 == Cell(702, 1)
SheetDocOf(cells) == SheetToDoc(OwnId, [name |-> "Sheet1", cells |-> cells])

Values == {Half, Five, Bool(TRUE), Bool(FALSE), Text("two-lines"), Text("10/4"), Text(""),
           Text("unprintable"), Formula("A1+B1", 0), Formula("A1+B1", 2), Formula("", 1)}
SheetDocs ==
    {SheetDocOf((A1 :> v) @@ (AA2 :> w)) : v \in Values, w \in Values}
    \cup {SheetDocOf((Z2 :> v) @@ (AA2 :> Half) @@ (ZZ1 :> Five)) : v \in Values}
    \cup {SheetDocOf(<<>>), SheetToDoc(OwnId, [name |-> "two-lines", cells |-> <<>>])}

\* Workbooks of another program.
At(cell) == Display(cell)
Foreign(cells, merged, sheets, extra) ==
    [format |-> "xlsx",
     container |-> WriteOoxml(WorkbookParts \cup Named({"xl/worksheets/sheet1.xml"} \cup extra)),
     content |-> [sheets |-> [i \in 1..sheets |-> [name |-> "Sheet1", rel |-> RelId(i)]],
                  rels |-> [i \in 1..2 |-> [id |-> RelId(i), worksheet |-> TRUE,
                               target |-> <<"xl/worksheets/sheet1.xml">>]],
                  strings |-> <<"two-lines", "2">>,
                  worksheet |-> [merged |-> merged, cells |-> cells]]]
ForeignCells ==
    {XlsxCell(At(A1), "", "s", "", "1", ""), XlsxCell(At(A1), "", "s", "", "2", ""),
     XlsxCell(At(AA2), "", "n", "", "2.50", ""), XlsxCell(At(AA2), "", "", "", "1.5e3", ""),
     XlsxCell(At(AA2), "", "", "", " ", ""), XlsxCell(At(AA2), "", "b", "", "1", ""),
     XlsxCell(At(Z2), "", "", "A1+B1", "2", ""), XlsxCell(At(Z2), "", "inlineStr", "", "", "1"),
     XlsxCell([letters |-> <<1>>, row |-> 0], "", "", "", "1", ""),
     [XlsxCell(At(Z2), "", "n", "", "10/4", "") EXCEPT !.style = TRUE]}
ForeignBooks ==
    {Foreign(<<c>>, m, n, {}) : c \in ForeignCells, m \in BOOLEAN, n \in {1, 2}}
    \cup {Foreign(<<p[1], p[2]>>, FALSE, 1, {}) :
             p \in {q \in ForeignCells \X ForeignCells : q[1].at # q[2].at}}
    \cup {Foreign(<<>>, FALSE, 0, {}), Foreign(<<>>, FALSE, 1, {"xl/styles.xml"}),
          [Foreign(<<>>, FALSE, 1, {}) EXCEPT !.container.ole = TRUE],
          [Foreign(<<>>, FALSE, 1, {}) EXCEPT !.container.parts = OoxmlParts]}

OdsForeignCells ==
    {[OdsGap(2) EXCEPT !.covered = TRUE], OdsGap(1),
     OdsCell(None, "", None, "float", None, "2.50", "2"),
     OdsCell(None, "", None, "boolean", None, None, "1"),
     OdsCell(None, "", None, "string", OdsFormula("of:", 0, "A1+B1"), None, "2"),
     OdsCell(None, "", None, "string", OdsFormula("oooc:", 1, "two-lines"), None, "2"),
     OdsCell(None, "", None, "string", OdsFormula("", 2, "A1+B1"), None, "2"),
     OdsCell(None, "", None, "string", OdsFormula("msoxl:", 1, "A1+B1"), None, "2"),
     [OdsCell(None, "", None, "other", None, None, "two-lines") EXCEPT !.repeats = 2],
     [OdsCell(At(AA2), "number", "5/2", "string", None, None, "5/2") EXCEPT !.repeats = 2],
     [OdsCell(None, "", None, "date", None, None, "intro") EXCEPT !.style = TRUE]}
OdsForeignBooks ==
    {[format |-> "ods", container |-> WriteOdf("spreadsheet"),
      content |-> [styled |-> FALSE,
                   tables |-> <<[name |-> "Sheet1", styled |-> FALSE,
                                 rows |-> <<OdsRow(<<>>), OdsRow(<<c, d>>)>>]>>]]
     : c \in OdsForeignCells, d \in OdsForeignCells}
    \cup
    {[format |-> "ods", container |-> WriteOdf("spreadsheet"),
      content |-> [styled |-> TRUE,
                   tables |-> <<[name |-> "Sheet1", styled |-> FALSE,
                                 rows |-> <<[repeats |-> 2, cells |-> <<c>>], OdsRow(<<c>>)>>],
                                [name |-> "intro", styled |-> FALSE, rows |-> <<>>]>>]]
     : c \in OdsForeignCells}

\* Ranges: documents around A1:C2, and answers of a service that changed
\* something, or that names another address.
B2 == Cell(2, 2)
Target == [drive_item |-> "item", worksheet |-> "Sheet1", range |-> Address(At(A1), At(Cell(3, 2)))]
RangeDocs == {SheetDocOf((A1 :> v) @@ (B2 :> w)) : v \in Values, w \in {Half, Text("10/4")}}
Scalars == {Scalar("null", "", 0, FALSE), Scalar("bool", "", 0, TRUE), Scalar("number", "2.50", 0, FALSE),
            Scalar("number", "1.5e3", 0, FALSE), Scalar("string", "2.50", 0, FALSE),
            Scalar("string", "10/4", 0, FALSE), Scalar("string", "1/0", 0, FALSE),
            Scalar("string", "A1+B1", 1, FALSE), Scalar("nested", "", 0, FALSE)}
RangeAnswers ==
    {[format |-> "range", target |-> Target,
      content |-> [address |-> a, width |-> n, values |-> <<x, y>>]]
     : a \in {None, Address(At(Z2), At(AA2)), Address(At(Cell(703, 703)), At(Cell(703, 703))),
              Address([letters |-> <<>>, row |-> 1], At(A1))},
       n \in 1..2, x \in Scalars, y \in {Scalar("string", "10/4", 0, FALSE), Scalar("null", "", 0, FALSE)}}

\* Decks.
Image(version) == ImageRef("two-lines", "intro", version, None)
DeckBlocks == {Heading("two-lines"), BulletList(<<"intro", "two-lines">>), BulletList(<<"", "intro">>),
               Table(<<"intro", "">>, <<<<"", "1">>, <<>>>>), Image(None), Image("2"),
               Heading("unprintable")}
DeckOf(slides) == DeckToDoc(OwnId, [title |-> "intro", slides |-> slides])
Decks ==
    {DeckOf(<<Slide("slide-2", "two-lines", <<b, c>>), Slide("two-lines", "", <<>>)>>) :
        b \in DeckBlocks, c \in DeckBlocks}
    \cup {DeckOf(<<Slide("slide-2", "intro", <<b>>)>>) : b \in DeckBlocks}
    \cup {DeckOf(<<>>), DeckOf([i \in 1..3 |-> Slide("slide-2", "Slide 1", <<Heading(MCSlideName[i])>>)])}

ForeignSlides ==
    {[SlideXml(Slide(None, None, bs), None) EXCEPT !.transition = x, !.media = x] :
        bs \in {<<>>, <<Heading("intro"), ImageRef(None, None, None, "two-lines")>>}, x \in BOOLEAN}
    \cup {[SlideXml(Slide("slide-1", "intro", <<Block("chart", <<>>, <<>>)>>), None)
             EXCEPT !.shapes = FALSE],
          [SlideXml(Slide("slide-1", "intro", <<>>), None) EXCEPT !.shapes = FALSE]}
ForeignDecks ==
    {[format |-> "pptx",
      container |-> WriteOoxml(PresentationParts \cup {SlidePath(1), SlidePath(2)}),
      content |-> [title |-> t, order |-> o, overrides |-> {},
                   rels |-> <<[id |-> RelId(2), slide |-> TRUE, target |-> SlidePath(2)],
                              [id |-> RelId(3), slide |-> TRUE, target |-> SlidePath(1)]>>,
                   slides |-> (SlidePath(1) :> x) @@ (SlidePath(2) :> y)]]
     : t \in {None, "intro", ""}, x \in ForeignSlides, y \in ForeignSlides,
       o \in {<<RelId(2), RelId(3)>>, <<RelId(3), RelId(2)>>, <<RelId(3), RelId(2), RelId(3)>>,
              <<RelId(3)>>, <<RelId(9)>>}}
    \cup
    {[format |-> "odp", container |-> WriteOdf("presentation"),
      content |-> [title |-> "intro", styled |-> FALSE,
                   pages |-> <<[x EXCEPT !.name = n], y>>]]
     : x \in ForeignSlides, y \in ForeignSlides, n \in {None, "two-lines"}}

\* Archives: sizes around the limits, declared truly or not.
Entry(name, dir, declared, compressed, actual) ==
    [name |-> name, dir |-> dir, declared |-> declared, compressed |-> compressed,
     actual |-> actual]
Entries(names) ==
    {Entry(n, FALSE, d, c, a) : n \in names, d \in {0, 2, 4}, c \in {0, 2}, a \in {0, 2, 3, 5}}
    \cup {Entry("x", TRUE, 0, 0, 0)}
Archives == {<<e, f>> : e \in Entries({"x"}), f \in Entries({"x", "y"})}
            \cup {<<e, Entry("z", FALSE, 1, 1, 1), f>> :
                     e \in {g \in Entries({"x"}) : g.declared = 2},
                     f \in {g \in Entries({"y"}) : g.actual = 2}}
Limits == {[entries |-> 3, entry |-> 3, total |-> t, ratio |-> 2] : t \in {4, 6, 7}}
          \cup {[entries |-> 2, entry |-> 8, total |-> 8, ratio |-> 8]}

\* What users intend, with every part that can be missing or wrong.
Intents ==
    LET intended == [kind |-> "edit-field", target |-> OwnId, segment |-> "cell",
                     at |-> At(A1), value |-> ValueToExpr(Five)]
    IN {intended, [intended EXCEPT !.kind = "select"], [intended EXCEPT !.target.scheme = "other"],
        [intended EXCEPT !.segment = "title"], [intended EXCEPT !.at = None],
        [intended EXCEPT !.value = None], [intended EXCEPT !.value.kind = "string"]}

Nothing == [docs |-> {}, cells |-> {}, values |-> {}, intents |-> {}, formats |-> {}, foreign |-> {},
            target |-> [Target EXCEPT !.range = Address(At(A1), At(A1))],
            archives |-> {}, limits |-> {}, maxEdits |-> 0]
MCScenario ==
    [edits |-> [Nothing EXCEPT !.docs = {SheetDocOf(A1 :> Half)}, !.cells = {A1, AA2},
                               !.values = {Five, Blank}, !.intents = Intents,
                               !.maxEdits = 2],
     trips |-> [Nothing EXCEPT !.docs = {SheetDocOf(A1 :> Half)}, !.cells = {A1},
                               !.values = {Five}, !.formats = {"odf"}, !.maxEdits = 2],
     sheets |-> [Nothing EXCEPT !.docs = SheetDocs, !.formats = {"xlsx", "odf"}],
     books |-> [Nothing EXCEPT !.docs = {SheetDocOf(<<>>)}, !.formats = {"xlsx", "odf"},
                               !.foreign = ForeignBooks \cup OdsForeignBooks],
     ranges |-> [Nothing EXCEPT !.docs = RangeDocs, !.formats = {"range"}, !.target = Target,
                                !.foreign = RangeAnswers],
     decks |-> [Nothing EXCEPT !.docs = Decks, !.formats = {"pptx", "odf"}],
     shows |-> [Nothing EXCEPT !.docs = {DeckOf(<<>>)}, !.formats = {"pptx", "odf"},
                               !.foreign = ForeignDecks],
     archives |-> [Nothing EXCEPT !.docs = {DeckOf(<<>>)}, !.formats = {"pptx"},
                                  !.archives = Archives, !.limits = Limits]]
===============================================================================
