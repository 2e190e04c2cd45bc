------------------------------- MODULE DeckFiles -------------------------------
(***************************************************************************)
(* Decks of sim-lib-deck (model.rs, doc.rs) as .pptx and .odp files:       *)
(* pptx.rs and pptx/decode.rs of sim-codec-ooxml, odp.rs of sim-codec-odf. *)
(* A slide is shown by shapes and carried by the blocks the codecs write   *)
(* beside them; reading looks at the blocks.                               *)
(***************************************************************************)
EXTENDS OfficeText, OfficePackages

CONSTANTS SlideName,      \* 1.. -> the text "slide-1", ...
          SlideTitle,     \* 1.. -> the text "Slide 1", ...
          Presentation,   \* the text "Presentation"
          CodecId         \* "pptx" and "odp" -> the ids of their codecs

ASSUME SlideNameAssumption ==
    /\ Presentation \in Texts \ Blanks
    /\ \A i \in DOMAIN SlideName : SlideName[i] \in Texts \ Blanks
    /\ \A i \in DOMAIN SlideTitle : SlideTitle[i] \in Texts \ Blanks
    /\ \A t \in {SlideName[i] : i \in DOMAIN SlideName} \cup {Presentation} : InAttribute[t] = t
    /\ \A i \in DOMAIN SlideTitle : InAttribute[SlideTitle[i]] = SlideTitle[i]
ASSUME CodecIdAssumption ==
    \A codec \in {"pptx", "odp"} :
       CodecId[codec] \in Texts /\ InAttribute[CodecId[codec]] = CodecId[codec]

(***************************************************************************)
(* Blocks and decks.  The items of a block are its heading, its bullets,   *)
(* the columns of its table, or backend, external id, version and address  *)
(* of its image, the last two optional.                                    *)
(***************************************************************************)
Block(kind, items, rows) == [kind |-> kind, items |-> items, rows |-> rows]
Heading(text) == Block("heading", <<text>>, <<>>)
BulletList(items) == Block("bullet-list", items, <<>>)
Table(columns, rows) == Block("table", columns, rows)
ImageRef(backend, id, version, url) == Block("image-ref", <<backend, id, version, url>>, <<>>)
Slide(id, title, blocks) == [id |-> id, title |-> title, blocks |-> blocks]
NoSlide == Slide(None, None, <<>>)

\* A block that a file can hold, also one of a kind nobody knows; a block, and a
\* deck, that some program can hold.  There are names for all its slides.
IsBlockXml(b) ==
    /\ b = Block(b.kind, b.items, b.rows)
    /\ IsList(b.items) /\ IsList(b.rows)
    /\ \A row \in ToSet(b.rows) : IsList(row) /\ ToSet(row) \subseteq Texts
    /\ ToSet(b.items) \subseteq IF b.kind = "image-ref" THEN TextsAndNone ELSE Texts
    /\ b.kind = "heading" => Len(b.items) = 1
    /\ b.kind = "image-ref" => Len(b.items) = 4
    /\ b.kind # "table" => b.rows = <<>>
BlockKinds == {"heading", "bullet-list", "table", "image-ref"}
IsBlock(b) ==
    /\ IsBlockXml(b) /\ b.kind \in BlockKinds
    /\ b.kind = "image-ref" => {b.items[1], b.items[2]} \subseteq Texts
Numbered(n) == n \in Nat /\ 1..n \subseteq DOMAIN SlideName \cap DOMAIN SlideTitle
IsSlide(slide) ==
    /\ slide = Slide(slide.id, slide.title, slide.blocks)
    /\ slide.id \in Texts \ Blanks /\ slide.title \in Texts
    /\ IsList(slide.blocks)
    /\ \A b \in ToSet(slide.blocks) : IsBlock(b)
IsDeck(deck) ==
    /\ deck = [title |-> deck.title, slides |-> deck.slides]
    /\ deck.title \in Texts \ Blanks
    /\ IsList(deck.slides) /\ Numbered(Len(deck.slides))
    /\ \A slide \in ToSet(deck.slides) : IsSlide(slide)

\* deck_to_doc: a title, and an id for every slide.
DeckToDoc(id, deck) ==
    IF deck.title \in Blanks \/ \E i \in 1..Len(deck.slides) : deck.slides[i].id \in Blanks
    THEN NoDoc
    ELSE [kind |-> "deck", id |-> id, body |-> deck]
NoDeck == [title |-> None, slides |-> <<>>]
DocToDeck(doc) == IF doc.kind = "deck" THEN doc.body ELSE NoDeck

(***************************************************************************)
(* Blocks in files, the same in both formats.                              *)
(***************************************************************************)
Attribute(text, fallback) == IF text = None THEN fallback ELSE InAttribute[text]
Unreadable(texts, read) == \E i \in 1..Len(texts) : texts[i] # None /\ read[texts[i]] = None

\* child_texts: an element without text yields nothing.
ChildTexts(texts) ==
    FlattenSeq([i \in 1..Len(texts) |->
                   IF InElement[texts[i]] = Empty THEN <<>> ELSE <<InElement[texts[i]]>>])

\* Mutant of BlockFromNode: the lists of a table are read backwards.
BlockFromNodeBackwards(codec, b) ==
    CASE b.kind = "heading" -> Heading(InElement[b.items[1]])
      [] b.kind = "bullet-list" -> BulletList(ChildTexts(Reverse(b.items)))
      [] b.kind = "table" ->
            Table(ChildTexts(b.items), [r \in 1..Len(b.rows) |-> ChildTexts(b.rows[r])])
      [] OTHER -> [b EXCEPT !.items = [i \in 1..4 |-> Attribute(b.items[i], Empty)]]

\* block_from_node: an image without a backend is given to the codec.
BlockFromNode(codec, b) ==
    CASE b.kind = "heading" -> Heading(InElement[b.items[1]])
      [] b.kind = "bullet-list" -> BulletList(ChildTexts(b.items))
      [] b.kind = "table" ->
            Table(ChildTexts(b.items), [r \in 1..Len(b.rows) |-> ChildTexts(b.rows[r])])
      [] OTHER -> ImageRef(Attribute(b.items[1], CodecId[codec]), Attribute(b.items[2], Empty),
                           Attribute(b.items[3], None), Attribute(b.items[4], None))

BlockUnreadable(b) ==
    \/ b.kind \notin {"heading", "bullet-list", "table", "image-ref"}
    \/ Unreadable(b.items, IF b.kind = "image-ref" THEN InAttribute ELSE InElement)
    \/ \E r \in 1..Len(b.rows) : Unreadable(b.rows[r], InElement)

\* A slide in a file: its attributes, what it shows, and its blocks.
SlideXml(slide, name) ==
    [id |-> slide.id, title |-> slide.title, name |-> name, blocks |-> slide.blocks,
     shapes |-> TRUE, transition |-> FALSE, media |-> FALSE]

\* What stands in a slide that some program wrote.
IsSlideXml(xml) ==
    /\ {xml.id, xml.title, xml.name} \subseteq TextsAndNone
    /\ IsList(xml.blocks) /\ \A b \in ToSet(xml.blocks) : IsBlockXml(b)
    /\ {xml.shapes, xml.transition, xml.media} \subseteq BOOLEAN

First(options, fallback) ==
    LET i == SelectInSeq(options, LAMBDA t : t # None)
    IN IF i = 0 THEN fallback ELSE InAttribute[options[i]]

SlideUnreadable(xml) ==
    \/ \E i \in 1..Len(xml.blocks) : BlockUnreadable(xml.blocks[i])
    \/ Unreadable(<<xml.id, xml.title, xml.name>>, InAttribute)

\* The slide at an index: an id and a title are made up from its place when
\* none of the attributes that may hold them is there.
SlideAt(codec, index, xml, ids) ==
    IF SlideUnreadable(xml) THEN NoSlide
    ELSE Slide(First(ids, SlideName[index]), First(<<xml.title, xml.name>>, SlideTitle[index]),
               [i \in 1..Len(xml.blocks) |-> BlockFromNode(codec, xml.blocks[i])])

\* report_unsupported: what is shown is lost when no block carries it.
ShownLosses(at, xml) ==
    {Dropped("transition", at) : b \in {TRUE} \cap {xml.transition}}
    \cup {Dropped("shapes", at) : b \in {TRUE} \cap {xml.shapes /\ xml.blocks = <<>>}}

\* The document of the slides read in order, refused with any one of them.
DecodedDeck(scheme, title, slides) ==
    LET read == IF title = None THEN Presentation ELSE InAttribute[title]
    IN IF read = None \/ NoSlide \in ToSet(slides) THEN NoDoc
       ELSE DeckToDoc([scheme |-> scheme, name |-> read], [title |-> read, slides |-> slides])

(***************************************************************************)
(* .pptx: the presentation lists relationships, these name slide parts.    *)
(***************************************************************************)
SlidePath(i) == <<"ppt/slides/slide", i>>
ASSUME PathAssumption == None \notin {"ppt/slides/slide"} \X Nat

PresentationParts == Named({"ppt/presentation.xml", "ppt/_rels/presentation.xml.rels"})
FixedParts == Named({"docProps/app.xml", "docProps/core.xml", "ppt/slideMasters/slideMaster1.xml",
                     "ppt/slideLayouts/slideLayout1.xml", "ppt/theme/theme1.xml"})

\* Mutant of PresentationRels: the master is not counted in.
PresentationRelsFromOne(count) ==
    [i \in 1..count |-> [id |-> RelId(i), slide |-> TRUE, target |-> SlidePath(i)]]

\* presentation_rels: the master is rId1, the slides follow.
PresentationRels(count) ==
    <<[id |-> RelId(1), slide |-> FALSE, target |-> <<"ppt/slideMasters/slideMaster1.xml">>]>>
    \o [i \in 1..count |-> [id |-> RelId(i + 1), slide |-> TRUE, target |-> SlidePath(i)]]

\* Slide, layout, master and theme refer to each other by fixed targets.
PartsReferred(rels) ==
    {rels[i].target : i \in 1..Len(rels)}
    \cup Named({"ppt/presentation.xml", "ppt/slideMasters/slideMaster1.xml",
                "ppt/slideLayouts/slideLayout1.xml", "ppt/theme/theme1.xml"})

\* package_entries
PptxEncode(doc) ==
    LET deck == DocToDeck(doc)
        count == Len(deck.slides)
    IN IF deck = NoDeck THEN Refused
       ELSE Answered(
              [format |-> "pptx",
               container |-> WriteOoxml(PresentationParts \cup FixedParts
                                        \cup {SlidePath(i) : i \in 1..count}),
               content |->
                  [title |-> deck.title,
                   order |-> [i \in 1..count |-> RelId(i + 1)],
                   rels |-> PresentationRels(count),
                   overrides |-> FixedParts \cup Named({"ppt/presentation.xml"})
                                 \cup {SlidePath(i) : i \in 1..count},
                   slides |-> [path \in {SlidePath(i) : i \in 1..count} |->
                                  SlideXml(deck.slides[CHOOSE i \in 1..count : SlidePath(i) = path],
                                           None)]]], {})

\* Mutant of SlidePaths: slides in the order of the relationships.
SlidePathsByRelationship(content) ==
    LET slides == SelectSeq(content.rels, LAMBDA r : r.slide)
    IN [i \in 1..Len(slides) |-> slides[i].target]

\* decode_slide
DecodeSlide(index, xml) == SlideAt("pptx", index, xml, <<xml.id>>)

\* slide_paths: in the order of the presentation; among relationships of one
\* id the last counts.
SlidePaths(content) ==
    [i \in 1..Len(content.order) |->
        LET j == SelectLastInSeq(content.rels, LAMBDA r : r.slide /\ r.id = content.order[i])
        IN IF j = 0 THEN None ELSE content.rels[j].target]

\* A presentation that some program wrote.
IsPresentation(content) ==
    /\ content.title \in TextsAndNone
    /\ IsList(content.order) /\ Numbered(Len(content.order))
    /\ IsList(content.rels)
    /\ None \notin DOMAIN content.slides
    /\ \A path \in DOMAIN content.slides : IsSlideXml(content.slides[path])

\* validate_pptx_package: what a deck that comes from a drive must have.
ValidatePptxPackage(container) ==
    ~container.ole /\ OoxmlParts \cup PresentationParts \subseteq container.parts

\* report_unsupported of a slide part, report_orphan_slide_parts.
SlideLosses(path, xml) ==
    ShownLosses(path, xml) \cup {Dropped("media", path) : b \in {TRUE} \cap {xml.media}}
Orphans(content) ==
    {Dropped("orphan", path) : path \in DOMAIN content.slides \ ToSet(SlidePaths(content))}

PptxDecode(file) ==
    LET content == file.content
        paths == SlidePaths(content)
        doc == DecodedDeck("pptx", content.title,
                           [i \in 1..Len(paths) |-> DecodeSlide(i, content.slides[paths[i]])])
    IN IF \/ file.format # "pptx" \/ ~OoxmlReadable(file.container)
          \/ ~(PresentationParts \subseteq file.container.parts)
       THEN Refused
       ELSE IF ~(ToSet(paths) \subseteq DOMAIN content.slides) THEN Refused
       ELSE IF doc = NoDoc THEN Refused
       ELSE Answered(doc, Orphans(content)
                          \cup UNION {SlideLosses(path, content.slides[path])
                                      : path \in ToSet(paths)})

(***************************************************************************)
(* .odp: the pages of the content, each with its own attributes.           *)
(***************************************************************************)
PageXml(deck, i) == SlideXml(deck.slides[i], SlideName[i])

OdpEncode(doc) ==
    LET deck == DocToDeck(doc)
    IN IF deck = NoDeck THEN Refused
       ELSE Answered([format |-> "odp", container |-> WriteOdf("presentation"),
                      content |-> [title |-> deck.title, styled |-> FALSE,
                                   pages |-> [i \in 1..Len(deck.slides) |-> PageXml(deck, i)]]],
                     {})

IsPages(content) ==
    /\ content.title \in TextsAndNone
    /\ IsList(content.pages) /\ Numbered(Len(content.pages))
    /\ \A xml \in ToSet(content.pages) : IsSlideXml(xml)

\* decode_slide: a page may also lend its name for the id.
DecodePage(index, xml) == SlideAt("odp", index, xml, <<xml.id, xml.name>>)

\* report_unsupported of a page, report_styles.
PageLosses(index, xml) == ShownLosses(SlideName[index], xml)
DeckStyles(content) == {Dropped("styles", "content") : b \in {TRUE} \cap {content.styled}}

OdpDecode(file) ==
    LET pages == file.content.pages
        doc == DecodedDeck("odp", file.content.title,
                           [i \in 1..Len(pages) |-> DecodePage(i, pages[i])])
    IN IF \/ file.format # "odp" \/ ~OdfReadable(file.container)
          \/ file.container.mimetype # "presentation"
       THEN Refused
       ELSE IF doc = NoDoc THEN Refused
       ELSE Answered(doc, DeckStyles(file.content)
                          \cup UNION {PageLosses(i, pages[i]) : i \in 1..Len(pages)})
===============================================================================
