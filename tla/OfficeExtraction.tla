--------------------------- MODULE OfficeExtraction ----------------------------
(* What python_pptx, DocxReader and image_data_extractor make of a file.      *)
(* A slide is a sequence of groups of shapes, a shape has a place ("top"),    *)
(* the numbers of runs of its paragraphs (0 for a blank one) and perhaps a    *)
(* picture or a table; a document is a sequence of paragraphs, whose items    *)
(* have a style and perhaps pictures, and tables.  Of a picture the model     *)
(* keeps whether it can be loaded and the tables and charts found in it.      *)
EXTENDS Integers, Sequences, FiniteSets, SequencesExt, FiniteSetsExt, Selections

CONSTANTS Files   \* [type, body, asks, depth, markdown, raises]

\* A shape is one picture or none; the items of a table are those of its cells.
PictureType == [loads : BOOLEAN, detected : Seq({"table", "chart", "other"})]
ShapeType == [top : Int, role : {"title", "subtitle", "body"}, paragraphs : Seq(Nat),
              pictures : {q \in Seq(PictureType) : Len(q) <= 1}, table : BOOLEAN]
ItemType == [kind : {"run", "link", "other"}, style : STRING, blank : BOOLEAN, pictures : Seq(PictureType)]
ChildType == [kind : {"paragraph", "table"}, items : Seq(ItemType)]

IsFile(f) ==
  /\ f.type \in {"pptx", "docx", "image"} /\ f.markdown \in BOOLEAN /\ f.raises \in BOOLEAN
  /\ f.depth \in {"document", "page", "block", "line", "span"}
  /\ f.type = "pptx" => f.body \in Seq(Seq(Seq(ShapeType)))
  /\ f.type = "docx" => f.body \in Seq(ChildType)

ASSUME OfficeAssumption == \A f \in Files : IsFile(f)

VARIABLES file,
          part,               \* where the loop is: slide and shape, or child
          accumulated_text,
          pending_images,     \* pictures seen, in order: [at, picture]
          extracted_data,
          progress            \* "read" | "text" | "images" | "done" | "failed"

officeVars == <<file, part, accumulated_text, pending_images, extracted_data, progress>>

Asks(kinds) == kinds \cap file.asks # {}

\* A row says where its content is: slide or page, shape or child, paragraph, run.
Row(kind, at, of) == <<[kind |-> kind, at |-> at, of |-> of]>>
SlideTextRow(at, texts) == Row("text", at, texts)
SlideImageRow(at) == Row("image", <<at[1], at[2], -1, -1>>, at)
SlideTableRow(s, h) == Row("structured", <<s, -1, -1, -1>>, <<s, h, 0>>)
DocxTextRow(c, texts) == Row("text", <<IF file.depth = "page" THEN 0 ELSE -1, c, -1, -1>>, texts)
DocxImageRow(at) == Row("image", <<0, at[1], -1, -1>>, at)
ImageFileRow == Row("image", <<0, -1, -1, -1>>, <<1>>)
PageElementRow(page, of) == Row("structured", <<page, -1, -1, -1>>, of)
Mapped(s, Op(_)) == [i \in 1..Len(s) |-> Op(s[i])]

-----------------------------------------------------------------------------
\* ungroup_shapes, and the order in which python_pptx reads the shapes.
ungroup_shapes(slide) == FlattenSeq(slide)
SlideShapes(s) ==
  LET shapes == ungroup_shapes(file.body[s])
      Above(i) == {j \in 1..Len(shapes) : \/ shapes[j].top < shapes[i].top
                                          \/ shapes[j].top = shapes[i].top /\ j < i}
  IN [k \in 1..Len(shapes) |-> shapes[CHOOSE i \in 1..Len(shapes) : Cardinality(Above(i)) = k - 1]]

NotBlank(shape) == {k \in DOMAIN shape.paragraphs : shape.paragraphs[k] > 0}

\* The whole of a title again for each of its runs.
RunTexts_title_again(s, h, k) ==
  [r \in 1..SlideShapes(s)[h].paragraphs[k] |->
     IF file.markdown /\ SlideShapes(s)[h].role # "body" THEN <<s, h, 0, 0>> ELSE <<s, h, k, r>>]

\* The texts paragraph k adds: its runs, but the whole of a title or subtitle
\* when the shape's first run with text is met and nothing afterwards.
RunTexts(s, h, k) ==
  LET shape == SlideShapes(s)[h]
  IN IF file.markdown /\ shape.role # "body"
     THEN IF k \in NotBlank(shape) /\ (\A j \in NotBlank(shape) : k <= j) THEN <<<<s, h, 0, 0>>>> ELSE <<>>
     ELSE [r \in 1..shape.paragraphs[k] |-> <<s, h, k, r>>]

ShapeTexts(s, h) == FlattenSeq([k \in 1..Len(SlideShapes(s)[h].paragraphs) |-> RunTexts(s, h, k)])

\* The rows of a paragraph that is not blank; at LINE it has one even when it
\* adds no text.
ParagraphRows(s, h, k) ==
  IF file.depth = "span"
  THEN FlattenSeq([r \in 1..Len(RunTexts(s, h, k)) |-> SlideTextRow(<<s, h, k, r>>, <<RunTexts(s, h, k)[r]>>)])
  ELSE SlideTextRow(<<s, h, k, -1>>, RunTexts(s, h, k))

\* The rows of a shape for a depth below the slide.
ShapeRows(s, h) ==
  LET shape == SlideShapes(s)[h]
  IN IF "text" \notin file.asks \/ shape.paragraphs = <<>> THEN <<>>
     ELSE IF file.depth \in {"span", "line"}
     THEN FlattenSeq([k \in 1..Len(shape.paragraphs) |->
                        IF k \in NotBlank(shape) THEN ParagraphRows(s, h, k) ELSE <<>>])
     ELSE IF file.depth = "block" THEN SlideTextRow(<<s, h, -1, -1>>, ShapeTexts(s, h)) ELSE <<>>

OfficeInit == /\ file \in Files /\ part = <<1, 1>> /\ progress = "read"
              /\ accumulated_text = <<>> /\ pending_images = <<>> /\ extracted_data = <<>>

\* python_pptx, one shape of a slide.
ReadShape ==
  /\ progress = "read" /\ file.type = "pptx" /\ part[1] <= Len(file.body)
  /\ part[2] <= Len(SlideShapes(part[1]))
  /\ LET s == part[1]
         shape == SlideShapes(s)[part[2]]
         h == part[2]
     IN /\ accumulated_text' = IF "text" \in file.asks /\ file.depth \in {"page", "document"}
                               THEN accumulated_text \o ShapeTexts(s, h) ELSE <<>>
        /\ pending_images' = IF "image" \in file.asks /\ shape.pictures # <<>>
                             THEN Append(pending_images, [at |-> <<s, h>>, picture |-> shape.pictures[1]])
                             ELSE pending_images
        /\ extracted_data' = extracted_data \o ShapeRows(s, h)
             \o (IF "table" \in file.asks /\ shape.table THEN SlideTableRow(s, h) ELSE <<>>)
  /\ part' = <<part[1], part[2] + 1>>
  /\ UNCHANGED <<file, progress>>

\* python_pptx, the end of a slide.
FinishSlide ==
  /\ progress = "read" /\ file.type = "pptx" /\ part[1] <= Len(file.body)
  /\ part[2] > Len(SlideShapes(part[1]))
  /\ IF "text" \in file.asks /\ file.depth = "page" /\ accumulated_text # <<>>
     THEN extracted_data' = extracted_data \o SlideTextRow(<<part[1], -1, -1, -1>>, accumulated_text)
          /\ accumulated_text' = <<>>
     ELSE UNCHANGED <<extracted_data, accumulated_text>>
  /\ part' = <<part[1] + 1, 1>>
  /\ UNCHANGED <<file, pending_images, progress>>

-----------------------------------------------------------------------------
\* A link has an address; a picture of a run leaves a tag in the text.
HasText(item) == item.kind = "link" \/ ~item.blank \/ (item.kind = "run" /\ item.pictures # <<>>)

\* format_paragraph: items of one style are formatted together, and the last
\* group gets the style of the last item, which may be blank.
AddItem(acc, i, item) ==
  LET changes == HasText(item) /\ acc.previous \notin {"none", item.style}
  IN [texts |-> IF changes THEN acc.texts \o Mapped(acc.group, LAMBDA j : <<j, acc.previous>>) ELSE acc.texts,
      group |-> Append(IF changes THEN <<>> ELSE acc.group, i),
      previous |-> IF HasText(item) THEN item.style ELSE acc.previous,
      style |-> item.style]

format_paragraph(items) ==
  LET empty == [texts |-> <<>>, group |-> <<>>, previous |-> "none", style |-> "none"]
      read[i \in 0..Len(items)] ==
        IF i = 0 THEN empty
        ELSE IF items[i].kind = "other" THEN read[i - 1] ELSE AddItem(read[i - 1], i, items[i])
      all == read[Len(items)]
  IN Select(all.texts \o Mapped(all.group, LAMBDA j : <<j, all.style>>), LAMBDA t : HasText(items[t[1]]))

\* The pictures of a paragraph's runs; nobody looks for those of its links.
ParagraphPictures(c, items) ==
  FlattenSeq([i \in 1..Len(items) |->
    IF items[i].kind = "run" THEN [k \in 1..Len(items[i].pictures) |->
                                     [at |-> <<c, i, k>>, picture |-> items[i].pictures[k]]] ELSE <<>>])

ParagraphTexts(c, items) == Mapped(format_paragraph(items), LAMBDA t : <<c, t[1], t[2]>>)

\* DocxReader.extract_data, one child of the body.  The pictures of a table are
\* put into a list that nothing reads, its text into the row of the table.
ReadChild ==
  /\ progress = "read" /\ file.type = "docx" /\ part[1] <= Len(file.body)
  /\ LET c == part[1]
         child == file.body[c]
         texts == ParagraphTexts(c, child.items)
     IN IF child.kind = "table"
        THEN /\ extracted_data' = extracted_data
                  \o (IF Asks({"table", "chart"}) THEN PageElementRow(0, <<c, 0, 0>>) ELSE <<>>)
             /\ UNCHANGED <<accumulated_text, pending_images>>
        ELSE /\ extracted_data' = extracted_data
                  \o (IF Asks({"text"}) /\ file.depth = "block" THEN DocxTextRow(c, texts) ELSE <<>>)
             /\ accumulated_text' = IF Asks({"text"}) /\ file.depth # "block"
                                    THEN accumulated_text \o texts ELSE <<>>
             /\ pending_images' = IF Asks({"image", "table", "chart"})
                                  THEN pending_images \o ParagraphPictures(c, child.items) ELSE pending_images
  /\ part' = <<part[1] + 1, 1>>
  /\ UNCHANGED <<file, progress>>

-----------------------------------------------------------------------------
\* The row of the whole document, after the last slide or child; a document of
\* paragraphs has one even when all of them are empty.
FinishDocument ==
  /\ progress = "read" /\ file.type # "image" /\ part[1] > Len(file.body)
  /\ LET depths == IF file.type = "pptx" THEN {"document"} ELSE {"document", "page"}
         all == IF file.type = "pptx" THEN SlideTextRow(<<-1, -1, -1, -1>>, accumulated_text)
                ELSE DocxTextRow(-1, accumulated_text)
         some == IF file.type = "pptx" THEN accumulated_text # <<>>
                 ELSE \E c \in DOMAIN file.body : file.body[c].kind = "paragraph"
     IN extracted_data' = IF Asks({"text"}) /\ file.depth \in depths /\ some
                          THEN extracted_data \o all ELSE extracted_data
  /\ progress' = "images"
  /\ UNCHANGED <<file, part, accumulated_text, pending_images>>

\* extract_page_elements_from_images: what is found in the pictures, with the
\* number of its picture among those that were sent; tables come first.
extract_page_elements_from_images(pictures) ==
  FlattenSeq([i \in 1..Len(pictures) |-> FlattenSeq([l \in 1..2 |->
    FlattenSeq([d \in 1..Len(pictures[i].detected) |->
      IF pictures[i].detected[d] = <<"table", "chart">>[l] THEN <<[of |-> i, element |-> d]>> ELSE <<>>])])])

\* The places are remembered before the pictures are loaded.
Contexts_too_early == Mapped(pending_images, LAMBDA p : p.at)

\* The pictures python_pptx sends, and the places it remembers for them: those
\* that cannot be loaded are in neither list.
Arrays == Mapped(Select(pending_images, LAMBDA p : p.picture.loads), LAMBDA p : p.picture)
Contexts == Mapped(Select(pending_images, LAMBDA p : p.picture.loads), LAMBDA p : p.at)

\* _finalize_images: elements found in a picture stand for it, a picture in
\* which nothing is found has a row itself.
PictureRows(places, detection) ==
  FlattenSeq([i \in 1..Len(places) |->
    LET found == Select(detection, LAMBDA d : d.of = i)
    IN IF found = <<>> THEN IF file.type = "pptx" THEN SlideImageRow(places[i]) ELSE DocxImageRow(places[i])
       ELSE FlattenSeq(Mapped(found, LAMBDA d :
              PageElementRow(IF file.type = "pptx" THEN places[i][1] ELSE 0, Append(places[i], d.element))))])

\* A failed detection leaves the pictures as they are; a picture that cannot be
\* loaded fails a document of paragraphs.
FinalizeImages ==
  /\ progress = "images"
  /\ IF file.type = "docx" /\ \E p \in ToSet(pending_images) : ~p.picture.loads
     THEN progress' = "failed" /\ UNCHANGED extracted_data
     ELSE /\ progress' = "done"
          /\ \E raised \in {FALSE, file.raises} :
               extracted_data' = extracted_data \o
                 PictureRows(Contexts, IF Asks({"table", "chart"}) /\ ~raised
                                       THEN extract_page_elements_from_images(Arrays) ELSE <<>>)
  /\ UNCHANGED <<file, part, accumulated_text, pending_images>>

\* image_data_extractor: a picture in which something is found has no row of
\* its own, and a failed detection or picture fails the file.
ReadImage ==
  /\ progress = "read" /\ file.type = "image"
  /\ LET found == IF Asks({"table", "chart", "infographic"})
                  THEN extract_page_elements_from_images(<<file.body>>) ELSE <<>>
     IN \/ /\ file.body.loads
           /\ extracted_data' = IF found = <<>> /\ Asks({"image"}) THEN ImageFileRow
                                ELSE FlattenSeq(Mapped(found, LAMBDA d : PageElementRow(0, <<1, d.element>>)))
           /\ progress' = "done"
        \/ /\ ~file.body.loads \/ (file.raises /\ Asks({"table", "chart", "infographic"}))
           /\ progress' = "failed" /\ UNCHANGED extracted_data
  /\ UNCHANGED <<file, part, accumulated_text, pending_images>>

OfficeNext == ReadShape \/ FinishSlide \/ ReadChild \/ FinishDocument \/ FinalizeImages \/ ReadImage
OfficeSpec == OfficeInit /\ [][OfficeNext]_officeVars

-----------------------------------------------------------------------------
\* The texts of a shape: those of a title or subtitle count as one.
TextsOf(s, h) ==
  LET shape == SlideShapes(s)[h]
  IN IF NotBlank(shape) = {} THEN <<>>
     ELSE IF file.markdown /\ shape.role # "body" THEN <<<<s, h, 0, 0>>>>
     ELSE FlattenSeq([k \in 1..Len(shape.paragraphs) |->
            [r \in 1..shape.paragraphs[k] |-> <<s, h, k, r>>]])

\* The texts of the shapes, or of the paragraphs, in reading order.
AllTexts ==
  IF file.type = "pptx"
  THEN FlattenSeq([s \in 1..Len(file.body) |->
         FlattenSeq([h \in 1..Len(SlideShapes(s)) |-> TextsOf(s, h)])])
  ELSE FlattenSeq([c \in 1..Len(file.body) |->
         IF file.body[c].kind = "table" THEN <<>>
         ELSE FlattenSeq([i \in 1..Len(file.body[c].items) |->
           IF file.body[c].items[i].kind # "other" /\ HasText(file.body[c].items[i]) THEN <<<<c, i>>>> ELSE <<>>])])

\* The text is where the row says; a title is a text of its whole shape.
Within(text, at) ==
  IF file.type = "pptx" THEN \A i \in 1..4 : at[i] = -1 \/ text[i] \in {at[i], 0}
  ELSE at[2] = -1 \/ text[1] = at[2]
Depths == <<"document", "page", "block", "line", "span">>

\* Every run of a presentation, and every item with text of the paragraphs of a
\* document, is in the text rows once and in order, and each row says where its
\* texts are, as exactly as the depth says.  At the depths "line" and "span" a
\* document has no text rows at all: its texts are collected and never given out.
TextsReadOnce ==
  progress = "done" /\ "text" \in file.asks /\ file.type # "image" =>
    LET read == FlattenSeq([i \in 1..Len(extracted_data) |->
                  IF extracted_data[i].kind = "text" THEN extracted_data[i].of ELSE <<>>])
    IN /\ IF file.type = "docx" /\ file.depth \in {"line", "span"}
          THEN \A r \in ToSet(extracted_data) : r.kind # "text"
          ELSE (IF file.type = "pptx" THEN read ELSE Mapped(read, LAMBDA t : <<t[1], t[2]>>)) = AllTexts
       /\ \A r \in ToSet(extracted_data) : r.kind = "text" =>
            /\ \A t \in ToSet(r.of) : Within(t, r.at)
            /\ file.type = "pptx" => \A i \in 1..4 : r.at[i] # -1 <=> \E d \in (i + 1)..5 : Depths[d] = file.depth

\* The pictures of the file, wherever they are.
AllPictures ==
  IF file.type = "pptx"
  THEN UNION {UNION {{[at |-> <<s, h>>, picture |-> q] : q \in ToSet(SlideShapes(s)[h].pictures)} :
                h \in DOMAIN SlideShapes(s)} : s \in DOMAIN file.body}
  ELSE UNION {UNION {{[at |-> <<c, i, k>>, picture |-> file.body[c].items[i].pictures[k]] :
                        k \in DOMAIN file.body[c].items[i].pictures} :
                i \in DOMAIN file.body[c].items} : c \in DOMAIN file.body}

\* A picture in a table or a link of a document.
NotLookedFor(p) == /\ file.type = "docx"
                   /\ \/ file.body[p.at[1]].kind = "table"
                      \/ file.body[p.at[1]].items[p.at[2]].kind # "run"

\* If the task asks for pictures, every one that can be loaded is kept once, as
\* itself or as exactly the tables and charts that were found in it, but for
\* those in the tables and links of a document, which are lost; and nothing else
\* becomes a row of a picture.
PicturesKeptOnce ==
  progress = "done" /\ file.type # "image" =>
    LET others == Select(extracted_data, LAMBDA r : r.kind # "text")
        rows == ToSet(others)
        asked == Asks(IF file.type = "pptx" THEN {"image"} ELSE {"image", "table", "chart"})
        kept == {p \in AllPictures : asked /\ p.picture.loads /\ ~NotLookedFor(p)}
        Found(p) == {Append(p.at, d) : d \in {d \in DOMAIN p.picture.detected : p.picture.detected[d] # "other"}}
        Itself(p) == (IF file.type = "pptx" THEN SlideImageRow(p.at) ELSE DocxImageRow(p.at))[1]
        Elements(p) == {r \in rows : r.kind = "structured" /\ r.of \in Found(p)}
    IN /\ Cardinality(rows) = Len(others)
       /\ \A p \in kept : IF Itself(p) \in rows THEN Elements(p) = {}
                          ELSE {r.of : r \in Elements(p)} = Found(p) /\ Found(p) # {}
       /\ \A r \in rows : r.of[Len(r.of)] = 0 \/ \E p \in kept : r = Itself(p) \/ r.of \in Found(p)
=============================================================================
