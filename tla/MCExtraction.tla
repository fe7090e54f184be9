----------------------------- MODULE MCExtraction -----------------------------
(* Small instances for TLC of the modules about extraction from documents and *)
(* about the NIMs it calls, in one run: a behaviour                           *)
(* is one of one of the modules, while the machines of the others are at rest *)
(* in a state in which they have nothing to do.                               *)
EXTENDS PdfExtraction, OfficeExtraction, PageCrops, NimInference, NimMetadata, BoxFusion, TableLayout

V1 == {"table", "chart", "title"}
V2 == V1 \cup {"infographic"}

NimCall(interface, protocol, n, limit, requested, force) ==
  [interface |-> interface, protocol |-> protocol, n |-> n,
   config |-> "answered", limit |-> limit,
   requested |-> requested, force |-> force, labels |-> V2, served |-> V2]

\* Every interface over both protocols, limits that cut the inputs evenly and not,
\* a server that limits and a caller that does; a model of another version.
AllCalls ==
  {NimCall(i, p, n, l, r, f) : i \in {"page", "ocr"}, p \in {"grpc", "http"}, n \in {0, 3, 5},
                               l \in {2, 4}, r \in {0, 3}, f \in {FALSE}}
  \cup {NimCall(i, p, n, 2, r, TRUE) : i \in {"caption", "embedding", "deplot", "cached", "parse"},
                               p \in {"grpc", "http"}, n \in {0, 3}, r \in {1, 3}}
  \cup {[NimCall("page", "http", 2, 2, 0, FALSE) EXCEPT !.labels = V1],
         [NimCall("ocr", "http", 2, 4, 2, FALSE) EXCEPT !.config = "refused"]}
  \cup {[NimCall(i, "http", n, 2, r, f) EXCEPT !.config = "none"] :
           i \in {"page", "ocr", "caption", "deplot"}, n \in {0, 3}, r \in {0, 2}, f \in BOOLEAN}

Pairs(n) == {S \in SUBSET (1..n) : Cardinality(S) = 2}

\* Four charts that overlap in every way, and three charts with two titles.
AllPages ==
  {[charts |-> 4, titles |-> 2, overlap |-> o, near |-> [S \in Pairs(2) |-> k],
    distance |-> [c \in 1..4 |-> [t \in 1..2 |-> 3]]] : o \in [Pairs(4) -> 0..3], k \in {0, 1}}
  \cup {[charts |-> 3, titles |-> 2, overlap |-> [S \in Pairs(3) |-> 0], near |-> [S \in Pairs(2) |-> 0],
         distance |-> d] : d \in [1..3 -> [1..2 -> 0..3]]}

Spots == {<<"cell", 1>>} \cup {<<"text", t>> : t \in 1..3}
Places == {[rows |-> {}, columns |-> {0}], [rows |-> {0}, columns |-> {0}],
           [rows |-> {0, 1}, columns |-> {0}], [rows |-> {1}, columns |-> {0, 1}]}

\* Three texts, each in the cell or not, in all rows and columns, on all lines.
AllImages ==
  {[format |-> "structure", texts |-> 3, cell |-> c, line |-> l,
    rows |-> [s \in Spots |-> p[s].rows], columns |-> [s \in Spots |-> p[s].columns]] :
       c \in [1..3 -> {0, 1}], l \in {<<0, 0, 1>>, <<2, 0, 0>>}, p \in [Spots -> Places]}
  \cup {[format |-> "lines", texts |-> 3, cell |-> [t \in 1..3 |-> 0], line |-> l,
         rows |-> [s \in Spots |-> {}], columns |-> [s \in Spots |-> {}]] : l \in [1..3 -> 0..3]}

Element(l, c) == [label |-> l, crops |-> c]
Block(c, b, k) == [class |-> c, blank |-> b, crops |-> k]

\* Pages with elements of every kind, an element whose crop is empty, a picture
\* of which no row can be made, blocks with and without text, and none of each.
PageKinds ==
  <<[elements |-> <<Element("chart", TRUE), Element("table", TRUE), Element("table", FALSE)>>,
     pictures |-> <<TRUE, FALSE>>,
     blocks |-> <<Block("Text", FALSE, TRUE), Block("Table", FALSE, TRUE),
                  Block("other", FALSE, TRUE), Block("Picture", TRUE, TRUE)>>],
    [elements |-> <<Element("infographic", TRUE)>>, pictures |-> <<>>,
     blocks |-> <<Block("Picture", TRUE, TRUE), Block("Picture", TRUE, FALSE)>>],
    [elements |-> <<>>, pictures |-> <<TRUE, TRUE>>, blocks |-> <<>>]>>

\* Documents with no page, and with pages for up to three batches of two.
PdfOf(m, n, t, i, w, d, r) ==
  [method |-> m, pages |-> [p \in 1..n |-> PageKinds[(p % 3) + 1]], text |-> t, images |-> i,
   wanted |-> w, depth |-> d, raises |-> r]
AllRequests ==
  {PdfOf(m, n, t, TRUE, w, d, FALSE) :
     m \in {"pdfium", "yolox", "parse"}, n \in {0, 3, 5}, t \in BOOLEAN,
     w \in {{}, {"table"}, {"table", "chart", "infographic"}}, d \in {"page", "document", "span"}}
  \cup {PdfOf(m, 4, TRUE, FALSE, {"table"}, "page", TRUE) : m \in {"pdfium", "yolox"}}

\* Sheets with up to three boxes of one kind, which touch, overlap, lie within
\* each other or apart.
Boxes == {<<x, y, x + w, y + w>> : x \in {0, 2, 5}, y \in {0, 3}, w \in {1, 4}}
UpToThree == UNION {[1..k -> Boxes] : k \in 0..3}
\* A form within the corner that two others make: too small, large enough, or
\* close to one of them.
InTheCorner == {<<x, y, x + w, y + w>> : x \in {2, 3}, y \in {1, 2}, w \in {1, 2}} \cup {<<1, 2, 3, 4>>}
SheetOf(i, p, f) == [width |-> 8, height |-> 8, images |-> i, paths |-> p, forms |-> f]
AllSheets == {SheetOf(i, <<>>, <<>>) : i \in UpToThree} \cup {SheetOf(<<>>, <<>>, f) : f \in UpToThree}
               \cup {SheetOf(<<i>>, p, <<>>) : i \in Boxes, p \in [1..2 -> Boxes]}
               \cup {SheetOf(<<>>, <<>>, <<<<0, 0, 1, 5>>, <<0, 5, 5, 6>>, f>>) : f \in InTheCorner}

\* Pictures in which nothing is found, that cannot be loaded, with elements.
Picture(l, d) == [loads |-> l, detected |-> d]
Pictures == {Picture(TRUE, <<>>), Picture(FALSE, <<"table">>), Picture(TRUE, <<"chart", "table", "other">>)}
Shape(t, r, p, q, table) == [top |-> t, role |-> r, paragraphs |-> p, pictures |-> q, table |-> table]

\* Slides with a group, a title over two paragraphs, blank paragraphs, a table.
FirstSlide(p, q) ==
  <<<<Shape(4, "body", <<>>, <<p>>, FALSE), Shape(1, "title", <<0, 2, 1>>, <<>>, FALSE)>>,
    <<Shape(3, "body", <<2, 0, 1>>, <<>>, FALSE)>>, <<Shape(2, "body", <<>>, <<q>>, FALSE)>>>>
BlankSlide == <<<<Shape(1, "body", <<0>>, <<>>, FALSE)>>>>
LastSlide(q) ==
  <<<<Shape(2, "body", <<1>>, <<>>, FALSE), Shape(1, "body", <<>>, <<>>, TRUE), Shape(3, "body", <<>>, <<q>>, FALSE)>>>>

Item(k, s, b, p) == [kind |-> k, style |-> s, blank |-> b, pictures |-> p]
Items == {Item("run", s, b, <<>>) : s \in {"plain", "bold"}, b \in BOOLEAN}
           \cup {Item("link", "plain", FALSE, <<Picture(TRUE, <<"chart">>)>>), Item("other", "plain", FALSE, <<>>)}
Paragraph(items) == [kind |-> "paragraph", items |-> items]

\* Three items in every combination, a table with a text and a picture, an empty
\* paragraph, two pictures.
Body(x, y, z, p) ==
  <<Paragraph(<<x, y, z>>), [kind |-> "table", items |-> <<Item("run", "plain", FALSE, <<p>>)>>], Paragraph(<<>>),
    Paragraph(<<Item("run", "plain", TRUE, <<p, Picture(TRUE, <<"table">>)>>), Item("run", "bold", FALSE, <<>>)>>)>>

AskedKinds == {{"text"}, {"image"}, {"text", "image", "table"}, {"text", "image", "table", "chart"}}
FileOf(t, b, a, d, m, r) == [type |-> t, body |-> b, asks |-> a, depth |-> d, markdown |-> m, raises |-> r]
AllFiles ==
  {FileOf("pptx", <<FirstSlide(p, q), BlankSlide, LastSlide(q)>>, a, d, m, r) :
     p \in Pictures, q \in Pictures, a \in AskedKinds,
     d \in {"span", "line", "block", "page", "document"}, m \in BOOLEAN, r \in BOOLEAN}
  \cup {FileOf("docx", Body(x, y, z, p), a, d, TRUE, FALSE) :
     x \in Items, y \in Items, z \in Items, p \in Pictures, a \in AskedKinds, d \in {"span", "line", "block", "page", "document"}}
  \cup {FileOf("image", p, a, "page", TRUE, r) : p \in Pictures, a \in AskedKinds, r \in BOOLEAN}

-----------------------------------------------------------------------------
NimRest == /\ call = NimCall("page", "grpc", 0, 2, 0, FALSE) /\ pc = "done"
           /\ batches = <<>> /\ request = <<>> /\ all_results = <<>>
MetadataRest == /\ up = TRUE /\ global_cache = [f \in Asking |-> "absent"]
                /\ call_count = [f \in Asking |-> 0]
                /\ asked = [w \in Workers |-> [Idle EXCEPT !.at = "rest"]]
                /\ believed = [w \in Workers |-> "v2"]
FusionRest == page = [charts |-> 0] /\ fused = <<>> /\ found = <<>>
LayoutRest == image = [format |-> "rest"] /\ assignments = <<>> /\ content = <<>>

PdfRest == /\ pdf = PdfOf("pdfium", 0, FALSE, FALSE, {}, "page", FALSE) /\ page_idx = 1 /\ stage = "done"
           /\ pages_for_tables = <<>> /\ pages_for_ocr = <<>> /\ futures = <<>>
           /\ parser_results = <<>> /\ accumulated_pages = <<>> /\ extracted_pages = <<>>
OfficeRest == /\ file = FileOf("image", Picture(TRUE, <<>>), {}, "page", TRUE, FALSE)
              /\ part = <<1, 1>> /\ progress = "done"
              /\ accumulated_text = <<>> /\ pending_images = <<>> /\ extracted_data = <<>>
CropsRest == sheet = SheetOf(<<>>, <<>>, <<>>) /\ crops = <<>> /\ cut = TRUE

OtherNimsRest == MetadataRest /\ FusionRest /\ LayoutRest
DocumentsRest == PdfRest /\ OfficeRest /\ CropsRest
documentVars == <<pdfVars, officeVars, cropVars>>

MCInit == \/ NimInit /\ OtherNimsRest /\ DocumentsRest
          \/ NimRest /\ MetadataInit /\ FusionRest /\ LayoutRest /\ DocumentsRest
          \/ NimRest /\ MetadataRest /\ FusionInit /\ LayoutRest /\ DocumentsRest
          \/ NimRest /\ MetadataRest /\ FusionRest /\ LayoutInit /\ DocumentsRest
          \/ NimRest /\ OtherNimsRest /\ PdfInit /\ OfficeRest /\ CropsRest
          \/ NimRest /\ OtherNimsRest /\ PdfRest /\ OfficeInit /\ CropsRest
          \/ NimRest /\ OtherNimsRest /\ PdfRest /\ OfficeRest /\ CropsInit

MCNext == \/ NimNext /\ UNCHANGED <<metadataVars, fusionVars, layoutVars, documentVars>>
          \/ \E w \in Workers : asked[w].at # "rest" /\ MetadataNext
                /\ UNCHANGED <<nimVars, fusionVars, layoutVars, documentVars>>
          \/ FusionNext /\ UNCHANGED <<nimVars, metadataVars, layoutVars, documentVars>>
          \/ LayoutNext /\ UNCHANGED <<nimVars, metadataVars, fusionVars, documentVars>>
          \/ PdfNext /\ UNCHANGED <<nimVars, metadataVars, fusionVars, layoutVars, officeVars, cropVars>>
          \/ OfficeNext /\ UNCHANGED <<nimVars, metadataVars, fusionVars, layoutVars, pdfVars, cropVars>>
          \/ CropsNext /\ UNCHANGED <<nimVars, metadataVars, fusionVars, layoutVars, pdfVars, officeVars>>

MCSpec == MCInit /\ [][MCNext]_<<nimVars, metadataVars, fusionVars, layoutVars, documentVars>>
            /\ NimFairness /\ MetadataFairness
=============================================================================
