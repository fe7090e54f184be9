---------------------------- MODULE PdfExtraction ----------------------------
(* What one PDF becomes in pdfium_extractor and in nemoretriever_parse: the   *)
(* loop over the pages, the batches of page images it gives to a pool of      *)
(* threads, and the rows it makes of what those threads return.  Of a page    *)
(* the model keeps the tables, charts and infographics a NIM finds on it      *)
(* ("elements", with whether the crop is not empty), the crops pdfium makes   *)
(* of its pictures ("pictures", with whether a row can be made of it) and the *)
(* blocks nemoretriever-parse answers with ("blocks").                        *)
EXTENDS Integers, Sequences, FiniteSets, SequencesExt, Selections

CONSTANTS Requests,                            \* the documents with their task properties
          YOLOX_MAX_BATCH_SIZE,
          NEMORETRIEVER_PARSE_MAX_BATCH_SIZE,
          workers_per_progress_engine          \* threads of the pool

\* A page, and the options of a task.  The method is pdfium_extractor, or
\* nemoretriever_parse with the tables of the page-elements NIM ("yolox") or
\* with those of its own answers ("parse").
PageSet == [elements : Seq([label : STRING, crops : BOOLEAN]), pictures : Seq(BOOLEAN),
            blocks : Seq([class : STRING, blank : BOOLEAN, crops : BOOLEAN])]
IsRequest(r) ==
  /\ r.method \in {"pdfium", "yolox", "parse"} /\ r.pages \in Seq(PageSet)
  /\ {r.text, r.images, r.raises} \subseteq BOOLEAN
  /\ r.wanted \subseteq {"table", "chart", "infographic"} /\ r.depth \in STRING

ASSUME PdfAssumption ==
  /\ \A r \in Requests : IsRequest(r)
  /\ YOLOX_MAX_BATCH_SIZE \in Nat \ {0} /\ NEMORETRIEVER_PARSE_MAX_BATCH_SIZE \in Nat \ {0}
  /\ workers_per_progress_engine \in Nat \ {0}

VARIABLES pdf,               \* the request being served
          page_idx,          \* the page the loop is at
          pages_for_tables, pages_for_ocr,
          futures,           \* calls given to the pool: [model, pages, at, items]
          parser_results,    \* what nemoretriever-parse answered, in order of completion
          accumulated_pages,
          extracted_pages,   \* the rows
          stage              \* "pages" | "gather" | "assemble" | "done" | "failed"

pdfVars == <<pdf, page_idx, pages_for_tables, pages_for_ocr, futures, parser_results,
             accumulated_pages, extracted_pages, stage>>

PageCount == Len(pdf.pages)
Rows(s, Op(_)) == [i \in 1..Len(s) |-> Op(s[i])]
TextRow(p, pieces) == [kind |-> "text", page |-> p, of |-> pieces]
ElementRow(e) == [kind |-> "structured", page |-> e[1], of |-> e]
ImageRow(e) == [kind |-> "image", page |-> e[1], of |-> e]

\* The kinds of element the task asks for with extract_tables, extract_charts
\* and extract_infographics; with another method none is looked for here.
LooksForElements == pdf.method \in {"pdfium", "yolox"} /\ pdf.wanted # {}

\* extract_page_element_images, for each label in turn: boxes whose crop is not
\* empty, then the filter of _extract_page_elements on what the task wants.
Elements(p) ==
  FlattenSeq([l \in 1..3 |->
    Select([i \in 1..Len(pdf.pages[p].elements) |-> <<p, i>>],
       LAMBDA e : LET element == pdf.pages[p].elements[e[2]] IN
         /\ element.label = <<"table", "chart", "infographic">>[l]
         /\ element.crops /\ element.label \in pdf.wanted)])

\* The list itself is given to the thread, not a copy of it.
_extract_page_elements_uncopied(pages) == Rows(FlattenSeq(Rows(pages_for_tables, Elements)), ElementRow)

_extract_page_elements(pages) == Rows(FlattenSeq(Rows(pages, Elements)), ElementRow)

\* The answers stand beside the numbers of the pages that were sent.
_extract_text_and_bounding_boxes(pages) ==
  Rows(pages, LAMBDA p : [page |-> p, blocks |-> pdf.pages[p].blocks])

\* executor.submit with a copy of the list.
Future(model, pages) == [model |-> model, pages |-> pages, at |-> "submitted", items |-> <<>>]

\* A list is given to the pool when it is long enough, and emptied.
Submitted(model, pages, most) ==
  IF Len(pages) >= most /\ pages # <<>> THEN <<Future(model, pages)>> ELSE <<>>
Kept(pages, most) == IF Len(pages) >= most THEN <<>> ELSE pages

\* _extract_page_images: a crop of which no row can be made is left out.
_extract_page_images(p) ==
  Rows(Select([i \in 1..Len(pdf.pages[p].pictures) |-> <<p, i>>],
                 LAMBDA e : pdf.pages[p].pictures[e[2]]), ImageRow)

-----------------------------------------------------------------------------
PdfInit == /\ pdf \in Requests /\ page_idx = 1
           /\ pages_for_tables = <<>> /\ pages_for_ocr = <<>> /\ futures = <<>>
           /\ parser_results = <<>> /\ accumulated_pages = <<>> /\ extracted_pages = <<>>
           /\ stage = "pages"

\* pdfium_extractor, one page of the loop.
ReadPage ==
  /\ stage = "pages" /\ page_idx <= PageCount /\ pdf.method = "pdfium"
  /\ LET text == IF pdf.text /\ pdf.depth = "page" THEN <<TextRow(page_idx, <<<<page_idx, 0>>>>)>> ELSE <<>>
         images == IF pdf.images THEN _extract_page_images(page_idx) ELSE <<>>
         pages == IF LooksForElements THEN Append(pages_for_tables, page_idx) ELSE <<>>
     IN /\ extracted_pages' = extracted_pages \o text \o images
        /\ accumulated_pages' = IF pdf.text /\ pdf.depth # "page"
                               THEN Append(accumulated_pages, <<page_idx, 0>>) ELSE accumulated_pages
        /\ futures' = futures \o Submitted("yolox", pages, YOLOX_MAX_BATCH_SIZE)
        /\ pages_for_tables' = Kept(pages, YOLOX_MAX_BATCH_SIZE)
  /\ page_idx' = page_idx + 1
  /\ UNCHANGED <<pdf, pages_for_ocr, parser_results, stage>>

\* nemoretriever_parse, one page of the loop: its two lists grow whatever the
\* task wants, and are given to the pool only for what the task wants.
RenderPage ==
  /\ stage = "pages" /\ page_idx <= PageCount /\ pdf.method # "pdfium"
  /\ LET ocr == Append(pages_for_ocr, page_idx)
         tables == Append(pages_for_tables, page_idx)
         ocr_most == IF pdf.text THEN NEMORETRIEVER_PARSE_MAX_BATCH_SIZE ELSE PageCount + 1
         tables_most == IF LooksForElements THEN YOLOX_MAX_BATCH_SIZE ELSE PageCount + 1
     IN /\ futures' = futures \o Submitted("parser", ocr, ocr_most) \o Submitted("yolox", tables, tables_most)
        /\ pages_for_ocr' = Kept(ocr, ocr_most)
        /\ pages_for_tables' = Kept(tables, tables_most)
  /\ page_idx' = page_idx + 1
  /\ UNCHANGED <<pdf, parser_results, accumulated_pages, extracted_pages, stage>>

\* Both: the rest of the lists is given to the pool after the last page.
SubmitRest ==
  /\ stage = "pages" /\ page_idx > PageCount
  /\ futures' = futures \o (IF pdf.text THEN Submitted("parser", pages_for_ocr, 1) ELSE <<>>)
                        \o (IF LooksForElements THEN Submitted("yolox", pages_for_tables, 1) ELSE <<>>)
  /\ pages_for_ocr' = IF pdf.text THEN <<>> ELSE pages_for_ocr
  /\ pages_for_tables' = IF LooksForElements THEN <<>> ELSE pages_for_tables
  /\ stage' = "gather"
  /\ UNCHANGED <<pdf, page_idx, parser_results, accumulated_pages, extracted_pages>>

\* A thread takes the first call that waits, as long as the loop has not ended.
StartCall(i) ==
  /\ stage # "failed" /\ futures[i].at = "submitted"
  /\ \A j \in 1..(i - 1) : futures[j].at # "submitted"
  /\ Cardinality({j \in 1..Len(futures) : futures[j].at = "running"}) < workers_per_progress_engine
  /\ futures' = [futures EXCEPT ![i].at = "running"]
  /\ UNCHANGED <<pdf, page_idx, pages_for_tables, pages_for_ocr, parser_results,
                 accumulated_pages, extracted_pages, stage>>

\* The call ends, with its items or with an exception of the NIM client.
EndCall(i) ==
  /\ futures[i].at = "running"
  /\ \/ futures' = [futures EXCEPT ![i].at = "ended",
                      ![i].items = IF futures[i].model = "yolox"
                                   THEN _extract_page_elements(futures[i].pages)
                                   ELSE _extract_text_and_bounding_boxes(futures[i].pages)]
     \/ pdf.raises /\ futures' = [futures EXCEPT ![i].at = "raised"]
  /\ UNCHANGED <<pdf, page_idx, pages_for_tables, pages_for_ocr, parser_results,
                 accumulated_pages, extracted_pages, stage>>

\* as_completed yields the calls that have ended in whichever order; result()
\* raises what the call raised, and the whole document fails with it.
Gather(i) ==
  /\ stage = "gather" /\ futures[i].at \in {"ended", "raised"}
  /\ futures' = [futures EXCEPT ![i].at = "gathered"]
  /\ stage' = IF futures[i].at = "raised" THEN "failed" ELSE stage
  /\ extracted_pages' = IF futures[i].at = "ended" /\ futures[i].model = "yolox"
                       THEN extracted_pages \o futures[i].items ELSE extracted_pages
  /\ parser_results' = IF futures[i].at = "ended" /\ futures[i].model = "parser"
                       THEN parser_results \o futures[i].items ELSE parser_results
  /\ UNCHANGED <<pdf, page_idx, pages_for_tables, pages_for_ocr, accumulated_pages>>

GatheredAll ==
  /\ stage = "gather" /\ \A i \in 1..Len(futures) : futures[i].at = "gathered"
  /\ stage' = "assemble"
  /\ UNCHANGED <<pdf, page_idx, pages_for_tables, pages_for_ocr, futures, parser_results,
                 accumulated_pages, extracted_pages>>

\* The blocks of accepted classes; every one of them is text of the page.
Accepted(blocks) == Select([b \in 1..Len(blocks) |-> b], LAMBDA b : blocks[b].class # "other")
Of(p, blocks, class) ==
  Rows(Select(Accepted(blocks), LAMBDA b : blocks[b].class = class /\ (class = "Picture" => blocks[b].crops)),
       LAMBDA b : <<p, b>>)

\* A page none of whose blocks holds text has the text pdfium finds on it.
PageText(p, blocks) ==
  IF \A b \in ToSet(Accepted(blocks)) : blocks[b].blank THEN <<<<p, 0>>>>
  ELSE Rows(Accepted(blocks), LAMBDA b : <<p, b>>)

\* nemoretriever_parse, one page of parser_results.
AssemblePage ==
  /\ stage = "assemble" /\ parser_results # <<>>
  /\ LET p == Head(parser_results).page
         blocks == Head(parser_results).blocks
         text == accumulated_pages \o PageText(p, blocks)
     IN /\ extracted_pages' = extracted_pages
             \o (IF pdf.method = "parse" /\ "table" \in pdf.wanted
                 THEN Rows(Of(p, blocks, "Table"), ElementRow) ELSE <<>>)
             \o (IF pdf.images THEN Rows(Of(p, blocks, "Picture"), ImageRow) ELSE <<>>)
             \o (IF pdf.depth = "page" THEN <<TextRow(p, text)>> ELSE <<>>)
        /\ accumulated_pages' = IF pdf.depth = "page" THEN <<>> ELSE text
  /\ parser_results' = Tail(parser_results)
  /\ UNCHANGED <<pdf, page_idx, pages_for_tables, pages_for_ocr, futures, stage>>

\* Text of the whole document: pdfium_extractor takes every other depth for it,
\* and makes no row for a document without pages.
FinishText ==
  /\ stage = "assemble" /\ parser_results = <<>>
  /\ extracted_pages' =
       IF pdf.text /\ IF pdf.method = "pdfium" THEN pdf.depth # "page" /\ accumulated_pages # <<>>
                      ELSE pdf.depth = "document"
       THEN Append(extracted_pages, TextRow(-1, accumulated_pages)) ELSE extracted_pages
  /\ stage' = "done"
  /\ UNCHANGED <<pdf, page_idx, pages_for_tables, pages_for_ocr, futures, parser_results, accumulated_pages>>

PdfNext == \/ ReadPage \/ RenderPage \/ SubmitRest \/ GatheredAll \/ AssemblePage \/ FinishText
           \/ \E i \in 1..Len(futures) : StartCall(i) \/ EndCall(i) \/ Gather(i)

PdfSpec == PdfInit /\ [][PdfNext]_pdfVars

-----------------------------------------------------------------------------
OfKind(kind) == Select(extracted_pages, LAMBDA r : r.kind = kind)

\* Each of these rows is of its own page and no row is there twice.
ExactlyTheRows(kind, expected) ==
  /\ Len(OfKind(kind)) = Cardinality(expected)
  /\ {r.of : r \in ToSet(OfKind(kind))} = expected
  /\ \A r \in ToSet(OfKind(kind)) : r.page = r.of[1]

\* What the task asks for of a page: the elements a NIM finds on it, or what
\* nemoretriever-parse answers with where the text is read by it.
ElementsOn(p) ==
  IF pdf.method = "parse"
  THEN {b \in DOMAIN pdf.pages[p].blocks :
          pdf.text /\ "table" \in pdf.wanted /\ pdf.pages[p].blocks[b].class = "Table"}
  ELSE {i \in DOMAIN pdf.pages[p].elements :
          pdf.pages[p].elements[i].crops /\ pdf.pages[p].elements[i].label \in pdf.wanted}
ImagesOn(p) ==
  IF pdf.method = "pdfium" THEN {i \in DOMAIN pdf.pages[p].pictures : pdf.images /\ pdf.pages[p].pictures[i]}
  ELSE {b \in DOMAIN pdf.pages[p].blocks :
          /\ pdf.images /\ pdf.text
          /\ pdf.pages[p].blocks[b].class = "Picture" /\ pdf.pages[p].blocks[b].crops}

OnPages(pages, On(_)) == UNION {{<<p, i>> : i \in On(p)} : p \in pages}

TextOf(p) == IF pdf.method = "pdfium" THEN <<<<p, 0>>>> ELSE PageText(p, pdf.pages[p].blocks)

\* However the threads and the loop are interleaved, a document that does not
\* fail has each table, chart and infographic the task asks for in one row,
\* each picture in one row, and the text of each page once and unbroken; pages
\* are in order, except that nemoretriever-parse may be done with one batch of
\* pages before an earlier one.
PagesAreRead ==
  stage = "done" =>
    /\ ExactlyTheRows("structured", OnPages(1..PageCount, ElementsOn))
    /\ ExactlyTheRows("image", OnPages(1..PageCount, ImagesOn))
    /\ LET texts == OfKind("text")
           AllText == [p \in 1..PageCount |-> TextOf(p)]
           OneBatch == pdf.method = "pdfium" \/ PageCount <= NEMORETRIEVER_PARSE_MAX_BATCH_SIZE
       IN IF ~pdf.text \/ (pdf.method # "pdfium" /\ pdf.depth \notin {"page", "document"}) THEN texts = <<>>
          ELSE IF pdf.depth = "page"
          THEN /\ Len(texts) = PageCount
               /\ {r.page : r \in ToSet(texts)} = 1..PageCount
               /\ \A r \in ToSet(texts) : r.of = TextOf(r.page)
               /\ OneBatch => \A p \in 1..PageCount : texts[p].page = p
          ELSE IF PageCount = 0 THEN FlattenSeq(Rows(texts, LAMBDA r : r.of)) = <<>>
          ELSE /\ Len(texts) = 1
               /\ OneBatch => texts[1].of = FlattenSeq(AllText)
               /\ Len(texts[1].of) = Len(FlattenSeq(AllText))
               /\ \A p \in 1..PageCount : \E i \in 0..Len(texts[1].of) :
                    SubSeq(texts[1].of, i + 1, i + Len(TextOf(p))) = TextOf(p)
=============================================================================
