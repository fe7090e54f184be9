------------------------------ MODULE PageCrops -------------------------------
(* Where extract_image_like_objects_from_pdfium_page cuts pictures out of a   *)
(* PDF page: boxes of image, path and form objects that lie close together    *)
(* are merged, and the page's bitmap is cropped at what is left.  A box is    *)
(* <<x min, y min, x max, y max>>; coordinates are small whole numbers.       *)
EXTENDS Integers, Sequences, FiniteSets, SequencesExt, FiniteSetsExt

CONSTANTS Sheets,              \* pages: [width, height, images, paths, forms], boxes as PDF has them
          threshold,           \* boxes this far apart are close
          max_num_boxes,       \* more boxes of one kind are not grouped at all
          min_num_components,  \* a drawing has at least so many paths
          min_size             \* smaller crops are left out

VARIABLES sheet, crops, cut
cropVars == <<sheet, crops, cut>>

AtLeast(a, b) == IF a > b THEN a ELSE b
AtMost(a, b) == IF a < b THEN a ELSE b

\* PDF coordinates grow upwards from the bottom of the page.
convert_pdfium_position(pos, w, h) ==
  <<AtLeast(0, pos[1]), AtLeast(0, h - pos[4]), AtMost(w, pos[3]), AtMost(h, h - pos[2])>>

boxes_are_close_or_overlap(a, b) ==
  \A k \in {1, 2} : ~(a[k + 2] + threshold < b[k] - threshold \/ b[k + 2] + threshold < a[k] - threshold)

\* An edge kept at its first end only.
Adjacent_one_way(boxes, i) == {j \in DOMAIN boxes : i < j /\ boxes_are_close_or_overlap(boxes[i], boxes[j])}

\* adjacency_list of a box.
Adjacent(boxes, i) == {j \in DOMAIN boxes \ {i} : boxes_are_close_or_overlap(boxes[i], boxes[j])}

\* What a depth-first search from box i reaches.
dfs(boxes, i) ==
  FoldLeft(LAMBDA S, b : S \cup UNION {Adjacent(boxes, j) : j \in S}, {i}, boxes)

\* A search starts at each box no earlier search has visited.
group_bounding_boxes(boxes) ==
  IF Len(boxes) > max_num_boxes THEN {}
  ELSE FoldLeft(LAMBDA groups, i : IF i \in UNION groups THEN groups
                                   ELSE groups \cup {dfs(boxes, i) \ UNION groups},
                {}, [i \in 1..Len(boxes) |-> i])

Around(boxes, group) ==
  <<Min({boxes[i][1] : i \in group}), Min({boxes[i][2] : i \in group}),
    Max({boxes[i][3] : i \in group}), Max({boxes[i][4] : i \in group})>>

\* The order of the groups is that of their first boxes.
combine_groups_into_bboxes(boxes, groups, least) ==
  LET kept == {group \in groups : Cardinality(group) >= least}
      firsts == SetToSortSeq({Min(group) : group \in kept}, <)
  IN [k \in 1..Len(firsts) |-> Around(boxes, CHOOSE group \in kept : Min(group) = firsts[k])]

Merged(boxes, least) == combine_groups_into_bboxes(boxes, group_bounding_boxes(boxes), least)

Area(box) == (box[3] - box[1]) * (box[4] - box[2])
SmallOf(boxes, page) == SelectSeq(boxes, LAMBDA b : 2 * Area(b) <= page.width * page.height)

Encloses(a, b) == a[1] <= b[1] /\ a[2] <= b[2] /\ a[3] >= b[3] /\ a[4] >= b[4]

\* Boxes around another box go, and so do both of two equal ones.
remove_superset_bboxes(boxes) ==
  LET kept == SelectSeq([i \in 1..Len(boxes) |-> i],
                        LAMBDA i : \A j \in 1..Len(boxes) \ {i} : ~Encloses(boxes[i], boxes[j]))
  IN [k \in 1..Len(kept) |-> boxes[kept[k]]]

Placed(page, positions) ==
  [i \in 1..Len(positions) |-> convert_pdfium_position(positions[i], page.width, page.height)]

extract_merged_images(page) == Merged(Placed(page, page.images), 1)
extract_merged_shapes(page) == SmallOf(Merged(Placed(page, page.paths), min_num_components), page)
extract_forms(page) == remove_superset_bboxes(SmallOf(Merged(Placed(page, page.forms), 1), page))

\* crop_image cuts what is on the page, and nothing smaller than min_size.
crop_image(page, box) ==
  LET w == AtMost(box[3], page.width) - AtLeast(box[1], 0)
      h == AtMost(box[4], page.height) - AtLeast(box[2], 0)
  IN w >= min_size /\ h >= min_size

extract_image_like_objects(page) ==
  SelectSeq(extract_merged_images(page) \o extract_merged_shapes(page) \o extract_forms(page),
            LAMBDA box : crop_image(page, box))

CropsInit == sheet \in Sheets /\ crops = <<>> /\ cut = FALSE
CutOut == ~cut /\ crops' = extract_image_like_objects(sheet) /\ cut' = TRUE /\ UNCHANGED sheet
CropsNext == CutOut

-----------------------------------------------------------------------------
On(box) == \E c \in ToSet(crops) : Encloses(c, box)

\* On a page without too many images no image that is large enough is lost or
\* torn: it lies in a crop, together with every image close to it.  Of the
\* groups of forms, each that is large enough, and covers less of the page than
\* the limit, has a crop of a form in its place; it is lost only where a group
\* that lies within it is too small to be cut, for that one removes it first
\* (remove_superset_bboxes) and is then left out itself (crop_image).
NoPictureTorn ==
  cut => LET images == Placed(sheet, sheet.images)
             forms == Placed(sheet, sheet.forms)
         IN /\ Len(images) <= max_num_boxes =>
                 \A i, j \in DOMAIN images :
                   /\ boxes_are_close_or_overlap(images[i], images[j])
                   /\ crop_image(sheet, images[i])
                   => \E c \in ToSet(crops) : Encloses(c, images[i]) /\ Encloses(c, images[j])
            /\ Len(forms) <= max_num_boxes =>
                 \A group \in group_bounding_boxes(forms) :
                   LET box == Around(forms, group)
                       within == {b \in {Around(forms, g) : g \in group_bounding_boxes(forms)} : Encloses(box, b)}
                   IN 2 * Area(box) <= sheet.width * sheet.height /\ crop_image(sheet, box)
                      => \/ ToSet(crops) \cap within # {}
                         \/ \E b \in within : ~crop_image(sheet, b)
=============================================================================
