----------------------------- MODULE TableLayout -----------------------------
(***************************************************************************)
(* How the texts an OCR model reads in the image of a table become the     *)
(* table's content: by the structure another model sees in the image, or   *)
(* by lines alone. A text is its number. Where it lies is given: the cell  *)
(* it overlaps most, the rows and columns that box overlaps, and its line. *)
(***************************************************************************)
EXTENDS Integers, Sequences, FiniteSets, FiniteSetsExt, SequencesExt, Selections

CONSTANT Images  \* [format, texts, cell, rows, columns, line]

\* Rows and columns are numbered, and so are the pixels of an image from its top.
IsImage(i) ==
  /\ i.format \in {"structure", "lines"} /\ i.texts \in Nat
  /\ i.cell \in [1..i.texts -> Nat] /\ i.line \in [1..i.texts -> Nat]
  /\ \A t \in 1..i.texts :
       LET spot == IF i.cell[t] = 0 THEN <<"text", t>> ELSE <<"cell", i.cell[t]>>
       IN /\ i.rows[spot] \subseteq Nat /\ IsFiniteSet(i.rows[spot])
          /\ i.columns[spot] \subseteq Nat /\ IsFiniteSet(i.columns[spot])

ASSUME LayoutAssumption == \A i \in Images : IsImage(i)

VARIABLES
  image,       \* cell: of a text, 0 if none; rows and columns: of <<"cell", c>>,
               \* and of <<"text", t>> for a text in no cell; line: the y of a text
  assignments, \* the texts of each cell and those in no cell
  content      \* the lines of the result, each the texts in it; <<>> before

layoutVars == <<image, assignments, content>>

Texts == 1..image.texts
Ys == {image.line[t] : t \in Texts}

-----------------------------------------------------------------------------
(* The structured form.                                                    *)

\* Mutant: of the texts in a cell the first is kept.
merge_text_in_cell_first(texts) == <<Head(texts)>>

\* The texts of a cell, from top to bottom and left to right, are one entry.
merge_text_in_cell(texts) == texts

\* An entry is a cell with its texts or a single text in no cell, on the line of
\* its first text. It is part of the table when it is in some row and some column.
Entry(texts, spot) ==
  [texts |-> texts, rows |-> image.rows[spot], columns |-> image.columns[spot],
   line |-> image.line[Head(texts)]]
is_table(e) == e.rows # {} /\ e.columns # {}

\* The texts in no cell, and the cells with texts, in the order of their numbers.
Alone ==
  LET alone == InOrder({t \in Texts : image.cell[t] = 0})
  IN [i \in 1..Len(alone) |-> Entry(<<alone[i]>>, <<"text", alone[i]>>)]
InCells ==
  LET cells == InOrder({image.cell[t] : t \in Texts} \ {0})
      In(c) == InOrder({t \in Texts : image.cell[t] = c})
  IN [i \in 1..Len(cells) |->
       Entry(IF Len(In(cells[i])) > 1 THEN merge_text_in_cell(In(cells[i])) ELSE In(cells[i]), <<"cell", cells[i]>>)]

\* The loop over the texts, and the grouping by cell_id: -1 (no cell) sorts first.
Assign ==
  /\ assignments = <<>> /\ image.format = "structure"
  /\ assignments' = Alone \o InCells
  /\ UNCHANGED <<image, content>>

\* build_markdown and display_markdown: an entry's texts are appended in each of
\* its rows and columns, and rows and columns without a text are removed. A line
\* of the table is a row, read along its columns.
build_markdown(entries) ==
  LET rows == InOrder(UNION {entries[i].rows : i \in 1..Len(entries)})
      columns == InOrder(UNION {entries[i].columns : i \in 1..Len(entries)})
      Cell(r, c) == FlattenSeq([i \in 1..Len(entries) |->
                      IF r \in entries[i].rows /\ c \in entries[i].columns THEN entries[i].texts ELSE <<>>])
  IN [r \in 1..Len(rows) |-> FlattenSeq([c \in 1..Len(columns) |-> Cell(rows[r], columns[c])])]

\* The texts outside the table are joined by lines; the table comes after those on
\* the line of its middle, which may have none
\* (join_yolox_table_structure_and_paddle_output). The order within a line is left out.
OnLine(entries, y) ==
  FlattenSeq([i \in 1..Len(entries) |-> IF entries[i].line = y THEN entries[i].texts ELSE <<>>])
ByLine(table, others) ==
  LET ys == {table[i].line : i \in 1..Len(table)}
      middle == (Min(ys) + Max(ys)) \div 2
      lines == InOrder({others[i].line : i \in 1..Len(others)} \cup (IF table = <<>> THEN {} ELSE {middle}))
  IN FlattenSeq([k \in 1..Len(lines) |->
       (IF OnLine(others, lines[k]) = <<>> THEN <<>> ELSE <<OnLine(others, lines[k])>>)
       \o (IF table # <<>> /\ lines[k] = middle THEN build_markdown(table) ELSE <<>>)])

Display ==
  /\ assignments # <<>> /\ content = <<>>
  /\ content' = ByLine(Select(assignments, is_table), Select(assignments, LAMBDA e : ~is_table(e)))
  /\ UNCHANGED <<image, assignments>>

-----------------------------------------------------------------------------
(* The simple form.                                                        *)

\* DBSCAN with one sample: texts are on one line if a chain of texts, each within
\* eps (here 1) of the one before, leads from one to the other.
SameLine(y, z) == \A m \in y..z : m \in Ys

\* convert_paddle_response_to_psuedo_markdown: every line from left to right.
Lines ==
  LET starts == InOrder({y \in Ys : \A z \in Ys : z + 1 # y})
  IN [k \in 1..Len(starts) |->
       InOrder({t \in Texts : image.line[t] >= starts[k] /\ SameLine(starts[k], image.line[t])})]
PseudoMarkdown ==
  /\ content = <<>> /\ image.format = "lines"
  /\ content' = Lines
  /\ UNCHANGED <<image, assignments>>

LayoutInit == image \in Images /\ assignments = <<>> /\ content = <<>>
LayoutNext == Assign \/ Display \/ PseudoMarkdown
LayoutSpec == LayoutInit /\ [][LayoutNext]_layoutVars

-----------------------------------------------------------------------------
(* Property.                                                               *)

\* Every text read in the image is in the content, whatever cells, rows and
\* columns it was found to overlap, and a text outside the table is in it once.
TextsShown ==
  content # <<>> =>
    LET shown == FlattenSeq(content) IN
    \A t \in Texts :
      /\ \E i \in DOMAIN shown : shown[i] = t
      /\ (\A i \in DOMAIN assignments : t \in Range(assignments[i].texts) => ~is_table(assignments[i]))
         => Cardinality({i \in DOMAIN shown : shown[i] = t}) = 1
=============================================================================
