------------------------------ MODULE BoxFusion ------------------------------
(***************************************************************************)
(* What becomes of the boxes a page-elements model reports for one page:   *)
(* charts that overlap are fused, and so are titles, and every chart takes *)
(* the titles near it.                                                     *)
(*                                                                         *)
(* Coordinates are left out. A box is its place among the boxes of its     *)
(* class, best score first; what is kept of the geometry is how much two   *)
(* boxes overlap and how far a title is from a chart. The boxes are those  *)
(* prefilter_boxes leaves: it drops the ones without any area.             *)
(***************************************************************************)
EXTENDS Naturals, Sequences, FiniteSets, FiniteSetsExt, SequencesExt

CONSTANT Pages  \* what may be detected: [charts, titles, overlap, near, distance]

ASSUME FusionAssumption == \A p \in Pages : p.charts \in Nat /\ p.titles \in Nat

VARIABLES
  page,      \* overlap of two charts, near of two titles: 0 is below the threshold;
             \* distance of fused chart and title: 0 they overlap, 3 too far
  fused,     \* of each class, its clusters; <<>> before
  found      \* of each cluster of charts, the clusters of titles it took; <<>> before

fusionVars == <<page, fused, found>>

-----------------------------------------------------------------------------
(* Fusing.                                                                 *)

\* find_matching_box_fast: the other box with the largest overlap, the first of
\* them, if it is above the threshold; 0 if there is none.
find_matching_box(n, overlap, j) ==
  LET others == 1..n \ {j}
      best == {i \in others : /\ overlap[{i, j}] > 0
                              /\ \A k \in others : overlap[{k, j}] <= overlap[{i, j}]}
  IN IF best = {} THEN 0 ELSE Min(best)

\* One round of the clustering: the first cluster with either box takes both.
\* Another cluster may have one of them already, and keeps it.
Joined(clusters, j, index) ==
  LET with == {c \in DOMAIN clusters : {j, index} \cap clusters[c] # {}} IN
  IF index = 0 THEN Append(clusters, {j})
  ELSE IF with = {} THEN Append(clusters, {j, index})
  ELSE [clusters EXCEPT ![Min(with)] = @ \cup {j, index}]

\* A cluster becomes the box around its members, with the best of their scores
\* (get_biggest_box), and the boxes are sorted by it, which is the order of their
\* first members.
ByScore(clusters) ==
  LET before(c) == {d \in DOMAIN clusters :
                      \/ Min(clusters[d]) < Min(clusters[c])
                      \/ Min(clusters[d]) = Min(clusters[c]) /\ d < c}
  IN [k \in DOMAIN clusters |->
        clusters[CHOOSE c \in DOMAIN clusters : Cardinality(before(c)) = k - 1]]

\* weighted_boxes_fusion of the boxes of one class.
weighted_boxes_fusion(n, overlap) ==
  LET upto[j \in 0..n] ==
        IF j = 0 THEN <<>> ELSE Joined(upto[j - 1], j, find_matching_box(n, overlap, j))
  IN ByScore(upto[n])

-----------------------------------------------------------------------------
(* Charts and titles.                                                      *)

\* match_with_title: all the titles left that overlap the chart, or else the
\* nearest of them that is near enough.
match_with_title(c, left) ==
  LET over == {t \in left : page.distance[c][t] = 0}
      near == {t \in left : /\ page.distance[c][t] < 3
                            /\ \A u \in left : page.distance[c][t] <= page.distance[c][u]}
  IN IF over # {} THEN over ELSE IF near = {} THEN {} ELSE {Min(near)}

\* Mutant: the titles taken stay on the list.
Left_all(left, taken) == left

\* The titles for the charts that follow.
Left(left, taken) == left \ taken

\* The titles of each chart, charts in the order of their scores.
TitlesTaken(charts, titles) ==
  LET upto[c \in 0..charts] ==
        IF c = 0 THEN [taken |-> <<>>, left |-> 1..titles]
        ELSE LET m == match_with_title(c, upto[c - 1].left)
             IN [taken |-> Append(upto[c - 1].taken, m), left |-> Left(upto[c - 1].left, m)]
  IN upto[charts].taken

-----------------------------------------------------------------------------
FusionInit == page \in Pages /\ fused = <<>> /\ found = <<>>

\* expand_chart_bboxes, when there is a chart.
Fuse ==
  /\ page.charts > 0 /\ fused = <<>>
  /\ fused' = [chart |-> weighted_boxes_fusion(page.charts, page.overlap),
               title |-> weighted_boxes_fusion(page.titles, page.near)]
  /\ UNCHANGED <<page, found>>

TakeTitles ==
  /\ fused # <<>> /\ found = <<>>
  /\ found' = TitlesTaken(Len(fused.chart), Len(fused.title))
  /\ UNCHANGED <<page, fused>>

FusionNext == Fuse \/ TakeTitles

FusionSpec == FusionInit /\ [][FusionNext]_fusionVars

-----------------------------------------------------------------------------
(* Properties.                                                             *)

\* However boxes overlap, each chart and title of the page is within a fused box
\* (weighted_boxes_fusion), and no title is made part of two charts, even when
\* it overlaps both (expand_chart_bboxes).
BoxesAccounted ==
  /\ fused # <<>> => /\ UNION Range(fused.chart) = 1..page.charts
                     /\ UNION Range(fused.title) = 1..page.titles
  /\ \A c, d \in DOMAIN found : c # d => found[c] \cap found[d] = {}
=============================================================================
