------------------------------ MODULE ChartPrep ------------------------------
(***************************************************************************)
(* Where a scanned chart is cut.  An image is what the code measures of    *)
(* it: for the white-band search the columns (or rows) that are white, for *)
(* the frame search the longest dark run of each row, <<start, end>> or    *)
(* None.  Fractions are taken of 1000.                                     *)
(***************************************************************************)
EXTENDS Fields

CONSTANTS Run,        \* columns of content in a row that end the white band
          MergePx     \* frame lines no further apart than this are one line

ASSUME RunIsCount == Run \in Nat \ {0}

(* Columns (or rows) of an image that are white at least three tenths.     *)
WhiteFractions(pixels) ==
    [x \in Places(pixels) |-> 10 * Quantify(Places(pixels[x]), LAMBDA y : pixels[x][y] = "white")
                                >= 3 * Len(pixels[x])]

EdgeCutInclusive(white) ==
    LET starts == {i \in Places(white) : \A j \in i..Min({i + Run - 1, Len(white)}) : ~white[j]}
    IN IF starts = {} THEN 0 ELSE Min(starts)

(* How much to cut before the chart begins: up to the first place from     *)
(* which Run columns, or all there are, have content.                      *)
EdgeCut(white) ==
    LET ContentFrom(i) == \A j \in i..Min({i + Run - 1, Len(white)}) : ~white[j]
        starts == {i \in Places(white) : ContentFrom(i)}
    IN IF starts = {} THEN 0 ELSE Min(starts) - 1

CropRoundedUp(white, full) ==
    LET Cut(w) == (EdgeCut(w) * full + Len(w) - 1) \div Len(w)
    IN [left |-> Cut(white), right |-> full - Cut(Reverse(white))]

(* The window of columns [left, right) that is kept of a sheet full wide:  *)
(* what the preview has cut at either edge, as a fraction of its width, to *)
(* the nearest column of the sheet.  Rows are cut alike.                   *)
CropLegendAndCollar(white, full) ==
    LET Cut(w) == Rounded(EdgeCut(w) * full, Len(w))
    IN [left |-> Cut(white), right |-> full - Cut(Reverse(white))]

---------------------------------------------------------------------------
(* The frame.                                                              *)

(* The longest run of dark pixels; of equal ones the first.                *)
RowDarkRun(row) ==
    LET runs == {r \in Places(row) \X Places(row) :
                   r[1] <= r[2] /\ \A x \in r[1]..r[2] : row[x] = "dark"} IN
    IF runs = {} THEN None
    ELSE CHOOSE r \in runs : \A q \in runs : \/ r[2] - r[1] > q[2] - q[1]
                                             \/ r[2] - r[1] = q[2] - q[1] /\ r[1] <= q[1]

(* Lines that are close to each other are one line of the frame: it ends   *)
(* with the first line that has none close behind it.                      *)
ClusterLines(lines) ==
    LET firsts == {y \in lines : \A z \in lines : z < y => z + MergePx < y}
        lasts == {y \in lines : \A z \in lines : y < z => y + MergePx < z}
    IN {<<y, Min({z \in lasts : y <= z})>> : y \in firsts}

(* Between neighbouring lines the widest gap; of equal ones the last.      *)
WidestCell(clusters) ==
    LET Neighbours(c, d) == c[2] < d[1] /\ \A e \in clusters : e[1] <= c[1] \/ d[1] <= e[1]
        cells == {cell \in clusters \X clusters : Neighbours(cell[1], cell[2])}
        Gap(cell) == cell[2][1] - cell[1][2]
        widest == {cell \in cells : \A other \in cells : Gap(other) <= Gap(cell)}
    IN IF cells = {} THEN None
       ELSE <<Max({cell[1][1] : cell \in widest}), Max({cell[2][2] : cell \in widest})>>

(* rows: the dark run of each row of an image w wide.  The run bounds the  *)
(* columns, since the lines at the sides need not be drawn.                *)
DetectNeatline(rows, w) ==
    LET h == Len(rows)
        RunOf(y) == rows[y][2] - rows[y][1] + 1
        lines == {y \in Places(rows) : rows[y] # None /\ RunOf(y) >= (4 * w) \div 10}
        clusters == ClusterLines(lines)
        cell == WidestCell(clusters)
        Cluster(y) == CHOOSE c \in clusters : c[1] <= y /\ y <= c[2]
        Span(y) == LET in == {z \in lines : Cluster(y)[1] <= z /\ z <= Cluster(y)[2]} IN
                   rows[Max({z \in in : \A v \in in : RunOf(v) <= RunOf(z)})]
    IN IF cell = None THEN None
       ELSE IF cell[2] - cell[1] < (9 * h) \div 10 THEN None
       ELSE LET left == Min({Span(cell[1])[1], Span(cell[2])[1]})
                right == Max({Span(cell[1])[2], Span(cell[2])[2]}) IN
            IF right - left < (4 * w) \div 10 THEN None
            ELSE [left |-> left, top |-> cell[1], right |-> right, bottom |-> cell[2]]

ToSourceTruncated(left, right, pw, fw) ==
    [left |-> ((left - 1) * fw) \div pw, right |-> (right * fw) \div pw]

(* From places of a preview pw wide to a window of a sheet fw wide, the    *)
(* frame itself kept.  Preview places count from one.                      *)
ToSource(left, right, pw, fw) ==
    [left |-> ((left - 1) * fw) \div pw, right |-> Min({fw, (right * fw + pw - 1) \div pw})]

CropToFraction(frac, fw) ==
    [left |-> (frac[1] * fw) \div 1000, right |-> Min({fw, (frac[2] * fw + 999) \div 1000})]

(* Some charts defeat the search and are cut where a table says.           *)
CropToNeatline(rows, w, fw, fixed) ==
    IF fixed # None THEN CropToFraction(fixed, fw)
    ELSE LET box == DetectNeatline(rows, w) IN
         IF box = None THEN None ELSE ToSource(box.left, box.right, w, fw)
=============================================================================
