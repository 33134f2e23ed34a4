-------------------------------- MODULE Boxes --------------------------------
(***************************************************************************)
(* Bounding boxes of pixels (src/core/math.c, include/autk/math.h), by     *)
(* which the X11 back end remembers what of a window has to be redrawn.    *)
(***************************************************************************)
EXTENDS Integers

Box == [x0 : Int, y0 : Int, x1 : Int, y1 : Int]

\* The region of a window of which nothing is dirty.
NoBox == [x0 |-> 0, y0 |-> 0, x1 |-> 0, y1 |-> 0]

\* autk_bbox_is_positive
IsPositive(box) == box.x0 < box.x1 /\ box.y0 < box.y1

Least(m, n) == IF n < m THEN n ELSE m
Greatest(m, n) == IF n > m THEN n ELSE m

\* Slip: of each axis one side is moved.
ExtendOneSide(box, add) ==
    IF ~IsPositive(add) THEN box
    ELSE IF ~IsPositive(box) THEN add
    ELSE [x0 |-> Least(box.x0, add.x0), y0 |-> Least(box.y0, add.y0),
          x1 |-> IF add.x0 < box.x0 THEN box.x1 ELSE Greatest(box.x1, add.x1),
          y1 |-> IF add.y0 < box.y0 THEN box.y1 ELSE Greatest(box.y1, add.y1)]

\* autk_bbox_extend
Extend(box, add) ==
    IF ~IsPositive(add) THEN box
    ELSE IF ~IsPositive(box) THEN add
    ELSE [x0 |-> Least(box.x0, add.x0), y0 |-> Least(box.y0, add.y0),
          x1 |-> Greatest(box.x1, add.x1), y1 |-> Greatest(box.y1, add.y1)]

\* Every pixel of the inner box is one of the outer box.
Within(inner, outer) ==
    IsPositive(inner) =>
        /\ outer.x0 <= inner.x0 /\ inner.x1 <= outer.x1
        /\ outer.y0 <= inner.y0 /\ inner.y1 <= outer.y1
=============================================================================
