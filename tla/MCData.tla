------------------------------- MODULE MCData -------------------------------
(* Bounds for model checking Alu and Picture.  They share no variable, so  *)
(* each of them runs while the other is in its initial state.              *)
EXTENDS Alu, Picture

SomeBytes == {5, 73, 153}     \* 0x05, 0x49, 0x99
SomeWords == {0, 4095, 33023, 65535}
SomeSteps == {-128, -16, -1, 0, 1, 127}

Sprite(y, x, tile, behind, yflip, xflip, obp1) ==
  [y |-> y, x |-> x, tile |-> tile, behind |-> behind, yflip |-> yflip,
   xflip |-> xflip, obp1 |-> obp1]

\* On line 0, on line 8, or only there when 16 high; two with the same X.
SomeShapes ==
  { Sprite(16, 8, 2, FALSE, FALSE, FALSE, FALSE),
    Sprite(16, 8, 5, TRUE, FALSE, FALSE, TRUE),
    Sprite(16, 7, 3, FALSE, FALSE, TRUE, FALSE),
    Sprite(9, 10, 4, FALSE, TRUE, FALSE, TRUE),
    Sprite(9, 1, 255, TRUE, TRUE, TRUE, FALSE) }

\* Transparent pixels alternate with others, and tiles differ.
Checked(r, c) == IF (r + c) % 2 = 0 THEN 0 ELSE 1 + ((r \div 8) % 3)

DataInit == Init /\ PictureInit

DataNext ==
  \/ PictureInit /\ Next /\ UNCHANGED pvars
  \/ Init /\ PictureNext /\ UNCHANGED avars

DataSpec == DataInit /\ [][DataNext]_<<avars, pvars>>
=============================================================================
