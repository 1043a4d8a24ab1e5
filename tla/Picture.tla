------------------------------ MODULE Picture -------------------------------
(***************************************************************************)
(* Which sprite a pixel shows: the scan of OAM at the start of a line, the *)
(* sort of what it found, and the choice made for each pixel, as in ppu.c. *)
(* When a line starts is the business of Ppu.                              *)
(*                                                                         *)
(* A sprite is a record of its four bytes in OAM.  Of VRAM only the colour *)
(* numbers of its rows of eight pixels are kept; the background, a look-up *)
(* in the same memory, may have any colour number at any pixel.            *)
(***************************************************************************)
EXTENDS Integers, Sequences, FiniteSets

CONSTANTS
  Entries,       \* entries of OAM, 40
  Limit,         \* sprites on a line, 10
  Columns,       \* pixels of a line, 160
  Rows,          \* the lines that are drawn
  Shapes,        \* the sprites that OAM may hold
  Number(_, _)   \* the colour number at a column of a row of VRAM

ASSUME PictureAssumption ==
  /\ Entries \in Nat /\ Limit \in Nat /\ Columns \in Nat \ {0}
  /\ Rows \subseteq Nat /\ 0 \in Rows

ASSUME ShapeAssumption ==
  /\ Shapes # {}
  /\ \A s \in Shapes : s.x \in 0 .. 255 /\ s.y \in 0 .. 255 /\ s.tile \in 0 .. 255

ASSUME NumberAssumption == \A r \in 0 .. 4095, c \in 0 .. 7 : Number(r, c) \in 0 .. 3

VARIABLES
  row, column,    \* ly and curr_pxl
  tall, objects,  \* LCDC bits 2 and 1
  sprites,        \* sprites and sprites_in_scanline
  shown,          \* the pixel last drawn
  oam,            \* history: OAM when the line began
  resized         \* history: LCDC bit 2 was written after that

pvars == <<row, column, tall, objects, sprites, shown, oam, resized>>

NoBackground == -1   \* neither background nor window at this pixel

Nothing == [palette |-> "bgp", number |-> NoBackground, over |-> NoBackground]

Index == 0 .. Entries - 1
-----------------------------------------------------------------------------
(* scan_oam_for_scanline *)

OnLine(s, y, big) ==
  /\ y >= s.y - 16 /\ y <= s.y - 1
  /\ big \/ (16 + y) - s.y < 8

\* The loop over OAM, and what it has found before each entry.
Found(memory, y, big) ==
  LET found[i \in 0 .. Entries] ==
        IF i = 0 THEN <<>>
        ELSE IF Len(found[i - 1]) < Limit /\ OnLine(memory[i - 1], y, big)
               THEN Append(found[i - 1], memory[i - 1]) ELSE found[i - 1]
  IN  found[Entries]

\* One round of the insertion sort: from the right, past all that are larger.
Largest(places) == CHOOSE j \in places : \A k \in places : k <= j

InsertAfter(sorted, p, s) ==
  [k \in 1 .. Len(sorted) + 1 |->
     IF k <= p THEN sorted[k] ELSE IF k = p + 1 THEN s ELSE sorted[k - 1]]

InsertBefore(sorted, s) ==
  InsertAfter(sorted, Largest({0} \cup {j \in DOMAIN sorted : sorted[j].x < s.x}), s)

Insert(sorted, s) ==
  InsertAfter(sorted, Largest({0} \cup {j \in DOMAIN sorted : ~(sorted[j].x > s.x)}), s)

sort_sprites_by_priority(s) ==
  LET sorted[n \in 0 .. Len(s)] == IF n = 0 THEN <<>> ELSE Insert(sorted[n - 1], s[n])
  IN  sorted[Len(s)]
-----------------------------------------------------------------------------
(* get_sprite_pixel.  x and y are bytes. *)

Across(s) ==
  LET x == ((8 + column) - s.x) % 256 IN IF s.xflip THEN (7 - x) % 256 ELSE x

Down(s) ==
  LET y == ((16 + row) - s.y) % 256 IN
  IF s.yflip THEN ((IF tall THEN 15 ELSE 7) - y) % 256 ELSE y

\* The row of VRAM, of two bytes: the address is twice this.
RowOf(s) ==
  IF ~tall          THEN 8 * s.tile + Down(s)
  ELSE IF Down(s) < 8 THEN 8 * (s.tile - (s.tile % 2)) + Down(s)
  ELSE 8 * (s.tile - (s.tile % 2) + 1) + (Down(s) - 8)

get_sprite_pixel(s) == Number(RowOf(s), Across(s))
-----------------------------------------------------------------------------
(* The loop over the sprites of the line. *)

CoversNine(s) == column >= s.x - 8 /\ column <= s.x

Covers(s) == column >= s.x - 8 /\ column <= s.x - 1

\* The sprites the loop does not pass over, and the one it stops at.
FirstOf(wanted, i) == i \in wanted /\ \A j \in wanted : i <= j

Covering == {i \in DOMAIN sprites : Covers(sprites[i])}

Opaque == {i \in Covering : get_sprite_pixel(sprites[i]) # 0}

\* Without background the first sprite here decides, even if transparent.
\* Otherwise transparent sprites and those hidden by pxl are passed over.
ChosenAlone(i) == FirstOf(Covering, i) /\ i \in Opaque

ChosenOverBreaking(pxl, i) == FirstOf(Opaque, i) /\ (sprites[i].behind => pxl = 0)

ChosenOver(pxl, i) == FirstOf({j \in Opaque : sprites[j].behind => pxl = 0}, i)

Chosen(over, i) == IF over = NoBackground THEN ChosenAlone(i) ELSE ChosenOver(over, i)

Palette(s) == IF s.obp1 THEN "obp1" ELSE "obp0"

PixelOver(over) ==
  IF objects /\ \E i \in DOMAIN sprites : Chosen(over, i)
    THEN LET s == sprites[CHOOSE i \in DOMAIN sprites : Chosen(over, i)] IN
         [palette |-> Palette(s), number |-> get_sprite_pixel(s), over |-> over]
    ELSE [palette |-> "bgp", number |-> over, over |-> over]
-----------------------------------------------------------------------------
PictureInit ==
  /\ row = 0 /\ column = Columns
  /\ tall = FALSE /\ objects = FALSE   \* LCDC = 0x91
  /\ sprites = <<>> /\ shown = Nothing
  /\ oam = [i \in Index |-> CHOOSE s \in Shapes : TRUE] /\ resized = FALSE

\* Tick 0 of a line.  Until then the program, or a DMA, may have filled OAM
\* with anything; what it stores there later is not seen before the next line.
Scan ==
  /\ oam' \in [Index -> Shapes]
  /\ sprites' = sort_sprites_by_priority(Found(oam', row', tall))
  /\ resized' = FALSE /\ shown' = Nothing
  /\ UNCHANGED <<tall, objects>>

StartLine == column = Columns /\ row' \in Rows /\ column' = 0 /\ Scan

\* The LCD was turned off and on in the middle of a line.  Line 0 goes on from
\* the same pixel.
StartOver == column < Columns /\ row' = 0 /\ UNCHANGED column /\ Scan

Draw ==
  /\ column < Columns
  /\ \E over \in {NoBackground, 0, 1} : shown' = PixelOver(over)
  /\ column' = column + 1
  /\ UNCHANGED <<row, tall, objects, sprites, oam, resized>>

WriteLcdc ==
  /\ tall' \in BOOLEAN /\ objects' \in BOOLEAN
  /\ resized' = (resized \/ tall' # tall)
  /\ UNCHANGED <<row, column, sprites, shown, oam>>

PictureNext == StartLine \/ StartOver \/ Draw \/ WriteLcdc

PictureSpec == PictureInit /\ [][PictureNext]_pvars
-----------------------------------------------------------------------------
(* The same by definition, from OAM and without the array. *)

Height == IF tall THEN 16 ELSE 8

LineOf(s) == row - (s.y - 16)

OnThisLine(i) == LineOf(oam[i]) \in 0 .. Height - 1

AmongFirst(i) ==
  OnThisLine(i) /\ Cardinality({j \in Index : j < i /\ OnThisLine(j)}) < Limit

Before(i, j) == oam[i].x < oam[j].x \/ (oam[i].x = oam[j].x /\ i < j)

\* The colour number of a sprite at the pixel, if the pixel is inside it.
NumberOf(s) ==
  LET r    == IF s.yflip THEN Height - 1 - LineOf(s) ELSE LineOf(s)
      c    == column - (s.x - 8)
      base == IF tall THEN s.tile - (s.tile % 2) ELSE s.tile
  IN  Number(8 * base + r, IF s.xflip THEN 7 - c ELSE c)

Visible(i, over) ==
  /\ AmongFirst(i) /\ column - (oam[i].x - 8) \in 0 .. 7
  /\ NumberOf(oam[i]) # 0 /\ (oam[i].behind => over = 0)

Topmost(i, over) ==
  Visible(i, over) /\ \A j \in Index : Visible(j, over) => i = j \/ Before(i, j)
-----------------------------------------------------------------------------
(* README.md: "10 sprites per scanline limit, with sprites sorted by X for *)
(* priority".  The array holds the first ten entries of OAM that cover the *)
(* line, by X, and those with the same X in the order of OAM.              *)
FirstTenByX ==
  column < Columns /\ ~resized =>
    \E order \in [DOMAIN sprites -> Index] :
      /\ \A i \in DOMAIN sprites : sprites[i] = oam[order[i]]
      /\ {order[i] : i \in DOMAIN sprites} = {i \in Index : AmongFirst(i)}
      /\ \A i, j \in DOMAIN sprites : i < j => Before(order[i], order[j])

(* Over the background a pixel shows the sprite that comes first among     *)
(* those that are not transparent there and not hidden behind it, in its   *)
(* own colour and palette, or else the background.                         *)
ShowsTopmost ==
  [][column' = column + 1 /\ ~resized /\ objects /\ shown'.over # NoBackground =>
       IF \E i \in Index : Visible(i, shown'.over)
         THEN \E i \in Index :
                /\ Topmost(i, shown'.over)
                /\ shown'.palette = Palette(oam[i]) /\ shown'.number = NumberOf(oam[i])
         ELSE shown'.palette = "bgp" /\ shown'.number = shown'.over]_pvars

\* A sprite is read in the rows of its own tiles and in their eight columns.
ReadsOwn(s) ==
  /\ Across(s) \in 0 .. 7 /\ RowOf(s) \in 0 .. 4095
  /\ ~resized => RowOf(s) \div 8 \in
                   IF tall THEN {s.tile - (s.tile % 2), s.tile - (s.tile % 2) + 1} ELSE {s.tile}

(* Every sprite that the loop looks at is read so.  Even if the program    *)
(* changes the size of sprites in the middle of a line, nothing outside    *)
(* VRAM is read.                                                           *)
ReadsOwnTiles ==
  \A i \in DOMAIN sprites : column < Columns /\ Covers(sprites[i]) => ReadsOwn(sprites[i])
=============================================================================
