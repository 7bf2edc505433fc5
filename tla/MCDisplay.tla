------------------------------ MODULE MCDisplay ------------------------------
(***************************************************************************)
(* Display, for TLC.                                                       *)
(***************************************************************************)
EXTENDS Display, TLC

\* The clients are interchangeable.
Symmetry == Permutations(Clients)

\* Both formats, both orientations and both kinds of char.
MCDevices ==
  {[fmt |-> "ARGB", rotated |-> FALSE, signed |-> FALSE],
   [fmt |-> "RGB", rotated |-> FALSE, signed |-> TRUE],
   [fmt |-> "ARGB", rotated |-> TRUE, signed |-> TRUE],
   [fmt |-> "other", rotated |-> FALSE, signed |-> FALSE]}

\* A narrow character, and one above 127 whose lines take two bytes.
MCFont ==
  (97  :> [width |-> 2, rows |-> << <<128>>, <<64>> >>]) @@
  (233 :> [width |-> 9, rows |-> << <<129, 128>>, <<66, 0>> >>])

\* In the middle, over the right edge, below the screen, with narrowed width.
MCRects ==
  {[x |-> 1, y |-> 1, w |-> 3, h |-> 2], [x |-> 9, y |-> 0, w |-> 4, h |-> 1],
   [x |-> 40, y |-> 1023, w |-> 64, h |-> 2]}
MCIcons == {[x |-> 1, y |-> 1, w |-> 3, h |-> 2]}

\* Texts of 4 and 11 columns, the first with a character the font does not have.
MCTexts == {<<97, 63, 97>>, <<97, 233>>}
MCPlaces == {<<3, 2>>}

\* What the theorems of DisplayProofs take from the font holds of this one.
ASSUME MCFontAssumption == GlyphsAsLaidOut /\ WidthsAddUp
=============================================================================
