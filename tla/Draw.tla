--------------------------------- MODULE Draw ---------------------------------
(***************************************************************************)
(* The drawing of text on the SSD1306 panel (oled/draw.c), as functions on  *)
(* the frame buffer.  A buffer is the set of its lit bits <<octet, bit>>.    *)
(* draw_text is only ever called with WHITE and without line breaks, and     *)
(* draw_line only for upright lines; the other cases are left out, and so    *)
(* are the SPI transfers and the set-up commands of the panel.               *)
(***************************************************************************)
EXTENDS Integers, Sequences

CONSTANTS
  LCDWIDTH, LCDHEIGHT,  \* SSD1306_LCDWIDTH and _LCDHEIGHT
  Glyphs,               \* the characters of the font
  Font                  \* the <<column, row>>s of a character's set bits

ASSUME DrawAssumption ==
  /\ LCDWIDTH \in Nat \ {0} /\ LCDHEIGHT \in Nat \ {0}
  /\ Font \in [Glyphs -> SUBSET ((0 .. 4) \X (0 .. 7))]

\* The bits of static buffer[].
Cells == (0 .. (LCDHEIGHT * LCDWIDTH) \div 8 - 1) \X (0 .. 7)

DrawPixel(x, y) == <<x + (y \div 8) * LCDWIDTH, y % 8>>

FillRect(x, y, w, h) == {DrawPixel(i, j) : i \in x .. x + w - 1, j \in y .. y + h - 1}

\* The sixth column is blank.  A character that starts inside is not clipped.
DrawChar(c, x, y, size) ==
  IF x >= LCDWIDTH \/ y >= LCDHEIGHT THEN {}
  ELSE UNION {FillRect(x + p[1] * size, y + p[2] * size, size, size) : p \in Font[c]}

\* Where write() has the cursor for the k-th character, from 0.  Past the last
\* column that holds a whole character it goes to the start of the next line; the
\* first character of a text is written wherever it starts.
Cursor(x, y, size, k) ==
  LET width == 6 * size
      first == IF x > LCDWIDTH - width THEN 1 ELSE (LCDWIDTH - x) \div width
      whole == LCDWIDTH \div width
  IN IF k < first THEN <<x + width * k, y>>
     ELSE <<width * ((k - first) % whole), y + 8 * size * (1 + (k - first) \div whole)>>

\* What draw_text adds to the buffer it displays.
DrawText(x, y, size, text) ==
  UNION {DrawChar(text[k], Cursor(x, y, size, k - 1)[1], Cursor(x, y, size, k - 1)[2], size) :
           k \in 1 .. Len(text)}
=============================================================================
