------------------------------ MODULE Display ------------------------------
(***************************************************************************)
(* Display: rectangles, icons and text drawn line by line through one line *)
(* buffer that all calls share.  A call fills the buffer and hands it to   *)
(* display_write in separate steps, so that the calls of several clients   *)
(* interleave there.                                                       *)
(*                                                                         *)
(* A pixel of the buffer is [f, n]: entry n of the colour table of format  *)
(* f ("RGB", "ARGB"), element n of the picture ("src"), or what the heap   *)
(* left there ("heap").  A character is a byte.                            *)
(***************************************************************************)
EXTENDS Integers, Sequences, FiniteSets, SequencesExt

CONSTANTS
  Clients,      \* threads that draw
  Devices,      \* panels: [fmt, rotated, signed], signed when the target's char is
  XRes, YRes,   \* resolution the driver reports
  HeapSize,     \* bytes in buf_heap
  W16, W32,     \* 2^16 and 2^32
  Colors,       \* colours of drawings
  Backgrounds,  \* arguments of set_background_color
  Font,         \* the font: [unicode -> [width, rows]], rows as sequences of bytes
  FontHeight,
  Rects,        \* arguments [x, y, w, h] of rectangles and lines
  Icons,        \* arguments [x, y, w, h] of draw_icon
  Texts,        \* strings: sequences of bytes
  Places,       \* arguments <<x_pos, y_pos>> of draw_string_at
  TextLines     \* arguments line of draw_string_at_line

ASSUME WidthAssumption == W16 \in Nat /\ W32 \in Nat /\ 1 < W16 /\ 2 * W16 <= W32
ASSUME DeviceAssumption ==
  Devices \subseteq [fmt : {"ARGB", "RGB", "other"}, rotated : BOOLEAN, signed : BOOLEAN]
ASSUME ResolutionAssumption == XRes \in 1..(W16 - 1) /\ YRes \in 1..(W16 - 1)
ASSUME ArgumentAssumption ==
  /\ \A r \in Rects : r \in [x : 0..(W32 - 1), y : 0..(W32 - 1), w : 0..(W32 - 1), h : 0..(W32 - 1)]
  /\ \A r \in Icons : r \in [x : 0..(W16 - 1), y : 0..(W16 - 1), w : 0..(W16 - 1), h : 0..(W16 - 1)]
  /\ \A t \in Texts : t \in Seq(0..255)
  /\ \A p \in Places : p \in (0..(W32 - 1)) \X (0..(W32 - 1))
  /\ TextLines \subseteq 0..(W32 - 1)
  /\ FontHeight \in 0..255 /\ HeapSize \in Nat /\ Colors \subseteq Nat
  /\ Backgrounds \subseteq Nat
ASSUME FontAssumption == \A u \in DOMAIN Font : u \in Nat /\ Font[u].width \in 0..47

VARIABLES
  dev,      \* the panel
  lcd,      \* [fmt, xsize, ysize]: what initialize() has found out
  fn,       \* the fill functions: "none" or the format they are for
  buf,      \* _line_buffer as pixels 0..n-1; << >> is nullptr
  heap,     \* free bytes of buf_heap
  bg,       \* [color, value]: _background_color and its cached value
  font,     \* _p_font is set
  blank,    \* the panel is blanked
  pc,       \* where the drawing call of each client is
  area,     \* [x, w, line, last]: the columns and the lines it still has to write
  job,      \* what else it keeps
  status,   \* what the last initialize() returned
  fresh,    \* history: bg.value is the colour bg.color in the format in use
  px,       \* history: the pixels that its next line should show
  shown,    \* history: what it asked for and put on the panel
  fault     \* how the system was stopped

config == <<dev, lcd, fn, heap, status, font>>
call == <<pc, area, job, px, shown>>
vars == <<config, buf, bg, blank, fresh, call, fault>>

\* A pixel of the buffer that the call under way has not filled.
LeftOver == [f |-> "heap", n |-> 0]

NoArea == [x |-> 0, w |-> 0, line |-> 0, last |-> 0]

\* What a rectangle, an icon and a text keep besides.
RectJob(unblank) == [unblank |-> unblank]
IconJob(src, stride, y) == [unblank |-> FALSE, src |-> src, stride |-> stride, y |-> y]
TextJob(color, text, col, y, row) ==
  [unblank |-> FALSE, color |-> color, text |-> text, col |-> col, y |-> y, row |-> row]
NoJob == RectJob(FALSE)
NothingShown == [want |-> {}, done |-> {}, judged |-> FALSE, columns |-> 0,
                 mixed |-> FALSE, stale |-> FALSE, wrong |-> FALSE]

Init ==
  /\ dev \in Devices
  /\ lcd = [fmt |-> "RGB", xsize |-> 0, ysize |-> 0]
  /\ fn = "none"
  /\ buf = << >>
  /\ heap = HeapSize
  /\ bg = [color |-> 0, value |-> [f |-> "RGB", n |-> 0]]
  /\ font = FALSE
  /\ blank = TRUE
  /\ pc = [c \in Clients |-> "idle"]
  /\ area = [c \in Clients |-> NoArea]
  /\ job = [c \in Clients |-> NoJob]
  /\ px = [c \in Clients |-> << >>]
  /\ status = "none"
  /\ fresh = TRUE
  /\ shown = [c \in Clients |-> NothingShown]
  /\ fault = "none"

-----------------------------------------------------------------------------
(***************************************************************************)
(* Arithmetic of the code, and what it draws.                              *)
(***************************************************************************)

\* zpp_lib::min(uint32_t a, uint16_t b): the second argument is narrowed by
\* the call.
min(a, b) == IF b % W16 < a THEN b % W16 ELSE a % W16

\* The column and the width that a rectangle is cut to.  Mutant: the width is
\* cut to that of the screen, wherever the rectangle begins.
ClipX(x) == min((lcd.xsize - 1) % W32, x)

ClipWScreen(x, w) == min(lcd.xsize, w)

ClipW(x, w) == min((lcd.xsize - ClipX(x)) % W32, w)

\* The lines first_line..last_line - 1 of a rectangle.
FirstLine(y) == min(y, lcd.ysize)
LastLine(y, h) == min((y + h) % W32, lcd.ysize)

Area(x, y, w, h) ==
  [x |-> ClipX(x), w |-> ClipW(x, w), line |-> FirstLine(y), last |-> LastLine(y, h)]

get_color_value(color) == [f |-> lcd.fmt, n |-> color]

\* _fill_color_function: the whole buffer.
FilledWith(color) == [i \in DOMAIN buf |-> get_color_value(color)]

\* get_char_width: 0 when the font does not have the character.
get_char_width(u) == IF u \in DOMAIN Font THEN Font[u].width ELSE 0

\* font_get_glyph returns a bitmap.
HasGlyph(u) == u \in DOMAIN Font

compute_ypos_from_line_number(line) == (line * FontHeight) % W32

\* A plain char that is negative becomes a large code point.
PlainChar(ch, signed) == IF signed /\ ch >= 128 THEN (ch - 256) % W32 ELSE ch

Ascii(text) == \A i \in DOMAIN text : text[i] < 128

SumOf(s, Measure(_)) == FoldLeft(LAMBDA acc, ch : acc + Measure(ch), 0, s)

StringWidth(text, signed) ==
  SumOf(text, LAMBDA ch : get_char_width(PlainChar(ch, signed))) % W16

get_string_width(text) == StringWidth(text, dev.signed)

\* A sum of widths is a number: what a fold returns is beyond the prover.
ASSUME StringWidthAssumption ==
  \A t \in Texts, s \in BOOLEAN : StringWidth(t, s) \in 0..(W16 - 1)

\* Bit j of line i of a character, as display_char tests it.
LineValue(u, i) == FoldLeft(LAMBDA acc, b : 256 * acc + b, 0, Font[u].rows[i + 1])

PixelOn(u, i, j) ==
  LET offset == 8 * ((Font[u].width + 7) \div 8) - Font[u].width
  IN  (LineValue(u, i) \div 2^(Font[u].width - j + offset - 1)) % 2 = 1

-----------------------------------------------------------------------------
(***************************************************************************)
(* What a caller asks for, in unbounded arithmetic.                        *)
(***************************************************************************)
Screen == (0..(lcd.xsize - 1)) \X (0..(lcd.ysize - 1))

Box(x, y, w, h) ==
  {p \in Screen : p[1] >= x /\ p[1] < x + w /\ p[2] >= y /\ p[2] < y + h}

\* The width of the longest part of the text that fits between column start and
\* the right edge.
TextWidth(text) == SumOf(text, get_char_width)
Fitting(start, text, right) ==
  {k \in 0..Len(text) : start + TextWidth(SubSeq(text, 1, k)) <= right}
FittingWidth(start, text, right) ==
  LET fits == Fitting(start, text, right)
  IN  IF fits = {} THEN 0 ELSE TextWidth(SubSeq(text, 1, Max(fits)))
TextBox(start, y, text) ==
  Box(start, y, FittingWidth(start, text, lcd.xsize), FontHeight)

\* Where alignment puts a text: column 0 is never used.
AlignedStart(mode, n) ==
  LET exact == [Left |-> 0, Right |-> lcd.xsize - n,
                Center |-> lcd.xsize \div 2 - n \div 2][mode]
  IN  IF exact < 1 THEN 1 ELSE exact

\* Pixel j of line i of a glyph: bytes from left to right, high bit first.
GlyphBit(u, i, j) == (Font[u].rows[i + 1][j \div 8 + 1] \div 2^(7 - (j % 8))) % 2 = 1

\* A width is a sum: that of a text is the width of its first character and that
\* of the others, and the width the code computes is the same where the plain
\* char is the character.
WidthsAddUp ==
  \A t \in Texts :
    /\ \A signed \in BOOLEAN :
         ~signed \/ Ascii(t) => StringWidth(t, signed) = TextWidth(t) % W16
    /\ \A i \in 1..(Len(t) + 1) :
         LET s == SubSeq(t, i, Len(t))
             Width(n) == TextWidth(SubSeq(s, 1, n))
         IN  /\ \A n \in 0..Len(s) : Width(n) \in Nat
             /\ Width(0) = 0
             /\ \A n \in 1..Len(s) :
                  Width(n) = get_char_width(s[1]) + TextWidth(SubSeq(Tail(s), 1, n - 1))

\* The bit that display_char tests is the pixel, for every pixel of the font.
GlyphsAsLaidOut ==
  \A u \in DOMAIN Font :
    \A i \in 0..(FontHeight - 1), j \in 0..(Font[u].width - 1) :
      PixelOn(u, i, j) <=> GlyphBit(u, i, j)

-----------------------------------------------------------------------------
Busy(c) == pc[c] # "idle"

Fail(what) ==
  /\ fault' = what
  /\ UNCHANGED <<config, buf, bg, blank, fresh, call>>

\* A call of c starts.  Calls that are under way at the same time are mixed; a
\* text is stale when the cached background is that of another format.
Begin(c, want, judged, columns, stale) ==
  shown' = [d \in Clients |->
              IF d = c
              THEN [want |-> want, done |-> {}, judged |-> judged, columns |-> columns,
                    mixed |-> \E e \in Clients \ {c} : Busy(e), stale |-> stale,
                    wrong |-> FALSE]
              ELSE [shown[d] EXCEPT !.mixed = @ \/ Busy(d)]]

\* A loop over the lines of an area is at where, or the call is over.
Loop(a, where) == IF a.line < a.last THEN where ELSE "return"

Return(c) ==
  /\ pc[c] = "return"
  /\ pc' = [pc EXCEPT ![c] = "idle"]
  /\ area' = [area EXCEPT ![c] = NoArea]
  /\ job' = [job EXCEPT ![c] = NoJob]
  /\ px' = [px EXCEPT ![c] = << >>]
  /\ shown' = [shown EXCEPT ![c] = NothingShown]
  /\ UNCHANGED <<config, buf, bg, blank, fresh, fault>>

\* initialize(), at a time when nobody draws.
MayInitialize == \A c \in Clients : ~Busy(c)

InitNodev ==
  /\ MayInitialize
  /\ status' = "Nodev"
  /\ UNCHANGED <<dev, lcd, fn, heap, buf, bg, font, blank, fresh, call, fault>>

NewLcd == [fmt   |-> dev.fmt,
           xsize |-> IF dev.rotated THEN YRes ELSE XRes,
           ysize |-> IF dev.rotated THEN XRes ELSE YRes]
LineLength == IF NewLcd.xsize > NewLcd.ysize THEN NewLcd.xsize ELSE NewLcd.ysize
BufferSize == LineLength * (IF dev.fmt = "ARGB" THEN 4 ELSE 3)

InitNosys ==
  /\ MayInitialize
  /\ dev.fmt = "other"
  /\ lcd' = NewLcd
  /\ status' = "Nosys"
  /\ UNCHANGED <<dev, fn, heap, buf, bg, font, blank, fresh, call, fault>>

\* k_heap_alloc gives a new buffer, or nullptr; the old one is never freed.
\* Mutant: the result is not tested.
InitAllocUntested ==
  /\ MayInitialize
  /\ dev.fmt # "other"
  /\ lcd' = NewLcd
  /\ fn' = dev.fmt
  /\ buf' = IF BufferSize <= heap THEN [i \in 0..(LineLength - 1) |-> LeftOver] ELSE << >>
  /\ status' = "Ok"
  /\ heap' = IF BufferSize <= heap THEN heap - BufferSize ELSE heap
  /\ UNCHANGED <<dev, bg, font, blank, fresh, call, fault>>

InitAlloc ==
  /\ MayInitialize
  /\ dev.fmt # "other"
  /\ lcd' = NewLcd
  /\ fn' = dev.fmt
  /\ fresh' = (fresh /\ lcd.fmt = dev.fmt)
  /\ \/ /\ BufferSize <= heap
        /\ heap' = heap - BufferSize
        /\ buf' = [i \in 0..(LineLength - 1) |-> LeftOver]
        /\ status' = "Ok"
     \/ /\ BufferSize > heap
        /\ buf' = << >>
        /\ status' = "Nomem"
        /\ UNCHANGED heap
  /\ UNCHANGED <<dev, bg, font, blank, call, fault>>

\* set_background_color.  Mutant: the cached value is not brought up to date.
SetBackgroundStale(color) ==
  /\ lcd.fmt # "other"
  /\ bg' = [bg EXCEPT !.color = color]
  /\ fresh' = TRUE
  /\ UNCHANGED <<config, buf, blank, call, fault>>

SetBackground(color) ==
  /\ lcd.fmt # "other"
  /\ bg' = [color |-> color, value |-> get_color_value(color)]
  /\ fresh' = TRUE
  /\ UNCHANGED <<config, buf, blank, call, fault>>

BackgroundAsserts ==
  /\ lcd.fmt = "other"
  /\ Fail("format")

SetFont ==
  /\ font' = TRUE
  /\ UNCHANGED <<dev, lcd, fn, heap, status, buf, bg, blank, fresh, call, fault>>

-----------------------------------------------------------------------------
(***************************************************************************)
(* Rectangles: the buffer is filled once and written line after line.      *)
(***************************************************************************)

\* What stops a call that fills w pixels of the buffer.
FillFault(w) ==
  IF fn = "none" THEN "empty" ELSE IF buf = << >> /\ w > 0 THEN "null" ELSE "none"
RectFault == IF lcd.fmt = "other" THEN "format" ELSE FillFault(1)

RectFails(c) ==
  /\ ~Busy(c)
  /\ RectFault # "none"
  /\ Fail(RectFault)

\* fill_rectangle, for a caller who wants the box r to be filled; at the end
\* fill_display makes the panel visible.
FillBox(c, color, x, y, w, h, r, unblank) ==
  /\ ~Busy(c)
  /\ RectFault = "none"
  /\ buf' = FilledWith(color)
  /\ area' = [area EXCEPT ![c] = Area(x, y, w, h)]
  /\ pc' = [pc EXCEPT ![c] = Loop(Area(x, y, w, h), "rect")]
  /\ job' = [job EXCEPT ![c] = RectJob(unblank)]
  /\ px' = [px EXCEPT ![c] = [i \in 0..(ClipW(x, w) - 1) |-> get_color_value(color)]]
  /\ Begin(c, r, x < lcd.xsize /\ w < W16 /\ h < W16 /\ y + h < W32, 0, FALSE)
  /\ UNCHANGED <<config, bg, blank, fresh, fault>>

FillRectangle(c, color, r) ==
  FillBox(c, color, r.x, r.y, r.w, r.h, Box(r.x, r.y, r.w, r.h), FALSE)

\* line_length is r.w, thickness is r.h.  Mutant: as for a horizontal line.
DrawHorizontalLine(c, color, r) ==
  FillBox(c, color, r.x, r.y, r.w, r.h, Box(r.x, r.y, r.w, r.h), FALSE)

DrawVerticalLineFlat(c, color, r) ==
  FillBox(c, color, r.x, r.y, r.w, r.h, Box(r.x, r.y, r.h, r.w), FALSE)

DrawVerticalLine(c, color, r) ==
  FillBox(c, color, r.x, r.y, r.h, r.w, Box(r.x, r.y, r.h, r.w), FALSE)

FillDisplay(c, color) ==
  FillBox(c, color, 0, 0, lcd.xsize, lcd.ysize, Screen, TRUE)

-----------------------------------------------------------------------------
(***************************************************************************)
(* Icons: every line is copied into the buffer before it is written.       *)
(***************************************************************************)
DrawIcon(c, r) ==
  /\ ~Busy(c)
  /\ area' = [area EXCEPT ![c] = Area(r.x, r.y, r.w, r.h)]
  /\ pc' = [pc EXCEPT ![c] = Loop(Area(r.x, r.y, r.w, r.h), "icon")]
  /\ job' = [job EXCEPT ![c] = IconJob(0, r.w, r.y)]
  /\ Begin(c, Box(r.x, r.y, r.w, r.h), r.x < lcd.xsize, 0, FALSE)
  /\ UNCHANGED <<config, buf, bg, blank, fresh, px, fault>>

\* _fill_line_function: the first pixels of the buffer are replaced.  The
\* others are left over from earlier calls, and no call may show them.
Loaded(line) == [i \in DOMAIN buf |-> IF i \in DOMAIN line THEN line[i] ELSE LeftOver]

IconFails(c) ==
  /\ pc[c] = "icon"
  /\ FillFault(area[c].w) # "none"
  /\ Fail(FillFault(area[c].w))

LoadIconLine(c) ==
  LET j == job[c]
      Pixels(from) == [i \in 0..(area[c].w - 1) |-> [f |-> "src", n |-> from + i]]
  IN  /\ pc[c] = "icon"
      /\ FillFault(area[c].w) = "none"
      /\ buf' = Loaded(Pixels(j.src))
      /\ pc' = [pc EXCEPT ![c] = "icon_write"]
      /\ job' = [job EXCEPT ![c] = IconJob(j.src + j.stride, j.stride, j.y)]
      /\ px' = [px EXCEPT ![c] = Pixels((area[c].line - j.y) * j.stride)]
      /\ UNCHANGED <<config, bg, blank, fresh, area, shown, fault>>

-----------------------------------------------------------------------------
(***************************************************************************)
(* Text: character by character, each line of a character a rectangle of   *)
(* height 1.                                                               *)
(***************************************************************************)
NoFont(c) ==
  /\ ~Busy(c)
  /\ ~font
  /\ Fail("nofont")

\* draw_string_at.  A start column of 0, or one that was negative before it
\* became unsigned, is replaced by 1.  Mutant: only 0 is replaced.
StartColumnZero(x) == IF x < 1 THEN 1 ELSE x

StartColumn(x) == IF x < 1 \/ x >= W16 \div 2 THEN 1 ELSE x

DrawText(c, color, x, y, text, want, judged, columns) ==
  /\ ~Busy(c)
  /\ font
  /\ pc' = [pc EXCEPT ![c] = "text"]
  /\ job' = [job EXCEPT ![c] = TextJob(color, text, StartColumn(x), y, 0)]
  /\ Begin(c, want, judged, columns, ~fresh)
  /\ UNCHANGED <<config, buf, bg, blank, fresh, area, px, fault>>

DrawStringAt(c, color, place, text) ==
  DrawText(c, color, place[1], place[2], text,
           TextBox(StartColumn(place[1]), place[2], text), place[2] + FontHeight < W32, 0)

\* draw_string_at_line.  Mutant: the middle of the screen is where text begins.
AlignedXFromMiddle(mode, n) ==
  [Left |-> 0, Right |-> (lcd.xsize - n) % W32, Center |-> lcd.xsize \div 2][mode]

AlignedX(mode, n) ==
  [Left |-> 0, Right |-> (lcd.xsize - n) % W32,
   Center |-> (lcd.xsize \div 2 - n \div 2) % W32][mode]

\* What the code's arithmetic can align: every byte is a character, the width
\* of the text fits in 16 bits and the lines in 32, and a column of the screen
\* is not taken for a negative number.
Alignable(line, text) ==
  /\ ~dev.signed \/ Ascii(text)
  /\ TextWidth(text) < W16 /\ lcd.xsize < W16 \div 2 /\ (line + 1) * FontHeight < W32

DrawStringAtLine(c, color, line, text, mode) ==
  DrawText(c, color, AlignedX(mode, get_string_width(text)),
           compute_ypos_from_line_number(line), text,
           TextBox(AlignedStart(mode, TextWidth(text)), line * FontHeight, text),
           Alignable(line, text),
           IF line * FontHeight < lcd.ysize /\ FontHeight > 0 THEN TextWidth(text) ELSE 0)

\* The loop over the characters: the text ends, the next character does not
\* fit, or it is drawn if the font has it.  total_width, which the code keeps
\* beside refcolumn, is the column behind the next character.
TotalWidth(c) == job[c].col + get_char_width(Head(job[c].text))

EndText(c) ==
  /\ pc[c] = "text"
  /\ job[c].text # << >> => TotalWidth(c) > lcd.xsize
  /\ pc' = [pc EXCEPT ![c] = "return"]
  /\ UNCHANGED <<config, buf, bg, blank, fresh, area, job, px, shown, fault>>

NextChar(c) ==
  LET j == job[c]
  IN  /\ pc[c] = "text"
      /\ j.text # << >>
      /\ TotalWidth(c) <= lcd.xsize
      /\ \/ /\ HasGlyph(Head(j.text))
            /\ pc' = [pc EXCEPT ![c] = "glyph"]
            /\ UNCHANGED job
         \/ /\ ~HasGlyph(Head(j.text))
            /\ job' = [job EXCEPT ![c] = TextJob(j.color, Tail(j.text), j.col, j.y, 0)]
            /\ UNCHANGED pc
      /\ UNCHANGED <<config, buf, bg, blank, fresh, area, px, shown, fault>>

\* The area of the next line of the character.
GlyphArea(c) ==
  Area(job[c].col, (job[c].y + job[c].row) % W32, get_char_width(Head(job[c].text)), 1)
GlyphLineVisible(c) == GlyphArea(c).line < GlyphArea(c).last
GlyphFault(c) ==
  IF lcd.fmt = "other" THEN "format"
  ELSE IF GlyphLineVisible(c) THEN FillFault(GlyphArea(c).w) ELSE "none"

GlyphFails(c) ==
  /\ pc[c] = "glyph"
  /\ job[c].row < FontHeight
  /\ GlyphFault(c) # "none"
  /\ Fail(GlyphFault(c))

\* A line of the character below the screen is not drawn; after the last one
\* the column moves on.
NextRow(j) == TextJob(j.color, j.text, j.col, j.y, j.row + 1)

SkipGlyphLine(c) ==
  /\ pc[c] = "glyph"
  /\ job[c].row < FontHeight
  /\ GlyphFault(c) = "none"
  /\ ~GlyphLineVisible(c)
  /\ job' = [job EXCEPT ![c] = NextRow(job[c])]
  /\ UNCHANGED <<config, buf, bg, blank, fresh, pc, area, px, shown, fault>>

EndGlyph(c) ==
  LET j == job[c]
  IN  /\ pc[c] = "glyph"
      /\ j.row = FontHeight
      /\ pc' = [pc EXCEPT ![c] = "text"]
      /\ job' = [job EXCEPT ![c] = TextJob(j.color, Tail(j.text), TotalWidth(c), j.y, 0)]
      /\ UNCHANGED <<config, buf, bg, blank, fresh, area, px, shown, fault>>

\* The background that the caller may expect: its colour in today's format.
BackgroundWanted == get_color_value(bg.color)

LoadGlyphLine(c) ==
  LET j == job[c]
      Shade(On(_, _, _), back) ==
        [i \in 0..(GlyphArea(c).w - 1) |->
           IF On(Head(j.text), j.row, i) THEN get_color_value(j.color) ELSE back]
  IN  /\ pc[c] = "glyph"
      /\ j.row < FontHeight
      /\ GlyphFault(c) = "none"
      /\ GlyphLineVisible(c)
      /\ buf' = Loaded(Shade(PixelOn, bg.value))
      /\ pc' = [pc EXCEPT ![c] = "glyph_write"]
      /\ area' = [area EXCEPT ![c] = GlyphArea(c)]
      /\ job' = [job EXCEPT ![c] = NextRow(j)]
      /\ px' = [px EXCEPT ![c] = Shade(GlyphBit, BackgroundWanted)]
      /\ UNCHANGED <<config, bg, blank, fresh, shown, fault>>

-----------------------------------------------------------------------------
(***************************************************************************)
(* display_write, and the next line.                                       *)
(***************************************************************************)
NextLine(a) == [x |-> a.x, w |-> a.w, line |-> a.line + 1, last |-> a.last]

AfterLine(c) ==
  IF pc[c] = "glyph_write" THEN "glyph"
  ELSE Loop(NextLine(area[c]), IF pc[c] = "icon_write" THEN "icon" ELSE "rect")

Writing(c) == pc[c] \in {"rect", "icon_write", "glyph_write"}
LinePixels(a) == {<<a.x + i, a.line>> : i \in 0..(a.w - 1)}
Inside(a) == a.x + a.w <= lcd.xsize /\ a.line < lcd.ysize /\ 0..(a.w - 1) \subseteq DOMAIN buf

\* The driver shows a line of the buffer, which must lie inside the screen and
\* the buffer.  An error is logged and the loop goes on.
DisplayWrite(c) ==
  /\ Writing(c)
  /\ fault' = IF Inside(area[c]) THEN fault ELSE "outside"
  /\ shown' = [shown EXCEPT ![c].done  = @ \cup LinePixels(area[c]),
                            ![c].wrong = @ \/ ~(\A i \in 0..(area[c].w - 1) :
                                                  i \in DOMAIN buf /\ buf[i] = px[c][i])]
  /\ pc' = [pc EXCEPT ![c] = AfterLine(c)]
  /\ area' = [area EXCEPT ![c] = NextLine(area[c])]
  /\ blank' = (blank /\ ~(job[c].unblank /\ AfterLine(c) = "return"))
  /\ UNCHANGED <<config, buf, bg, fresh, job, px>>

Next ==
  /\ fault = "none"
  /\ \/ InitNodev \/ InitNosys \/ InitAlloc \/ SetFont \/ BackgroundAsserts
     \/ \E color \in Backgrounds : SetBackground(color)
     \/ \E c \in Clients, color \in Colors :
          \/ \E r \in Rects : FillRectangle(c, color, r)
          \/ \E r \in Rects : DrawHorizontalLine(c, color, r)
          \/ \E r \in Rects : DrawVerticalLine(c, color, r)
          \/ FillDisplay(c, color)
          \/ \E p \in Places, t \in Texts : DrawStringAt(c, color, p, t)
          \/ \E l \in TextLines, t \in Texts, mode \in {"Left", "Center", "Right"} :
               DrawStringAtLine(c, color, l, t, mode)
     \/ \E c \in Clients :
          \/ RectFails(c) \/ IconFails(c) \/ GlyphFails(c) \/ NoFont(c)
          \/ \E r \in Icons : DrawIcon(c, r)
          \/ LoadIconLine(c) \/ EndText(c) \/ NextChar(c) \/ SkipGlyphLine(c)
          \/ EndGlyph(c) \/ LoadGlyphLine(c) \/ DisplayWrite(c) \/ Return(c)

Spec == Init /\ [][Next]_vars

-----------------------------------------------------------------------------
(***************************************************************************)
(* Properties.                                                             *)
(***************************************************************************)

\* Every line handed to display_write lies inside the screen and inside the
\* line buffer, for any position and size a caller may give, for rotated and
\* unrotated panels and after a second initialize().
WritesFit == fault # "outside"

\* After initialize() has returned ok nothing but a missing font stops a
\* drawing call: the fill functions are set and the buffer exists.
ReadyIsUsable == status = "Ok" => fault \in {"none", "nofont"}

\* A call that has ended has drawn exactly the part of its rectangle, icon or
\* text that lies on the screen, although positions and sizes were narrowed
\* and alignment was computed in unsigned arithmetic.  Not judged are: a
\* rectangle or icon that begins right of the screen (the code draws it in the
\* last column, display.cpp:183), a rectangle of 2^16 or more columns or
\* lines, one whose last line is 2^32 or beyond, and the texts that are not
\* Alignable or whose last line is 2^32 or beyond.
DrawsWhatWasAsked ==
  \A c \in Clients : pc[c] = "return" /\ shown[c].judged => shown[c].done = shown[c].want

\* An aligned text that is narrower than the screen is drawn completely, none
\* of its characters is cut off, if it is Alignable: the screen has less than
\* 2^15 columns, the text less than 2^16, the line ends before pixel 2^32 and,
\* where char is signed, the bytes are below 128.  Other bytes are drawn, but
\* get_string_width takes them for characters the font does not have
\* (display.cpp:273): right-aligned, such a text does lose its end.
AlignedTextWhole ==
  \A c \in Clients :
    pc[c] = "return" /\ shown[c].judged /\ shown[c].columns > 0 /\ shown[c].columns < lcd.xsize
      => Cardinality({p[1] : p \in shown[c].done}) = shown[c].columns

\* The pixels of a call are its own: its colours, its picture and its glyphs,
\* on the background colour of that time, with two exceptions.  Calls that are
\* mixed overwrite each other's line buffer, although display.hpp:46 calls the
\* class interrupt safe.  A text has the wrong background on a panel whose
\* format initialize() has found out after the cached value was computed: an
\* ARGB panel whose background colour was set before, or not at all
\* (display.cpp:162, display.hpp:164).
OwnPixels == \A c \in Clients : shown[c].wrong => shown[c].mixed \/ shown[c].stale

=============================================================================
