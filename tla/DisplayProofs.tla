--------------------------- MODULE DisplayProofs ---------------------------
(***************************************************************************)
(* The properties of Display for every panel, font and argument, and any   *)
(* number of clients: WritesFit and ReadyIsUsable from IInv, OwnPixels     *)
(* from IInv and PixelInv, DrawsWhatWasAsked and AlignedTextWhole from     *)
(* IInv and DoneInv.                                                       *)
(*                                                                         *)
(* The bits of a glyph and the widths of a text are folds, which are       *)
(* beyond the prover: GlyphsAsLaidOut and WidthsAddUp are the facts about  *)
(* them that the last three theorems take from a font.                     *)
(***************************************************************************)
EXTENDS Display, FiniteSetTheorems, SequenceTheorems, WellFoundedInduction, TLAPS

\* The sizes fit in 16 bits; a panel that is not known yet has no pixels.
LcdOK ==
  /\ lcd.xsize \in Nat /\ lcd.xsize < W16
  /\ lcd.ysize \in Nat /\ lcd.ysize < W16
  /\ lcd.xsize = 0 => lcd.ysize = 0

\* A buffer that exists is as long as a line of the panel.
BufOK ==
  /\ buf = << >> \/ (0 \in DOMAIN buf /\ 0..(lcd.xsize - 1) \subseteq DOMAIN buf)
  /\ dev.fmt = "other" => buf = << >>
  /\ fn # "none" => lcd.xsize > 0

\* The lines that a call has to write lie on the screen, and the columns are
\* loaded into the buffer; a text is placed at unsigned coordinates.
Clipped(a) ==
  /\ a.x \in Nat /\ a.w \in Nat /\ a.x + a.w <= lcd.xsize
  /\ a.line \in Nat /\ a.last \in Nat /\ a.line < a.last /\ a.last <= lcd.ysize
InBuffer(a) == 0..(a.w - 1) \subseteq DOMAIN buf
IsText(j) == j.col \in Nat /\ j.y \in Nat /\ j.row \in Nat

CallOK(p, a, j) ==
  /\ p \in {"rect", "icon", "icon_write", "glyph_write"} => Clipped(a)
  /\ p \in {"rect", "icon_write", "glyph_write"} => InBuffer(a)
  /\ p \in {"text", "glyph", "glyph_write"} => IsText(j)
CallsOK ==
  /\ pc = [c \in Clients |-> pc[c]]
  /\ area = [c \in Clients |-> area[c]]
  /\ job = [c \in Clients |-> job[c]]
  /\ \A c \in Clients : CallOK(pc[c], area[c], job[c])

ReadyOK == status = "Ok" => fn # "none" /\ buf # << >> /\ lcd.fmt # "other"

IInv ==
  /\ dev \in Devices
  /\ LcdOK /\ BufOK /\ CallsOK /\ ReadyOK
  /\ WritesFit /\ ReadyIsUsable

-----------------------------------------------------------------------------
(***************************************************************************)
(* Arithmetic.                                                             *)
(***************************************************************************)

\* Remainders of natural numbers.
LEMMA ModFacts ==
  ASSUME NEW a \in Nat, NEW m \in Nat, 0 < m
  PROVE  /\ a % m \in Nat
         /\ a % m < m
         /\ a % m <= a
         /\ a < m => a % m = a
OBVIOUS

\* zpp_lib::min is at most both of its arguments, whatever is narrowed.
LEMMA MinFacts ==
  ASSUME NEW a \in Nat, NEW b \in Nat
  PROVE  min(a, b) \in Nat /\ min(a, b) <= a /\ min(a, b) <= b
BY WidthAssumption, ModFacts DEF min

\* The columns of a rectangle end inside the screen, wherever the caller puts it.
LEMMA ClipFacts ==
  ASSUME LcdOK, lcd.xsize > 0, NEW x \in Nat, NEW w \in Nat
  PROVE  ClipX(x) \in Nat /\ ClipW(x, w) \in Nat /\ ClipX(x) + ClipW(x, w) <= lcd.xsize
<1>1. lcd.xsize - 1 \in Nat /\ (lcd.xsize - 1) % W32 = lcd.xsize - 1
  BY WidthAssumption, ModFacts DEF LcdOK
<1>2. ClipX(x) \in Nat /\ ClipX(x) <= lcd.xsize - 1
  BY <1>1, MinFacts DEF ClipX
<1>3. lcd.xsize - ClipX(x) \in Nat /\ (lcd.xsize - ClipX(x)) % W32 = lcd.xsize - ClipX(x)
  BY <1>2, WidthAssumption, ModFacts DEF LcdOK
<1>4. ClipW(x, w) \in Nat /\ ClipW(x, w) <= lcd.xsize - ClipX(x)
  BY <1>3, MinFacts DEF ClipW
<1> QED
  BY <1>2, <1>4 DEF LcdOK

\* So do the lines.
LEMMA LineFacts ==
  ASSUME LcdOK, NEW y \in Nat, NEW h \in Nat
  PROVE  FirstLine(y) \in Nat /\ LastLine(y, h) \in Nat /\ LastLine(y, h) <= lcd.ysize
<1>1. (y + h) % W32 \in Nat
  BY WidthAssumption, ModFacts
<1> QED
  BY <1>1, MinFacts DEF FirstLine, LastLine, LcdOK

\* The width of a character is a natural number, also for one the font lacks.
LEMMA CharWidthNat ==
  ASSUME NEW u
  PROVE  get_char_width(u) \in Nat
BY FontAssumption DEF get_char_width

\* Both orientations of a panel have pixels, and a line fits in LineLength.
LEMMA NewLcdFacts ==
  ASSUME dev \in Devices
  PROVE  /\ NewLcd.fmt = dev.fmt
         /\ NewLcd.xsize \in Nat /\ 0 < NewLcd.xsize /\ NewLcd.xsize < W16
         /\ NewLcd.ysize \in Nat /\ 0 < NewLcd.ysize /\ NewLcd.ysize < W16
         /\ LineLength \in Nat /\ NewLcd.xsize <= LineLength
BY ResolutionAssumption, WidthAssumption DEF NewLcd, LineLength

-----------------------------------------------------------------------------
(***************************************************************************)
(* Steps of a drawing call.                                                *)
(***************************************************************************)

\* A step that keeps the configuration and the extent of the buffer, and takes
\* one call from a proper place to a proper place, keeps the invariant.
LEMMA StepKeeps ==
  ASSUME IInv, NEW c \in Clients, NEW p, NEW a, NEW j, CallOK(p, a, j),
         pc' = [pc EXCEPT ![c] = p],
         area' = [area EXCEPT ![c] = a],
         job' = [job EXCEPT ![c] = j],
         UNCHANGED config,
         DOMAIN buf' = DOMAIN buf,
         buf # << >> \/ buf' = buf,
         fault' = fault
  PROVE  IInv'
<1>1. buf = << >> <=> buf' = << >>
  BY DEF IInv, BufOK
<1>2. LcdOK' /\ BufOK' /\ ReadyOK' /\ WritesFit' /\ ReadyIsUsable' /\ (dev \in Devices)'
  BY <1>1 DEF IInv, LcdOK, BufOK, ReadyOK, WritesFit, ReadyIsUsable, config
<1>3. ASSUME NEW d \in Clients PROVE CallOK(pc[d], area[d], job[d])'
  <2>1. CallOK(pc'[d], area'[d], job'[d])
    BY DEF IInv, CallsOK
  <2> QED
    BY <2>1 DEF CallOK, Clipped, InBuffer, IsText, config
<1>4. CallsOK'
  BY <1>3 DEF IInv, CallsOK
<1> QED
  BY <1>2, <1>4 DEF IInv

\* Nothing is drawn on a panel that is not known.
LEMMA NoPanel ==
  ASSUME IInv, NEW x \in Nat, NEW y \in Nat, NEW w \in Nat, NEW h \in Nat,
         Area(x, y, w, h).line < Area(x, y, w, h).last
  PROVE  lcd.xsize > 0
<1>1. FirstLine(y) \in Nat /\ LastLine(y, h) \in Nat /\ LastLine(y, h) <= lcd.ysize
  BY LineFacts DEF IInv
<1> QED
  BY <1>1 DEF Area, IInv, LcdOK

\* An area that has lines lies on the screen.
LEMMA AreaClipped ==
  ASSUME IInv, NEW x \in Nat, NEW y \in Nat, NEW w \in Nat, NEW h \in Nat,
         Area(x, y, w, h).line < Area(x, y, w, h).last
  PROVE  Clipped(Area(x, y, w, h))
<1>0. lcd.xsize > 0
  BY NoPanel
<1>1. ClipX(x) \in Nat /\ ClipW(x, w) \in Nat /\ ClipX(x) + ClipW(x, w) <= lcd.xsize
  BY <1>0, ClipFacts DEF IInv
<1>2. FirstLine(y) \in Nat /\ LastLine(y, h) \in Nat /\ LastLine(y, h) <= lcd.ysize
  BY LineFacts DEF IInv
<1> QED
  BY <1>1, <1>2 DEF Clipped, Area, IInv, LcdOK

\* What FillFault tests is enough for the pixels to fit in the buffer.
LEMMA FilledInBuffer ==
  ASSUME IInv, NEW a, Clipped(a), FillFault(a.w) = "none"
  PROVE  /\ InBuffer(a)
         /\ buf = << >> => a.w = 0
BY DEF IInv, LcdOK, BufOK, Clipped, InBuffer, FillFault

\* Rectangles and lines.
LEMMA FillBoxKeeps ==
  ASSUME IInv, NEW c \in Clients, NEW color, NEW r, NEW u,
         NEW x \in Nat, NEW y \in Nat, NEW w \in Nat, NEW h \in Nat,
         FillBox(c, color, x, y, w, h, r, u)
  PROVE  IInv'
<1> DEFINE a == Area(x, y, w, h)
           p == Loop(a, "rect")
           j == RectJob(u)
<1>1. buf # << >> /\ fn # "none"
  BY DEF FillBox, RectFault, FillFault
<1>2. ASSUME a.line < a.last PROVE Clipped(a) /\ InBuffer(a)
  <2>1. Clipped(a)
    BY <1>2, AreaClipped
  <2> QED
    BY <2>1, <1>1 DEF InBuffer, Clipped, IInv, BufOK, LcdOK
<1>3. CallOK(p, a, j)
  BY <1>2 DEF CallOK, Loop
<1>4. /\ pc' = [pc EXCEPT ![c] = p]
      /\ area' = [area EXCEPT ![c] = a]
      /\ job' = [job EXCEPT ![c] = j]
      /\ DOMAIN buf' = DOMAIN buf
      /\ UNCHANGED config /\ fault' = fault
  BY DEF FillBox, FilledWith
<1> HIDE DEF a, p, j
<1> QED
  BY <1>1, <1>3, <1>4, StepKeeps

\* The beginning of an icon.
LEMMA DrawIconKeeps ==
  ASSUME IInv, NEW c \in Clients, NEW r \in Icons, DrawIcon(c, r)
  PROVE  IInv'
<1> DEFINE a == Area(r.x, r.y, r.w, r.h)
           p == Loop(a, "icon")
           j == IconJob(0, r.w, r.y)
<1>1. r.x \in Nat /\ r.y \in Nat /\ r.w \in Nat /\ r.h \in Nat
  BY ArgumentAssumption, WidthAssumption
<1>2. a.line < a.last => Clipped(a)
  BY <1>1, AreaClipped
<1>3. CallOK(p, a, j)
  BY <1>2 DEF CallOK, Loop
<1>4. /\ pc' = [pc EXCEPT ![c] = p]
      /\ area' = [area EXCEPT ![c] = a]
      /\ job' = [job EXCEPT ![c] = j]
      /\ buf' = buf
      /\ UNCHANGED config /\ fault' = fault
  BY DEF DrawIcon
<1> HIDE DEF a, p, j
<1> QED
  BY <1>3, <1>4, StepKeeps

\* A line of an icon is copied.
LEMMA LoadIconLineKeeps ==
  ASSUME IInv, NEW c \in Clients, LoadIconLine(c)
  PROVE  IInv'
<1> DEFINE a == area[c]
           j == IconJob(job[c].src + job[c].stride, job[c].stride, job[c].y)
<1>1. Clipped(a) /\ FillFault(a.w) = "none"
  BY DEF LoadIconLine, IInv, CallsOK, CallOK
<1>2. InBuffer(a)
  BY <1>1, FilledInBuffer
<1>3. CallOK("icon_write", a, j)
  BY <1>1, <1>2 DEF CallOK
<1>4. /\ pc' = [pc EXCEPT ![c] = "icon_write"]
      /\ area' = [area EXCEPT ![c] = a]
      /\ job' = [job EXCEPT ![c] = j]
      /\ UNCHANGED config /\ fault' = fault
  BY DEF LoadIconLine, IInv, CallsOK
<1>5. DOMAIN buf' = DOMAIN buf
  BY DEF LoadIconLine, Loaded
<1>6. buf # << >> \/ buf' = buf
  BY DEF LoadIconLine, Loaded
<1> HIDE DEF a, j
<1> QED
  BY <1>3, <1>4, <1>5, <1>6, StepKeeps

-----------------------------------------------------------------------------
(***************************************************************************)
(* Texts.                                                                  *)
(***************************************************************************)
\* The beginning of a text, at whatever place.
LEMMA DrawTextKeeps ==
  ASSUME IInv, NEW c \in Clients, NEW color, NEW x \in Nat, NEW y \in Nat, NEW text,
         NEW want, NEW judged, NEW columns,
         DrawText(c, color, x, y, text, want, judged, columns)
  PROVE  IInv'
<1> DEFINE j == TextJob(color, text, StartColumn(x), y, 0)
<1>1. CallOK("text", area[c], j)
  BY DEF CallOK, IsText, TextJob, StartColumn
<1>2. /\ pc' = [pc EXCEPT ![c] = "text"]
      /\ area' = [area EXCEPT ![c] = area[c]]
      /\ job' = [job EXCEPT ![c] = j]
      /\ buf' = buf
      /\ UNCHANGED config /\ fault' = fault
  BY DEF DrawText, IInv, CallsOK
<1> HIDE DEF j
<1> QED
  BY <1>1, <1>2, StepKeeps

\* Whatever the alignment computes is an unsigned column.
LEMMA AlignedNat ==
  ASSUME IInv, NEW mode \in {"Left", "Center", "Right"}, NEW text \in Texts
  PROVE  AlignedX(mode, get_string_width(text)) \in Nat
<1> DEFINE n == get_string_width(text)
<1>1. n \in Int
  BY StringWidthAssumption, DeviceAssumption, WidthAssumption DEF get_string_width, IInv
<1>2. lcd.xsize - n \in Int /\ lcd.xsize \div 2 - n \div 2 \in Int
  BY <1>1 DEF IInv, LcdOK
<1> HIDE DEF n
<1>3. (lcd.xsize - n) % W32 \in Nat /\ (lcd.xsize \div 2 - n \div 2) % W32 \in Nat
  BY <1>2, WidthAssumption
<1> QED
  BY <1>3 DEF AlignedX, n

\* The text ends.
LEMMA EndTextKeeps ==
  ASSUME IInv, NEW c \in Clients, EndText(c)
  PROVE  IInv'
<1>1. CallOK("return", area[c], job[c])
  BY DEF CallOK
<1>2. /\ pc' = [pc EXCEPT ![c] = "return"]
      /\ area' = [area EXCEPT ![c] = area[c]]
      /\ job' = [job EXCEPT ![c] = job[c]]
      /\ buf' = buf
      /\ UNCHANGED config /\ fault' = fault
  BY DEF EndText, IInv, CallsOK
<1> QED
  BY <1>1, <1>2, StepKeeps

\* A character is taken from the text.
LEMMA NextCharKeeps ==
  ASSUME IInv, NEW c \in Clients, NextChar(c)
  PROVE  IInv'
<1> DEFINE j == TextJob(job[c].color, Tail(job[c].text), job[c].col, job[c].y, 0)
<1>1. pc[c] = "text" /\ IsText(job[c])
  BY DEF NextChar, IInv, CallsOK, CallOK
<1>2. area' = [area EXCEPT ![c] = area[c]] /\ buf' = buf /\ UNCHANGED config /\ fault' = fault
  BY DEF NextChar, IInv, CallsOK
<1>3. CASE pc' = [pc EXCEPT ![c] = "glyph"] /\ job' = job
  <2>1. CallOK("glyph", area[c], job[c])
    BY <1>1 DEF CallOK
  <2>2. job' = [job EXCEPT ![c] = job[c]]
    BY <1>3 DEF IInv, CallsOK
  <2> QED
    BY <1>2, <1>3, <2>1, <2>2, StepKeeps
<1>4. CASE pc' = pc /\ job' = [job EXCEPT ![c] = j]
  <2>1. CallOK("text", area[c], j)
    BY <1>1 DEF CallOK, IsText, TextJob
  <2>2. pc' = [pc EXCEPT ![c] = "text"]
    BY <1>1, <1>4 DEF IInv, CallsOK
  <2> HIDE DEF j
  <2> QED
    BY <1>2, <1>4, <2>1, <2>2, StepKeeps
<1> QED
  BY <1>3, <1>4 DEF NextChar

\* A line of a character is below the screen.
LEMMA SkipGlyphLineKeeps ==
  ASSUME IInv, NEW c \in Clients, SkipGlyphLine(c)
  PROVE  IInv'
<1>1. IsText(job[c])
  BY DEF SkipGlyphLine, IInv, CallsOK, CallOK
<1>2. CallOK("glyph", area[c], NextRow(job[c]))
  BY <1>1 DEF CallOK, IsText, NextRow, TextJob
<1>3. /\ pc' = [pc EXCEPT ![c] = "glyph"]
      /\ area' = [area EXCEPT ![c] = area[c]]
      /\ job' = [job EXCEPT ![c] = NextRow(job[c])]
      /\ buf' = buf
      /\ UNCHANGED config /\ fault' = fault
  BY DEF SkipGlyphLine, IInv, CallsOK
<1> QED
  BY <1>2, <1>3, StepKeeps

\* The last line of a character has been drawn.
LEMMA EndGlyphKeeps ==
  ASSUME IInv, NEW c \in Clients, EndGlyph(c)
  PROVE  IInv'
<1> DEFINE j == TextJob(job[c].color, Tail(job[c].text), TotalWidth(c), job[c].y, 0)
<1>1. IsText(job[c])
  BY DEF EndGlyph, IInv, CallsOK, CallOK
<1>2. TotalWidth(c) \in Nat
  BY <1>1, CharWidthNat DEF TotalWidth, IsText
<1>3. CallOK("text", area[c], j)
  BY <1>1, <1>2 DEF CallOK, IsText, TextJob
<1>4. /\ pc' = [pc EXCEPT ![c] = "text"]
      /\ area' = [area EXCEPT ![c] = area[c]]
      /\ job' = [job EXCEPT ![c] = j]
      /\ buf' = buf
      /\ UNCHANGED config /\ fault' = fault
  BY DEF EndGlyph, IInv, CallsOK
<1> HIDE DEF j
<1> QED
  BY <1>3, <1>4, StepKeeps

\* A line of a character is put into the buffer.
LEMMA LoadGlyphLineKeeps ==
  ASSUME IInv, NEW c \in Clients, LoadGlyphLine(c)
  PROVE  IInv'
<1> DEFINE a == GlyphArea(c)
           j == NextRow(job[c])
<1>1. IsText(job[c])
  BY DEF LoadGlyphLine, IInv, CallsOK, CallOK
<1>2. a.line < a.last /\ FillFault(a.w) = "none"
  BY DEF LoadGlyphLine, GlyphFault, GlyphLineVisible
<1>3. (job[c].y + job[c].row) % W32 \in Nat
  BY <1>1, WidthAssumption, ModFacts DEF IsText
<1>4. Clipped(a)
  BY <1>1, <1>2, <1>3, CharWidthNat, AreaClipped DEF GlyphArea, IsText
<1>5. InBuffer(a)
  BY <1>2, <1>4, FilledInBuffer
<1>6. CallOK("glyph_write", a, j)
  BY <1>1, <1>4, <1>5 DEF CallOK, IsText, NextRow, TextJob
<1>7. /\ pc' = [pc EXCEPT ![c] = "glyph_write"]
      /\ area' = [area EXCEPT ![c] = a]
      /\ job' = [job EXCEPT ![c] = j]
      /\ UNCHANGED config /\ fault' = fault
  BY DEF LoadGlyphLine
<1>8. DOMAIN buf' = DOMAIN buf
  BY DEF LoadGlyphLine, Loaded
<1>9. buf # << >> \/ buf' = buf
  BY DEF LoadGlyphLine, Loaded
<1> HIDE DEF a, j
<1> QED
  BY <1>6, <1>7, <1>8, <1>9, StepKeeps

-----------------------------------------------------------------------------
(***************************************************************************)
(* display_write, the end of a call, and the configuration.                *)
(***************************************************************************)
LEMMA DisplayWriteKeeps ==
  ASSUME IInv, NEW c \in Clients, DisplayWrite(c)
  PROVE  IInv'
<1> DEFINE a == NextLine(area[c])
           p == AfterLine(c)
<1>1. /\ Clipped(area[c]) /\ InBuffer(area[c])
      /\ pc[c] = "glyph_write" => IsText(job[c])
      /\ pc[c] \in {"rect", "icon_write", "glyph_write"}
  BY DEF DisplayWrite, Writing, IInv, CallsOK, CallOK
<1>2. Inside(area[c])
  BY <1>1 DEF Inside, Clipped, InBuffer, IInv, LcdOK
<1>3. a.line < a.last => Clipped(a)
  BY <1>1 DEF Clipped, NextLine
<1>4. InBuffer(a)
  BY <1>1 DEF InBuffer, NextLine
<1>5. CallOK(p, a, job[c])
  BY <1>1, <1>3, <1>4 DEF CallOK, AfterLine, Loop
<1>6. /\ pc' = [pc EXCEPT ![c] = p]
      /\ area' = [area EXCEPT ![c] = a]
      /\ job' = [job EXCEPT ![c] = job[c]]
      /\ buf' = buf
      /\ UNCHANGED config /\ fault' = fault
  BY <1>2 DEF DisplayWrite, IInv, CallsOK
<1> HIDE DEF a, p
<1> QED
  BY <1>5, <1>6, StepKeeps

\* A call returns.
LEMMA ReturnKeeps ==
  ASSUME IInv, NEW c \in Clients, Return(c)
  PROVE  IInv'
<1>1. CallOK("idle", NoArea, NoJob)
  BY DEF CallOK
<1>2. /\ pc' = [pc EXCEPT ![c] = "idle"]
      /\ area' = [area EXCEPT ![c] = NoArea]
      /\ job' = [job EXCEPT ![c] = NoJob]
      /\ buf' = buf
      /\ UNCHANGED config /\ fault' = fault
  BY DEF Return
<1> QED
  BY <1>1, <1>2, StepKeeps

\* initialize() is called when nobody draws, and gives a panel, fill functions
\* and a buffer that fit together, or an error.
LEMMA InitializeKeeps ==
  ASSUME IInv, InitNodev \/ InitNosys \/ InitAlloc, fault = "none"
  PROVE  IInv'
<1>1. \A c \in Clients : pc[c] = "idle"
  BY DEF InitNodev, InitNosys, InitAlloc, MayInitialize, Busy
<1>2. pc' = pc /\ area' = area /\ job' = job /\ fault' = fault /\ dev' = dev
  BY DEF InitNodev, InitNosys, InitAlloc, call
<1>3. CallsOK'
  BY <1>1, <1>2 DEF IInv, CallsOK, CallOK
<1>4. WritesFit' /\ ReadyIsUsable' /\ (dev \in Devices)'
  BY <1>2 DEF IInv, WritesFit, ReadyIsUsable
<1>5. CASE InitNodev
  BY <1>3, <1>4, <1>5 DEF InitNodev, IInv, LcdOK, BufOK, ReadyOK
<1>6. CASE InitNosys
  <2>1. LcdOK'
    BY <1>6, NewLcdFacts DEF InitNosys, IInv, LcdOK
  <2>2. BufOK'
    BY <1>6, NewLcdFacts DEF InitNosys, IInv, BufOK
  <2>3. ReadyOK'
    BY <1>6 DEF InitNosys, ReadyOK
  <2> QED
    BY <1>3, <1>4, <2>1, <2>2, <2>3 DEF IInv
<1>7. CASE InitAlloc
  <2>1. LcdOK'
    BY <1>7, NewLcdFacts DEF InitAlloc, IInv, LcdOK
  <2>2. dev'.fmt # "other" /\ lcd'.xsize > 0 /\ lcd'.fmt = dev.fmt /\ fn' = dev.fmt
    BY <1>7, NewLcdFacts DEF InitAlloc, IInv
  <2>3. buf' = << >> \/ buf' = [i \in 0..(LineLength - 1) |-> LeftOver]
    BY <1>7 DEF InitAlloc
  <2>4. status' = "Ok" => buf' = [i \in 0..(LineLength - 1) |-> LeftOver]
    BY <1>7 DEF InitAlloc
  <2>5. lcd'.xsize <= LineLength /\ LineLength \in Nat
    BY <1>7, NewLcdFacts DEF InitAlloc, IInv
  <2>6. BufOK'
    BY <2>1, <2>2, <2>3, <2>5 DEF BufOK, LcdOK
  <2>7. fn' # "none"
    BY <2>2, DeviceAssumption DEF IInv
  <2>8. status' = "Ok" => 0 \in DOMAIN buf'
    BY <2>1, <2>2, <2>4, <2>5 DEF LcdOK
  <2>9. ReadyOK'
    BY <2>2, <2>7, <2>8, <1>2 DEF ReadyOK
  <2> QED
    BY <1>3, <1>4, <2>1, <2>6, <2>9 DEF IInv
<1> QED
  BY <1>5, <1>6, <1>7

\* set_background_color and set_font touch nothing that a line depends on.
LEMMA SettingsKeep ==
  ASSUME IInv, UNCHANGED <<dev, lcd, fn, heap, status, buf, call, fault>>
  PROVE  IInv'
BY DEF IInv, LcdOK, BufOK, CallsOK, CallOK, Clipped, InBuffer, IsText, ReadyOK, WritesFit,
       ReadyIsUsable, call

\* A call that stops the system before initialize() has succeeded, or without
\* a font, says so.
LEMMA FailKeeps ==
  ASSUME IInv, NEW what, Fail(what), what # "outside", status = "Ok" => what = "nofont"
  PROVE  IInv'
<1>1. WritesFit' /\ ReadyIsUsable'
  BY DEF Fail, WritesFit, ReadyIsUsable, config
<1> QED
  BY <1>1 DEF Fail, IInv, LcdOK, BufOK, CallsOK, CallOK, Clipped, InBuffer, IsText, ReadyOK,
              call, config

\* A background colour on a panel with an unknown format.
LEMMA BackgroundAssertsKeeps ==
  ASSUME IInv, BackgroundAsserts
  PROVE  IInv'
<1>1. status # "Ok"
  BY DEF BackgroundAsserts, IInv, ReadyOK
<1> QED
  BY <1>1, FailKeeps DEF BackgroundAsserts

\* A call on a panel that is not ready stops the system, and initialize() has said so.
LEMMA FaultsKeep ==
  ASSUME IInv, NEW c \in Clients,
         RectFails(c) \/ IconFails(c) \/ GlyphFails(c) \/ NoFont(c)
  PROVE  IInv'
<1>1. ASSUME NEW w PROVE FillFault(w) # "outside" /\ (status = "Ok" => FillFault(w) = "none")
  BY DEF FillFault, IInv, ReadyOK
<1>2. status = "Ok" => lcd.fmt # "other"
  BY DEF IInv, ReadyOK
<1>3. RectFault # "outside" /\ (status = "Ok" => RectFault = "none")
  BY <1>1, <1>2 DEF RectFault
<1>4. GlyphFault(c) # "outside" /\ (status = "Ok" => GlyphFault(c) = "none")
  BY <1>1, <1>2 DEF GlyphFault
<1>6. CASE RectFails(c)
  BY <1>3, <1>6, FailKeeps DEF RectFails
<1>7. CASE IconFails(c)
  BY <1>1, <1>7, FailKeeps DEF IconFails
<1>8. CASE GlyphFails(c)
  BY <1>4, <1>8, FailKeeps DEF GlyphFails
<1>9. CASE NoFont(c)
  BY <1>9, FailKeeps DEF NoFont
<1> QED
  BY <1>6, <1>7, <1>8, <1>9

-----------------------------------------------------------------------------
(***************************************************************************)
(* The theorems.                                                           *)
(***************************************************************************)
LEMMA InitIInv == Init => IInv
<1> SUFFICES ASSUME Init PROVE IInv
  OBVIOUS
<1>1. dev \in Devices /\ WritesFit /\ ReadyIsUsable /\ ReadyOK
  BY DEF Init, WritesFit, ReadyIsUsable, ReadyOK
<1>2. LcdOK /\ BufOK
  BY WidthAssumption DEF Init, LcdOK, BufOK
<1>3. CallsOK
  BY DEF Init, CallsOK, CallOK
<1> QED
  BY <1>1, <1>2, <1>3 DEF IInv

\* Every call with the arguments its types allow.
LEMMA DrawingKeeps ==
  ASSUME IInv, NEW c \in Clients, NEW color \in Colors,
         \/ \E r \in Rects : FillRectangle(c, color, r)
         \/ \E r \in Rects : DrawHorizontalLine(c, color, r)
         \/ \E r \in Rects : DrawVerticalLine(c, color, r)
         \/ FillDisplay(c, color)
         \/ \E p \in Places, t \in Texts : DrawStringAt(c, color, p, t)
         \/ \E l \in TextLines, t \in Texts, mode \in {"Left", "Center", "Right"} :
              DrawStringAtLine(c, color, l, t, mode)
  PROVE  IInv'
<1>1. ASSUME NEW r \in Rects
      PROVE  r.x \in Nat /\ r.y \in Nat /\ r.w \in Nat /\ r.h \in Nat
  BY ArgumentAssumption, WidthAssumption
<1>2. ASSUME NEW r \in Rects, FillRectangle(c, color, r) \/ DrawHorizontalLine(c, color, r)
                              \/ DrawVerticalLine(c, color, r)
      PROVE  IInv'
  BY <1>1, <1>2, FillBoxKeeps DEF FillRectangle, DrawHorizontalLine, DrawVerticalLine
<1>3. ASSUME FillDisplay(c, color) PROVE IInv'
  <2>1. lcd.xsize \in Nat /\ lcd.ysize \in Nat /\ 0 \in Nat
    BY DEF IInv, LcdOK
  <2> QED
    BY <1>3, <2>1, FillBoxKeeps DEF FillDisplay
<1>4. ASSUME NEW p \in Places, NEW t \in Texts, DrawStringAt(c, color, p, t) PROVE IInv'
  <2>1. p[1] \in Nat /\ p[2] \in Nat
    BY ArgumentAssumption, WidthAssumption
  <2> QED
    BY <1>4, <2>1, DrawTextKeeps DEF DrawStringAt
<1>5. ASSUME NEW l \in TextLines, NEW t \in Texts, NEW mode \in {"Left", "Center", "Right"},
             DrawStringAtLine(c, color, l, t, mode)
      PROVE  IInv'
  <2>1. l \in Nat /\ FontHeight \in Nat
    BY ArgumentAssumption, WidthAssumption
  <2>2. l * FontHeight \in Nat
    BY <2>1
  <2>3. compute_ypos_from_line_number(l) \in Nat
    BY <2>2, WidthAssumption, ModFacts DEF compute_ypos_from_line_number
  <2>4. AlignedX(mode, get_string_width(t)) \in Nat
    BY AlignedNat
  <2> QED
    BY <1>5, <2>3, <2>4, DrawTextKeeps DEF DrawStringAtLine
<1> QED
  BY <1>2, <1>3, <1>4, <1>5

\* Every step keeps the invariant.
LEMMA NextIInv ==
  ASSUME IInv, [Next]_vars
  PROVE  IInv'
<1>1. CASE UNCHANGED vars
  BY <1>1, SettingsKeep DEF vars, config
<1>2. CASE Next
  <2>1. CASE InitNodev \/ InitNosys \/ InitAlloc
    BY <1>2, <2>1, InitializeKeeps DEF Next
  <2>2. CASE SetFont \/ \E color \in Backgrounds : SetBackground(color)
    BY <2>2, SettingsKeep DEF SetFont, SetBackground, config
  <2>3. CASE BackgroundAsserts
    BY <2>3, BackgroundAssertsKeeps
  <2>4. ASSUME NEW c \in Clients, NEW color \in Colors,
               \/ \E r \in Rects : FillRectangle(c, color, r)
               \/ \E r \in Rects : DrawHorizontalLine(c, color, r)
               \/ \E r \in Rects : DrawVerticalLine(c, color, r)
               \/ FillDisplay(c, color)
               \/ \E p \in Places, t \in Texts : DrawStringAt(c, color, p, t)
               \/ \E l \in TextLines, t \in Texts, mode \in {"Left", "Center", "Right"} :
                    DrawStringAtLine(c, color, l, t, mode)
        PROVE  IInv'
    BY <2>4, DrawingKeeps
  <2>5. ASSUME NEW c \in Clients,
               RectFails(c) \/ IconFails(c) \/ GlyphFails(c) \/ NoFont(c)
        PROVE  IInv'
    BY <2>5, FaultsKeep
  <2>6. ASSUME NEW c \in Clients,
               (\E r \in Icons : DrawIcon(c, r)) \/ LoadIconLine(c) \/ EndText(c) \/ NextChar(c)
        PROVE  IInv'
    BY <2>6, DrawIconKeeps, LoadIconLineKeeps, EndTextKeeps, NextCharKeeps
  <2>7. ASSUME NEW c \in Clients,
               SkipGlyphLine(c) \/ EndGlyph(c) \/ LoadGlyphLine(c) \/ DisplayWrite(c) \/ Return(c)
        PROVE  IInv'
    BY <2>7, SkipGlyphLineKeeps, EndGlyphKeeps, LoadGlyphLineKeeps, DisplayWriteKeeps, ReturnKeeps
  <2> QED
    BY <1>2, <2>1, <2>2, <2>3, <2>4, <2>5, <2>6, <2>7 DEF Next
<1> QED
  BY <1>1, <1>2

\* No line is ever written outside the screen or the line buffer, for every
\* panel, font and argument: clipping is right at all widths although positions
\* and sizes are narrowed to 16 bits.
THEOREM WritesAlwaysFit == Spec => []WritesFit
<1>1. IInv => WritesFit
  BY DEF IInv
<1> QED
  BY InitIInv, NextIInv, <1>1, PTL DEF Spec

\* After initialize() has returned ok, only a missing font can stop a call.
THEOREM ReadyStaysUsable == Spec => []ReadyIsUsable
<1>1. IInv => ReadyIsUsable
  BY DEF IInv
<1> QED
  BY InitIInv, NextIInv, <1>1, PTL DEF Spec

-----------------------------------------------------------------------------
(***************************************************************************)
(* OwnPixels.  A call that is not mixed with another is the only one under *)
(* way, so that what it has put into the buffer is there when it writes; a *)
(* text that is not stale has a background of the format in use.           *)
(***************************************************************************)
IsShown(s) ==
  /\ {"want", "done", "judged", "columns", "mixed", "stale", "wrong"} \subseteq DOMAIN s
  /\ s.mixed \in BOOLEAN /\ s.stale \in BOOLEAN /\ s.wrong \in BOOLEAN

\* The columns that the call writes hold the pixels it should show.
Held(c) == \A i \in 0..(area[c].w - 1) : i \in DOMAIN buf /\ buf[i] = px[c][i]

\* The source of an icon is at the line that is drawn next, and a character
\* that is drawn is one of the font.
IconAt(j, line) ==
  /\ j.src \in Nat /\ j.stride \in Nat /\ j.y \in Nat
  /\ j.src = (line - j.y) * j.stride
PlaceOK(p, a, j) ==
  /\ p = "icon" => IconAt(j, a.line)
  /\ p = "icon_write" => IconAt(j, a.line + 1)
  /\ p \in {"glyph", "glyph_write"} => HasGlyph(Head(j.text))

\* The cached background value is that of the format in use.
FreshOK == fresh /\ lcd.fmt # "other" => bg.value = get_color_value(bg.color)

InText(p) == p \in {"text", "glyph", "glyph_write"}

PixelInv ==
  /\ FreshOK
  /\ shown = [c \in Clients |-> shown[c]] /\ px = [c \in Clients |-> px[c]]
  /\ \A c \in Clients : IsShown(shown[c]) /\ PlaceOK(pc[c], area[c], job[c])
  /\ \A c, d \in Clients : c # d /\ Busy(c) /\ Busy(d) => shown[c].mixed
  /\ \A c \in Clients : InText(pc[c]) => shown[c].stale \/ fresh
  /\ \A c \in Clients : Writing(c) /\ ~shown[c].mixed /\ ~shown[c].stale => Held(c)
  /\ OwnPixels

\* A step of c after which every other call under way counts as mixed: only
\* the pixels of c itself have to be looked at.
LEMMA PixelStep ==
  ASSUME IInv, PixelInv, FreshOK', fresh' = fresh, NEW c \in Clients, NEW p, NEW a, NEW j, NEW q,
         pc' = [pc EXCEPT ![c] = p], area' = [area EXCEPT ![c] = a],
         job' = [job EXCEPT ![c] = j], px' = [px EXCEPT ![c] = q],
         shown' = [d \in Clients |-> shown'[d]],
         \A d \in Clients \ {c} :
           /\ IsShown(shown'[d])
           /\ shown'[d].wrong = shown[d].wrong /\ shown'[d].stale = shown[d].stale
           /\ shown[d].mixed \/ Busy(d) => shown'[d].mixed,
         IsShown(shown'[c]), PlaceOK(p, a, j),
         p # "idle" /\ (\E d \in Clients \ {c} : Busy(d)) => shown'[c].mixed,
         InText(p) => shown'[c].stale \/ fresh,
         p \in {"rect", "icon_write", "glyph_write"} /\ ~shown'[c].mixed /\ ~shown'[c].stale =>
           \A i \in 0..(a.w - 1) : i \in DOMAIN buf' /\ buf'[i] = q[i],
         shown'[c].wrong => shown'[c].mixed \/ shown'[c].stale
  PROVE  PixelInv'
<1>1. /\ pc'[c] = p /\ area'[c] = a /\ job'[c] = j /\ px'[c] = q
      /\ \A d \in Clients \ {c} : pc'[d] = pc[d] /\ area'[d] = area[d] /\ job'[d] = job[d]
  BY DEF IInv, CallsOK, PixelInv
<1>2. px' = [d \in Clients |-> px'[d]]
  BY DEF PixelInv
<1>3. ASSUME NEW d \in Clients PROVE IsShown(shown'[d]) /\ PlaceOK(pc'[d], area'[d], job'[d])
  BY <1>1 DEF PixelInv
<1>4. ASSUME NEW d \in Clients, NEW e \in Clients, d # e, pc'[d] # "idle", pc'[e] # "idle"
      PROVE  shown'[d].mixed
  BY <1>1, <1>4 DEF Busy
<1>5. ASSUME NEW d \in Clients, pc'[d] \in {"rect", "icon_write", "glyph_write"},
             ~shown'[d].mixed, ~shown'[d].stale
      PROVE  Held(d)'
  <2>1. d = c
    BY <1>1, <1>5 DEF Busy
  <2> QED
    BY <1>1, <1>5, <2>1 DEF Held
<1>6. OwnPixels'
  BY DEF PixelInv, OwnPixels
<1>7. ASSUME NEW d \in Clients PROVE IsShown(shown[d])' /\ PlaceOK(pc[d], area[d], job[d])'
  BY <1>3 DEF IsShown, PlaceOK, IconAt, HasGlyph
<1>8. ASSUME NEW d \in Clients, InText(pc'[d]) PROVE shown'[d].stale \/ fresh'
  BY <1>1, <1>8 DEF PixelInv
<1>9. (\A d \in Clients : InText(pc[d]) => shown[d].stale \/ fresh)'
  BY <1>8 DEF InText
<1> QED
  BY <1>2, <1>4, <1>5, <1>6, <1>7, <1>9 DEF PixelInv, Busy, Writing

\* A call goes on; all it may change of its history are done and wrong.
LEMMA GoesOn ==
  ASSUME IInv, PixelInv, FreshOK', fresh' = fresh,
         NEW c \in Clients, NEW p, NEW a, NEW j, NEW q, Busy(c),
         pc' = [pc EXCEPT ![c] = p], area' = [area EXCEPT ![c] = a],
         job' = [job EXCEPT ![c] = j], px' = [px EXCEPT ![c] = q], PlaceOK(p, a, j),
         shown' = shown, InText(p) => InText(pc[c]),
         p \in {"rect", "icon_write", "glyph_write"} /\ ~shown[c].stale =>
           \A i \in 0..(a.w - 1) : i \in DOMAIN buf' /\ buf'[i] = q[i]
  PROVE  PixelInv'
<1>1. ASSUME NEW d \in Clients \ {c}
      PROVE  /\ IsShown(shown'[d])
             /\ shown'[d].wrong = shown[d].wrong /\ shown'[d].stale = shown[d].stale
             /\ shown[d].mixed \/ Busy(d) => shown'[d].mixed
  BY <1>1 DEF PixelInv
<1>2. ASSUME NEW d \in Clients \ {c}, Busy(d) PROVE shown'[c].mixed
  BY <1>2 DEF PixelInv
<1>3. /\ IsShown(shown'[c]) /\ (shown'[c].wrong => shown'[c].mixed \/ shown'[c].stale)
      /\ shown' = [d \in Clients |-> shown'[d]]
  BY DEF PixelInv, OwnPixels
<1>4. InText(p) => shown'[c].stale \/ fresh
  BY DEF PixelInv
<1> QED
  BY <1>1, <1>2, <1>3, <1>4, PixelStep

\* A call begins.
LEMMA Begins ==
  ASSUME IInv, PixelInv, FreshOK', fresh' = fresh, NEW c \in Clients, NEW p, NEW a, NEW j, NEW q,
         NEW want, NEW judged, NEW columns, NEW stale \in BOOLEAN,
         Begin(c, want, judged, columns, stale), InText(p) => stale \/ fresh,
         pc' = [pc EXCEPT ![c] = p], area' = [area EXCEPT ![c] = a],
         job' = [job EXCEPT ![c] = j], px' = [px EXCEPT ![c] = q], PlaceOK(p, a, j),
         p \in {"rect", "icon_write", "glyph_write"} =>
           \A i \in 0..(a.w - 1) : i \in DOMAIN buf' /\ buf'[i] = q[i]
  PROVE  PixelInv'
<1>1. ASSUME NEW d \in Clients \ {c}
      PROVE  /\ IsShown(shown'[d])
             /\ shown'[d].wrong = shown[d].wrong /\ shown'[d].stale = shown[d].stale
             /\ shown[d].mixed \/ Busy(d) => shown'[d].mixed
  <2>1. shown'[d] = [shown[d] EXCEPT !.mixed = @ \/ Busy(d)] /\ IsShown(shown[d])
    BY <1>1 DEF Begin, PixelInv
  <2>2. Busy(d) \in BOOLEAN
    BY DEF Busy
  <2> QED
    BY <2>1, <2>2 DEF IsShown
<1> DEFINE m == \E e \in Clients \ {c} : Busy(e)
<1>2. shown'[c] = [want |-> want, done |-> {}, judged |-> judged, columns |-> columns,
                   mixed |-> m, stale |-> stale, wrong |-> FALSE]
  BY DEF Begin
<1>3. m \in BOOLEAN
  OBVIOUS
<1> HIDE DEF m
<1>4. /\ IsShown(shown'[c]) /\ ~shown'[c].wrong
      /\ shown'[c].mixed = m /\ shown'[c].stale = stale
  BY <1>2, <1>3 DEF IsShown
<1>5. shown' = [d \in Clients |-> shown'[d]]
  BY DEF Begin
<1>6. (\E d \in Clients \ {c} : Busy(d)) => shown'[c].mixed
  BY <1>4 DEF m
<1> QED
  BY <1>1, <1>4, <1>5, <1>6, PixelStep

\* Rectangles and lines: the whole buffer has the colour.
LEMMA FillBoxOwn ==
  ASSUME IInv, IInv', PixelInv, NEW c \in Clients, NEW color, NEW r, NEW u,
         NEW x, NEW y, NEW w, NEW h, FillBox(c, color, x, y, w, h, r, u)
  PROVE  PixelInv'
<1> DEFINE a == Area(x, y, w, h)
           p == Loop(a, "rect")
           j == RectJob(u)
           q == [i \in 0..(ClipW(x, w) - 1) |-> get_color_value(color)]
           judged == x < lcd.xsize /\ w < W16 /\ h < W16 /\ y + h < W32
<1>1. /\ pc' = [pc EXCEPT ![c] = p] /\ area' = [area EXCEPT ![c] = a]
      /\ job' = [job EXCEPT ![c] = j] /\ px' = [px EXCEPT ![c] = q]
      /\ Begin(c, r, judged, 0, FALSE) /\ buf' = FilledWith(color)
  BY DEF FillBox
<1>2. a.w = ClipW(x, w)
  BY DEF Area
<1>3. p \in {"rect", "return"}
  BY DEF Loop
<1>4. PlaceOK(p, a, j)
  BY <1>3 DEF PlaceOK
<1>5. FreshOK' /\ fresh' = fresh /\ ~InText(p)
  BY <1>3 DEF FillBox, PixelInv, FreshOK, config, get_color_value, InText
<1> HIDE DEF a, p, j, judged
<1>6. ASSUME p \in {"rect", "icon_write", "glyph_write"}, NEW i \in 0..(a.w - 1)
      PROVE  i \in DOMAIN buf' /\ buf'[i] = q[i]
  <2>1. pc'[c] = "rect" /\ area'[c] = a
    BY <1>1, <1>3, <1>6 DEF IInv, CallsOK
  <2>2. 0..(area'[c].w - 1) \subseteq DOMAIN buf'
    BY <2>1 DEF IInv, CallsOK, CallOK, InBuffer
  <2>3. i \in DOMAIN buf'
    BY <1>6, <2>1, <2>2
  <2> QED
    BY <1>1, <1>2, <1>6, <2>3 DEF FilledWith
<1> HIDE DEF q
<1> QED
  BY <1>1, <1>4, <1>5, <1>6, Begins

\* The beginning of an icon: a line that is drawn first is the first line of
\* the picture, because the lines are cut off at the bottom only.
LEMMA DrawIconOwn ==
  ASSUME IInv, PixelInv, NEW c \in Clients, NEW r \in Icons, DrawIcon(c, r)
  PROVE  PixelInv'
<1> DEFINE a == Area(r.x, r.y, r.w, r.h)
           p == Loop(a, "icon")
           j == IconJob(0, r.w, r.y)
<1>1. r.y \in Nat /\ r.w \in Nat /\ r.h \in Nat /\ r.y < W16
  BY ArgumentAssumption, WidthAssumption
<1>2. ASSUME p = "icon" PROVE a.line = r.y
  <2>1. FirstLine(r.y) < LastLine(r.y, r.h)
    BY <1>2 DEF Loop, Area
  <2>2. LastLine(r.y, r.h) <= lcd.ysize /\ LastLine(r.y, r.h) \in Nat /\ lcd.ysize \in Nat
    BY <1>1, LineFacts DEF IInv, LcdOK
  <2>3. r.y % W16 = r.y /\ lcd.ysize % W16 = lcd.ysize
    BY <1>1, ModFacts, WidthAssumption DEF IInv, LcdOK
  <2>4. FirstLine(r.y) = r.y \/ FirstLine(r.y) = lcd.ysize
    BY <2>3 DEF FirstLine, min
  <2> QED
    BY <1>1, <2>1, <2>2, <2>4 DEF Area
<1>3. p \in {"icon", "return"}
  BY DEF Loop
<1>4. j.src = 0 /\ j.stride = r.w /\ j.y = r.y
  BY DEF IconJob
<1> HIDE DEF a, p, j
<1>5. PlaceOK(p, a, j)
  <2>1. (r.y - r.y) * r.w = 0
    BY <1>1
  <2> QED
    BY <1>1, <1>2, <1>3, <1>4, <2>1 DEF PlaceOK, IconAt
<1>6. /\ pc' = [pc EXCEPT ![c] = p] /\ area' = [area EXCEPT ![c] = a]
      /\ job' = [job EXCEPT ![c] = j] /\ px' = [px EXCEPT ![c] = px[c]]
      /\ Begin(c, Box(r.x, r.y, r.w, r.h), r.x < lcd.xsize, 0, FALSE)
  BY DEF DrawIcon, PixelInv, a, p, j
<1>7. FreshOK' /\ fresh' = fresh /\ ~InText(p)
  BY <1>3 DEF DrawIcon, PixelInv, FreshOK, config, get_color_value, InText
<1> QED
  BY <1>3, <1>5, <1>6, <1>7, Begins

\* A line of an icon is copied from where the picture has it.
LEMMA LoadIconLineOwn ==
  ASSUME IInv, IInv', PixelInv, NEW c \in Clients, LoadIconLine(c)
  PROVE  PixelInv'
<1> DEFINE a == area[c]
           s == job[c].src
           j == IconJob(s + job[c].stride, job[c].stride, job[c].y)
           q == [i \in 0..(a.w - 1) |-> [f |-> "src", n |-> s + i]]
<1>1. pc[c] = "icon" /\ IconAt(job[c], a.line) /\ Clipped(a)
  BY DEF LoadIconLine, PixelInv, PlaceOK, IInv, CallsOK, CallOK
<1>2. s = (a.line - job[c].y) * job[c].stride
  BY <1>1 DEF IconAt
<1>3. /\ pc' = [pc EXCEPT ![c] = "icon_write"] /\ area' = [area EXCEPT ![c] = a]
      /\ job' = [job EXCEPT ![c] = j] /\ shown' = shown
  BY DEF LoadIconLine, IInv, CallsOK
<1>4. px' = [px EXCEPT ![c] = q] /\ buf' = Loaded(q)
  BY <1>2 DEF LoadIconLine
<1>5. PlaceOK("icon_write", a, j)
  <2>1. j.src = s + job[c].stride /\ j.stride = job[c].stride /\ j.y = job[c].y
    BY DEF IconJob
  <2>2. /\ s \in Nat /\ job[c].stride \in Nat /\ job[c].y \in Nat /\ a.line \in Nat
    BY <1>1 DEF IconAt, Clipped
  <2> DEFINE k == a.line - job[c].y
  <2>3. k \in Int /\ (a.line + 1) - job[c].y = k + 1
    BY <2>2
  <2>4. s = k * job[c].stride
    BY <1>2
  <2> HIDE DEF k, s, j
  <2>5. (k + 1) * job[c].stride = s + job[c].stride
    BY <2>2, <2>3, <2>4
  <2>6. IconAt(j, a.line + 1)
    BY <2>1, <2>2, <2>3, <2>5 DEF IconAt
  <2> QED
    BY <2>6 DEF PlaceOK
<1>6. FreshOK' /\ fresh' = fresh /\ ~InText("icon_write")
  BY DEF LoadIconLine, PixelInv, FreshOK, config, get_color_value, InText
<1> HIDE DEF s, j
<1>7. ASSUME NEW i \in 0..(a.w - 1) PROVE i \in DOMAIN buf' /\ buf'[i] = q[i]
  <2>1. pc'[c] = "icon_write" /\ area'[c] = a
    BY <1>3 DEF IInv, CallsOK
  <2>2. i \in DOMAIN buf'
    BY <1>7, <2>1 DEF IInv, CallsOK, CallOK, InBuffer
  <2> QED
    BY <1>4, <1>7, <2>2 DEF Loaded
<1> HIDE DEF a, q
<1>8. Busy(c)
  BY <1>1 DEF Busy
<1> QED
  BY <1>3, <1>4, <1>5, <1>6, <1>7, <1>8, GoesOn

\* The beginning of a text.
LEMMA DrawTextOwn ==
  ASSUME IInv, PixelInv, NEW c \in Clients, NEW color, NEW x, NEW y, NEW text,
         NEW want, NEW judged, NEW columns,
         DrawText(c, color, x, y, text, want, judged, columns)
  PROVE  PixelInv'
<1> DEFINE j == TextJob(color, text, StartColumn(x), y, 0)
<1>1. /\ pc' = [pc EXCEPT ![c] = "text"] /\ area' = [area EXCEPT ![c] = area[c]]
      /\ job' = [job EXCEPT ![c] = j] /\ px' = [px EXCEPT ![c] = px[c]]
      /\ Begin(c, want, judged, columns, ~fresh)
  BY DEF DrawText, IInv, CallsOK, PixelInv
<1>2. PlaceOK("text", area[c], j)
  BY DEF PlaceOK
<1>3. FreshOK' /\ fresh' = fresh
  BY DEF DrawText, PixelInv, FreshOK, config, get_color_value
<1> HIDE DEF j
<1> QED
  BY <1>1, <1>2, <1>3, Begins

\* The steps between the lines of a text.
LEMMA TextOwn ==
  ASSUME IInv, PixelInv, NEW c \in Clients,
         EndText(c) \/ NextChar(c) \/ SkipGlyphLine(c) \/ EndGlyph(c)
  PROVE  PixelInv'
<1>1. Busy(c) /\ InText(pc[c])
  BY DEF EndText, NextChar, SkipGlyphLine, EndGlyph, Busy, InText
<1>2. /\ area' = [area EXCEPT ![c] = area[c]] /\ px' = [px EXCEPT ![c] = px[c]]
      /\ shown' = shown
  BY DEF EndText, NextChar, SkipGlyphLine, EndGlyph, IInv, CallsOK, PixelInv
<1>3. FreshOK' /\ fresh' = fresh
  BY DEF EndText, NextChar, SkipGlyphLine, EndGlyph, PixelInv, FreshOK, config, get_color_value
<1>4. ASSUME NEW p, NEW j, pc' = [pc EXCEPT ![c] = p], job' = [job EXCEPT ![c] = j],
             p \in {"return", "text", "glyph"}, PlaceOK(p, area[c], j)
      PROVE  PixelInv'
  BY <1>1, <1>2, <1>3, <1>4, GoesOn
<1>5. CASE EndText(c)
  <2>1. pc' = [pc EXCEPT ![c] = "return"] /\ job' = [job EXCEPT ![c] = job[c]]
    BY <1>5 DEF EndText, IInv, CallsOK
  <2> QED
    BY <1>4, <2>1 DEF PlaceOK
<1>6. CASE NextChar(c)
  <2> DEFINE j == TextJob(job[c].color, Tail(job[c].text), job[c].col, job[c].y, 0)
  <2>1. CASE HasGlyph(Head(job[c].text)) /\ pc' = [pc EXCEPT ![c] = "glyph"] /\ job' = job
    <3>1. job' = [job EXCEPT ![c] = job[c]]
      BY <2>1 DEF IInv, CallsOK
    <3> QED
      BY <1>4, <2>1, <3>1 DEF PlaceOK
  <2>2. CASE job' = [job EXCEPT ![c] = j] /\ pc' = pc
    <3>1. pc' = [pc EXCEPT ![c] = "text"]
      BY <1>6, <2>2 DEF NextChar, IInv, CallsOK
    <3> QED
      BY <1>4, <2>2, <3>1 DEF PlaceOK
  <2> QED
    BY <1>6, <2>1, <2>2 DEF NextChar
<1>7. CASE SkipGlyphLine(c)
  <2>1. pc' = [pc EXCEPT ![c] = "glyph"] /\ job' = [job EXCEPT ![c] = NextRow(job[c])]
    BY <1>7 DEF SkipGlyphLine, IInv, CallsOK
  <2>2. HasGlyph(Head(job[c].text)) /\ NextRow(job[c]).text = job[c].text
    BY <1>7 DEF SkipGlyphLine, PixelInv, PlaceOK, NextRow, TextJob
  <2> QED
    BY <1>4, <2>1, <2>2 DEF PlaceOK
<1>8. CASE EndGlyph(c)
  <2> DEFINE j == TextJob(job[c].color, Tail(job[c].text), TotalWidth(c), job[c].y, 0)
  <2>1. pc' = [pc EXCEPT ![c] = "text"] /\ job' = [job EXCEPT ![c] = j]
    BY <1>8 DEF EndGlyph
  <2> HIDE DEF j
  <2> QED
    BY <1>4, <2>1 DEF PlaceOK
<1> QED
  BY <1>5, <1>6, <1>7, <1>8

\* A line of a character, on the cached background value.
LEMMA LoadGlyphLineOwn ==
  ASSUME GlyphsAsLaidOut, IInv, IInv', PixelInv, NEW c \in Clients, LoadGlyphLine(c)
  PROVE  PixelInv'
<1> DEFINE a == GlyphArea(c)
           j == NextRow(job[c])
           ch == Head(job[c].text)
           Line(On(_, _, _), back) ==
             [i \in 0..(a.w - 1) |->
                IF On(ch, job[c].row, i) THEN get_color_value(job[c].color) ELSE back]
           q == Line(GlyphBit, BackgroundWanted)
<1>1. /\ pc[c] = "glyph" /\ HasGlyph(ch) /\ lcd.fmt # "other"
      /\ job[c].row \in 0..(FontHeight - 1) /\ job[c].col \in Nat
  <2>1. pc[c] = "glyph" /\ job[c].row < FontHeight /\ GlyphFault(c) = "none"
    BY DEF LoadGlyphLine
  <2>2. IsText(job[c]) /\ HasGlyph(ch)
    BY <2>1 DEF IInv, CallsOK, CallOK, PixelInv, PlaceOK
  <2> QED
    BY <2>1, <2>2, ArgumentAssumption DEF IsText, GlyphFault
<1>2. a.w \in Nat /\ a.w <= Font[ch].width /\ Font[ch].width \in Nat
  <2>1. pc'[c] = "glyph_write" /\ area'[c] = a
    BY DEF LoadGlyphLine, IInv, CallsOK
  <2>2. lcd.xsize \in Nat /\ lcd'.xsize = lcd.xsize /\ lcd.xsize < W16
    BY DEF IInv, LcdOK, LoadGlyphLine, config
  <2>3. lcd.xsize > 0
    <3>1. Clipped(area[c])'
      BY <2>1 DEF IInv, CallsOK, CallOK
    <3>2. LcdOK'
      BY DEF IInv
    <3> QED
      BY <2>2, <3>1, <3>2 DEF Clipped, LcdOK
  <2>4. get_char_width(ch) = Font[ch].width /\ Font[ch].width \in Nat
    BY <1>1, FontAssumption DEF HasGlyph, get_char_width
  <2>5. a.w = ClipW(job[c].col, Font[ch].width)
    BY <2>4 DEF GlyphArea, Area
  <2>6. ClipX(job[c].col) \in Nat /\ ClipX(job[c].col) <= lcd.xsize
    <3>1. LcdOK
      BY DEF IInv
    <3>2. /\ ClipX(job[c].col) \in Nat /\ ClipW(job[c].col, Font[ch].width) \in Nat
          /\ ClipX(job[c].col) + ClipW(job[c].col, Font[ch].width) <= lcd.xsize
      BY <1>1, <2>3, <2>4, <3>1, ClipFacts
    <3> QED
      BY <2>2, <3>2
  <2>7. (lcd.xsize - ClipX(job[c].col)) % W32 \in Nat
    BY <2>2, <2>6, ModFacts, WidthAssumption
  <2> QED
    BY <2>4, <2>5, <2>7, MinFacts DEF ClipW
<1>3. ~shown[c].stale => bg.value = BackgroundWanted
  BY <1>1 DEF PixelInv, FreshOK, BackgroundWanted, InText
<1>4. ASSUME NEW i \in 0..(a.w - 1)
      PROVE  PixelOn(ch, job[c].row, i) <=> GlyphBit(ch, job[c].row, i)
  <2>1. ch \in DOMAIN Font /\ i \in 0..(Font[ch].width - 1)
    BY <1>1, <1>2, <1>4 DEF HasGlyph
  <2> HIDE DEF ch
  <2> QED
    BY <1>1, <2>1 DEF GlyphsAsLaidOut
<1>5. /\ pc' = [pc EXCEPT ![c] = "glyph_write"] /\ area' = [area EXCEPT ![c] = a]
      /\ job' = [job EXCEPT ![c] = j] /\ shown' = shown
  BY DEF LoadGlyphLine
<1>6. px' = [px EXCEPT ![c] = q]
  BY DEF LoadGlyphLine
<1>7. buf' = Loaded(Line(PixelOn, bg.value))
  BY DEF LoadGlyphLine
<1>8. ~shown[c].stale => Line(PixelOn, bg.value) = q
  BY <1>3, <1>4
<1>9. FreshOK' /\ fresh' = fresh
  BY DEF LoadGlyphLine, PixelInv, FreshOK, config, get_color_value
<1>10. PlaceOK("glyph_write", a, j) /\ Busy(c) /\ InText(pc[c])
  BY <1>1 DEF PlaceOK, NextRow, TextJob, Busy, InText
<1>11. ASSUME ~shown[c].stale, NEW i \in 0..(a.w - 1)
       PROVE  i \in DOMAIN buf' /\ buf'[i] = q[i]
  <2>1. pc'[c] = "glyph_write" /\ area'[c] = a
    BY <1>5 DEF IInv, CallsOK
  <2>2. i \in DOMAIN buf'
    BY <1>11, <2>1 DEF IInv, CallsOK, CallOK, InBuffer
  <2>3. buf' = Loaded(q) /\ i \in DOMAIN q
    BY <1>7, <1>8, <1>11
  <2> HIDE DEF q
  <2> QED
    BY <2>2, <2>3 DEF Loaded
<1> HIDE DEF a, j, q
<1> QED
  BY <1>5, <1>6, <1>9, <1>10, <1>11, GoesOn

\* display_write shows what the buffer holds; a call that is alone goes on
\* with the same pixels in it.
LEMMA DisplayWriteOwn ==
  ASSUME IInv, PixelInv, NEW c \in Clients, DisplayWrite(c)
  PROVE  PixelInv'
<1> DEFINE a == NextLine(area[c])
           p == AfterLine(c)
           s == shown[c]
<1>1. /\ pc' = [pc EXCEPT ![c] = p] /\ area' = [area EXCEPT ![c] = a]
      /\ job' = [job EXCEPT ![c] = job[c]] /\ px' = [px EXCEPT ![c] = px[c]] /\ buf' = buf
      /\ Writing(c) /\ Busy(c)
  BY DEF DisplayWrite, IInv, CallsOK, PixelInv, Writing, Busy
<1>2. /\ shown' = [d \in Clients |-> shown'[d]]
      /\ \A d \in Clients \ {c} : shown'[d] = shown[d]
      /\ shown'[c] = [s EXCEPT !.done = @ \cup LinePixels(area[c]), !.wrong = @ \/ ~Held(c)]
  BY DEF DisplayWrite, PixelInv, Held
<1>3. IsShown(s) /\ Held(c) \in BOOLEAN
  BY DEF PixelInv, Held
<1> HIDE DEF s
<1>4. /\ IsShown(shown'[c]) /\ shown'[c].mixed = s.mixed /\ shown'[c].stale = s.stale
      /\ (shown'[c].wrong <=> s.wrong \/ ~Held(c))
  BY <1>2, <1>3 DEF IsShown
<1>5. (s.wrong \/ ~Held(c)) => (s.mixed \/ s.stale)
  BY <1>1 DEF PixelInv, OwnPixels, s
<1>6. PlaceOK(p, a, job[c])
  <2>1. pc[c] \in {"rect", "icon_write", "glyph_write"}
    BY <1>1 DEF Writing
  <2>2. PlaceOK(pc[c], area[c], job[c])
    BY DEF PixelInv
  <2>3. a.line = area[c].line + 1
    BY DEF NextLine
  <2>4. CASE pc[c] = "rect"
    BY <2>4 DEF PlaceOK, AfterLine, Loop
  <2>5. CASE pc[c] = "icon_write"
    BY <2>2, <2>3, <2>5 DEF PlaceOK, AfterLine, Loop
  <2>6. CASE pc[c] = "glyph_write"
    BY <2>2, <2>6 DEF PlaceOK, AfterLine
  <2> QED
    BY <2>1, <2>4, <2>5, <2>6
<1>7. a.w = area[c].w
  BY DEF NextLine
<1>8. p # "icon_write" /\ p # "glyph_write"
  BY DEF AfterLine, Loop
<1>9. FreshOK' /\ fresh' = fresh
  BY DEF DisplayWrite, PixelInv, FreshOK, config, get_color_value
<1>10. ~s.mixed /\ ~s.stale => \A i \in 0..(a.w - 1) : i \in DOMAIN buf' /\ buf'[i] = px[c][i]
  BY <1>1, <1>5, <1>7 DEF Held
<1>11. ASSUME NEW d \in Clients \ {c}, Busy(d) PROVE s.mixed /\ shown[d].mixed
  BY <1>1, <1>11 DEF PixelInv, s
<1>12. ASSUME NEW d \in Clients \ {c}
       PROVE  /\ IsShown(shown'[d])
              /\ shown'[d].wrong = shown[d].wrong /\ shown'[d].stale = shown[d].stale
              /\ shown[d].mixed \/ Busy(d) => shown'[d].mixed
  BY <1>2, <1>11 DEF PixelInv
<1>13. InText(p) => s.stale \/ fresh
  <2>1. InText(p) => InText(pc[c])
    BY DEF InText, AfterLine, Loop
  <2> QED
    BY <2>1 DEF PixelInv, s
<1> HIDE DEF a, p
<1> QED
  BY <1>1, <1>2, <1>4, <1>5, <1>6, <1>9, <1>10, <1>11, <1>12, <1>13, PixelStep

\* A call returns and is forgotten.
LEMMA ReturnOwn ==
  ASSUME IInv, PixelInv, NEW c \in Clients, Return(c)
  PROVE  PixelInv'
<1>1. /\ pc' = [pc EXCEPT ![c] = "idle"] /\ area' = [area EXCEPT ![c] = NoArea]
      /\ job' = [job EXCEPT ![c] = NoJob] /\ px' = [px EXCEPT ![c] = << >>]
      /\ shown' = [shown EXCEPT ![c] = NothingShown] /\ Busy(c)
  BY DEF Return, Busy
<1>2. IsShown(NothingShown) /\ ~NothingShown.wrong /\ PlaceOK("idle", NoArea, NoJob)
  BY DEF IsShown, NothingShown, PlaceOK
<1>3. /\ shown' = [d \in Clients |-> shown'[d]] /\ shown'[c] = NothingShown
      /\ \A d \in Clients \ {c} : shown'[d] = shown[d]
  BY <1>1 DEF PixelInv
<1>4. ASSUME NEW d \in Clients \ {c}
      PROVE  /\ IsShown(shown'[d])
             /\ shown'[d].wrong = shown[d].wrong /\ shown'[d].stale = shown[d].stale
             /\ shown[d].mixed \/ Busy(d) => shown'[d].mixed
  BY <1>1, <1>3 DEF PixelInv
<1>5. FreshOK' /\ fresh' = fresh /\ ~InText("idle")
  BY DEF Return, PixelInv, FreshOK, config, get_color_value, InText
<1> HIDE DEF NothingShown
<1> QED
  BY <1>1, <1>2, <1>3, <1>4, <1>5, PixelStep

\* Steps that leave the calls under way alone: initialize(), which waits for
\* all of them to end, the settings and the faults.
LEMMA SettingOwn ==
  ASSUME IInv, PixelInv,
         \/ InitNodev \/ InitNosys \/ InitAlloc \/ SetFont \/ UNCHANGED vars
         \/ \E color \in Backgrounds : SetBackground(color)
         \/ \E what : Fail(what)
  PROVE  PixelInv'
<1>1. UNCHANGED call
  BY DEF InitNodev, InitNosys, InitAlloc, SetFont, SetBackground, Fail, vars
<1>2. UNCHANGED buf \/ \A c \in Clients : ~Busy(c)
  BY DEF InitNodev, InitNosys, InitAlloc, SetFont, SetBackground, Fail, MayInitialize, vars
<1>3. FreshOK'
  <2>1. CASE \E color \in Backgrounds : SetBackground(color)
    BY <2>1 DEF SetBackground, FreshOK, get_color_value, config
  <2>2. CASE InitNosys
    BY <2>2 DEF InitNosys, NewLcd, FreshOK
  <2>3. CASE InitAlloc
    BY <2>3 DEF InitAlloc, NewLcd, PixelInv, FreshOK, get_color_value
  <2>4. CASE UNCHANGED <<lcd, bg, fresh>>
    BY <2>4 DEF PixelInv, FreshOK, get_color_value
  <2> QED
    BY <2>1, <2>2, <2>3, <2>4 DEF InitNodev, SetFont, Fail, config, vars
<1>4. ASSUME NEW c \in Clients PROVE IsShown(shown[c])' /\ PlaceOK(pc[c], area[c], job[c])'
  BY <1>1 DEF PixelInv, call, IsShown, PlaceOK, IconAt, HasGlyph
<1>5. ASSUME NEW c \in Clients, Writing(c)', ~shown'[c].mixed, ~shown'[c].stale PROVE Held(c)'
  BY <1>1, <1>2, <1>5 DEF PixelInv, Busy, Writing, Held, call
<1>6. /\ OwnPixels' /\ (shown = [c \in Clients |-> shown[c]])' /\ (px = [c \in Clients |-> px[c]])'
      /\ (\A c, d \in Clients : c # d /\ Busy(c) /\ Busy(d) => shown[c].mixed)'
  BY <1>1 DEF PixelInv, OwnPixels, Busy, call
<1>7. (fresh => fresh') \/ \A c \in Clients : ~Busy(c)
  BY DEF InitNodev, InitNosys, InitAlloc, SetFont, SetBackground, Fail, MayInitialize, vars
<1>8. ASSUME NEW c \in Clients, InText(pc'[c]) PROVE shown'[c].stale \/ fresh'
  BY <1>1, <1>7, <1>8 DEF PixelInv, Busy, InText, call
<1>9. (\A c \in Clients : InText(pc[c]) => shown[c].stale \/ fresh)'
  BY <1>8 DEF InText
<1> QED
  BY <1>3, <1>4, <1>5, <1>6, <1>9 DEF PixelInv

\* What a call shows are its own pixels, for every panel and argument and for
\* every font whose glyphs are laid out as display_char reads them, unless
\* another call was under way at the same time, or it is a text that was begun
\* with a background value computed for another format than initialize() has
\* found: these two are the only ways in which pixels can be wrong.
THEOREM PixelsAreOwn == ASSUME GlyphsAsLaidOut PROVE Spec => []OwnPixels
<1>1. Init => PixelInv
  <2> SUFFICES ASSUME Init PROVE PixelInv
    OBVIOUS
  <2>1. FreshOK /\ IsShown(NothingShown) /\ ~NothingShown.wrong
    BY DEF Init, FreshOK, IsShown, NothingShown, get_color_value
  <2>2. ASSUME NEW c \in Clients PROVE pc[c] = "idle" /\ shown[c] = NothingShown
    BY DEF Init
  <2>3. shown = [c \in Clients |-> shown[c]] /\ px = [c \in Clients |-> px[c]]
    BY DEF Init
  <2> HIDE DEF NothingShown
  <2> QED
    BY <2>1, <2>2, <2>3 DEF PixelInv, PlaceOK, Busy, Writing, OwnPixels, InText
<1>2. ASSUME IInv, PixelInv, [Next]_vars PROVE PixelInv'
  <2>1. IInv'
    BY <1>2, NextIInv
  <2>2. CASE \/ InitNodev \/ InitNosys \/ InitAlloc \/ SetFont \/ UNCHANGED vars
             \/ \E color \in Backgrounds : SetBackground(color)
             \/ BackgroundAsserts
             \/ \E c \in Clients : RectFails(c) \/ IconFails(c) \/ GlyphFails(c) \/ NoFont(c)
    BY <1>2, <2>2, SettingOwn DEF BackgroundAsserts, RectFails, IconFails, GlyphFails, NoFont
  <2>3. ASSUME NEW c \in Clients, NEW color \in Colors,
               \/ \E r \in Rects : FillRectangle(c, color, r)
               \/ \E r \in Rects : DrawHorizontalLine(c, color, r)
               \/ \E r \in Rects : DrawVerticalLine(c, color, r)
               \/ FillDisplay(c, color)
        PROVE  PixelInv'
    BY <1>2, <2>1, <2>3, FillBoxOwn
       DEF FillRectangle, DrawHorizontalLine, DrawVerticalLine, FillDisplay
  <2>4. ASSUME NEW c \in Clients, NEW color \in Colors,
               \/ \E p \in Places, t \in Texts : DrawStringAt(c, color, p, t)
               \/ \E l \in TextLines, t \in Texts, mode \in {"Left", "Center", "Right"} :
                    DrawStringAtLine(c, color, l, t, mode)
        PROVE  PixelInv'
    BY <1>2, <2>4, DrawTextOwn DEF DrawStringAt, DrawStringAtLine
  <2>5. ASSUME NEW c \in Clients,
               (\E r \in Icons : DrawIcon(c, r)) \/ LoadIconLine(c) \/ LoadGlyphLine(c)
        PROVE  PixelInv'
    BY <1>2, <2>1, <2>5, DrawIconOwn, LoadIconLineOwn, LoadGlyphLineOwn
  <2>6. ASSUME NEW c \in Clients, \/ EndText(c) \/ NextChar(c) \/ SkipGlyphLine(c) \/ EndGlyph(c)
                                  \/ DisplayWrite(c) \/ Return(c)
        PROVE  PixelInv'
    BY <1>2, <2>6, TextOwn, DisplayWriteOwn, ReturnOwn
  <2> QED
    BY <1>2, <2>2, <2>3, <2>4, <2>5, <2>6 DEF Next
<1>3. PixelInv => OwnPixels
  BY DEF PixelInv
<1> QED
  BY InitIInv, NextIInv, <1>1, <1>2, <1>3, PTL DEF Spec

-----------------------------------------------------------------------------
(***************************************************************************)
(* What a text asks for.                                                   *)
(***************************************************************************)

\* A part of a text that is still to be drawn, and the width of its first n
\* characters.
IsRest(s) == \E t \in Texts : \E i \in 1..(Len(t) + 1) : s = SubSeq(t, i, Len(t))
Width(s, n) == TextWidth(SubSeq(s, 1, n))

\* A text is a rest of itself.
LEMMA WholeIsRest ==
  ASSUME NEW t \in Texts
  PROVE  IsRest(t)
<1>1. t \in Seq(0..255)
  BY ArgumentAssumption
<1>2. t = SubSeq(t, 1, Len(t)) /\ 1 \in 1..(Len(t) + 1)
  BY <1>1, SubSeqFull
<1> QED
  BY <1>2 DEF IsRest

\* The widths of a rest add up from its first character on.
LEMMA RestFacts ==
  ASSUME WidthsAddUp, NEW s, IsRest(s)
  PROVE  /\ s \in Seq(0..255)
         /\ Width(s, 0) = 0
         /\ Width(s, Len(s)) = TextWidth(s)
         /\ \A n \in 0..Len(s) : Width(s, n) \in Nat
         /\ s # << >> =>
              /\ IsRest(Tail(s))
              /\ Len(Tail(s)) = Len(s) - 1
              /\ \A n \in 1..Len(s) : Width(s, n) = get_char_width(Head(s)) + Width(Tail(s), n - 1)
<1>0. PICK t \in Texts : \E i \in 1..(Len(t) + 1) : s = SubSeq(t, i, Len(t))
  BY DEF IsRest
<1>1. PICK i \in 1..(Len(t) + 1) : s = SubSeq(t, i, Len(t))
  BY <1>0
<1>2. t \in Seq(0..255) /\ Len(t) \in Nat
  BY ArgumentAssumption
<1>3. s \in Seq(0..255) /\ Len(s) = Len(t) - i + 1
  <2>1. ASSUME NEW k \in i..Len(t) PROVE t[k] \in 0..255
    <3>1. k \in 1..Len(t)
      BY <1>2, <2>1
    <3> QED
      BY <1>2, <3>1, ElementOfSeq
  <2>2. /\ s \in Seq(0..255)
        /\ Len(s) = IF i <= Len(t) THEN Len(t) - i + 1 ELSE 0
    BY <1>1, <1>2, <2>1, SubSeqProperties
  <2> QED
    BY <1>2, <2>2
<1>4. /\ \A n \in 0..Len(s) : Width(s, n) \in Nat
      /\ Width(s, 0) = 0
      /\ \A n \in 1..Len(s) : Width(s, n) = get_char_width(s[1]) + Width(Tail(s), n - 1)
  BY <1>1 DEF WidthsAddUp, Width
<1>5. Width(s, Len(s)) = TextWidth(s)
  BY <1>3, SubSeqFull DEF Width
<1>6. ASSUME s # << >> PROVE IsRest(Tail(s)) /\ Len(Tail(s)) = Len(s) - 1 /\ Head(s) = s[1]
  <2>1. Len(s) > 0 /\ i \in 1..Len(t) /\ Len(t) \in i..Len(t) /\ i + 1 \in 1..(Len(t) + 1)
    BY <1>2, <1>3, <1>6
  <2>2. Tail(s) = SubSeq(t, i + 1, Len(t))
    BY <1>1, <1>2, <2>1, HeadTailOfSubSeq
  <2>3. Len(Tail(s)) = Len(s) - 1 /\ Head(s) = s[1]
    BY <1>3, <1>6, HeadTailProperties
  <2>4. IsRest(Tail(s))
    BY <2>1, <2>2 DEF IsRest
  <2> QED
    BY <2>3, <2>4
<1> QED
  BY <1>3, <1>4, <1>5, <1>6

\* A bounded set of numbers has a largest one.
LEMMA MaxFacts ==
  ASSUME NEW n \in Nat, NEW F \in SUBSET (0..n), F # {}
  PROVE  Max(F) \in F /\ \A k \in F : k <= Max(F)
<1> DEFINE T == {n - k : k \in F}
<1>1. T \subseteq Nat /\ T # {}
  <2>1. ASSUME NEW k \in F PROVE n - k \in Nat
    OBVIOUS
  <2> QED
    BY <2>1
<1>2. PICK x \in T : \A y \in T : ~(<<y, x>> \in OpToRel(<, Nat))
  BY <1>1, NatLessThanWellFounded, WFMin
<1>3. PICK m \in F : x = n - m
  BY <1>2
<1>4. ASSUME NEW k \in F PROVE k <= m
  <2>1. n - k \in T /\ ~(<<n - k, x>> \in OpToRel(<, Nat))
    BY <1>2
  <2>2. ~(n - k < x)
    BY <1>1, <2>1 DEF OpToRel
  <2> QED
    BY <1>3, <2>2
<1>5. \E z \in F : \A y \in F : z >= y
  BY <1>4
<1>6. Max(F) \in F /\ \A y \in F : Max(F) >= y
  BY <1>5 DEF Max
<1> QED
  BY <1>6

\* The largest number is the one that no other exceeds.
LEMMA MaxIs ==
  ASSUME NEW n \in Nat, NEW F \in SUBSET (0..n), NEW m \in F, \A k \in F : k <= m
  PROVE  Max(F) = m
<1>1. Max(F) \in F /\ \A k \in F : k <= Max(F)
  BY MaxFacts
<1> DEFINE x == Max(F)
<1> HIDE DEF x
<1>2. x \in F /\ \A k \in F : k <= x
  BY <1>1 DEF x
<1>3. x <= m /\ m <= x /\ x \in 0..n /\ m \in 0..n
  BY <1>2
<1>4. x = m
  BY <1>3
<1> QED
  BY <1>4 DEF x

\* Nothing fits of a text that is empty or begins with a character that is too wide.
LEMMA FitEnd ==
  ASSUME WidthsAddUp, NEW s, IsRest(s), NEW start \in Nat, NEW right \in Nat,
         s # << >> => start + get_char_width(Head(s)) > right
  PROVE  FittingWidth(start, s, right) = 0
<1> DEFINE F == Fitting(start, s, right)
<1>1. ASSUME NEW k \in F PROVE k = 0
  <2>1. s \in Seq(0..255) /\ k \in 0..Len(s) /\ start + Width(s, k) <= right
    BY RestFacts DEF Fitting, Width
  <2> SUFFICES ASSUME k # 0 PROVE FALSE
    OBVIOUS
  <2>2. s # << >> /\ k \in 1..Len(s)
    BY <2>1
  <2>3. /\ Width(s, k) = get_char_width(Head(s)) + Width(Tail(s), k - 1)
        /\ IsRest(Tail(s)) /\ k - 1 \in 0..Len(Tail(s))
    BY <2>1, <2>2, RestFacts
  <2>4. Width(Tail(s), k - 1) \in Nat /\ get_char_width(Head(s)) \in Nat
    BY <2>3, RestFacts, CharWidthNat
  <2> QED
    BY <2>1, <2>2, <2>3, <2>4
<1>2. F \subseteq 0..0
  BY <1>1
<1>3. F # {} => Max(F) = 0
  BY <1>2, MaxFacts
<1>4. Width(s, 0) = 0
  BY RestFacts
<1> QED
  BY <1>3, <1>4 DEF FittingWidth, Width

\* A first character that fits is as wide as what it adds.
LEMMA FitStep ==
  ASSUME WidthsAddUp, NEW s, IsRest(s), s # << >>, NEW start \in Nat, NEW right \in Nat,
         start + get_char_width(Head(s)) <= right
  PROVE  /\ FittingWidth(start, s, right) =
              get_char_width(Head(s))
                + FittingWidth(start + get_char_width(Head(s)), Tail(s), right)
         /\ FittingWidth(start + get_char_width(Head(s)), Tail(s), right) \in Nat
<1> DEFINE w == get_char_width(Head(s))
           F == Fitting(start, s, right)
           G == Fitting(start + w, Tail(s), right)
<1>1. w \in Nat
  BY CharWidthNat
<1>2. /\ s \in Seq(0..255) /\ IsRest(Tail(s)) /\ Len(Tail(s)) = Len(s) - 1
      /\ Len(s) \in Nat /\ Len(s) > 0 /\ Width(s, 0) = 0
      /\ \A n \in 1..Len(s) : Width(s, n) = w + Width(Tail(s), n - 1)
  BY RestFacts
<1>3. Width(Tail(s), 0) = 0 /\ \A n \in 0..(Len(s) - 1) : Width(Tail(s), n) \in Nat
  BY <1>2, RestFacts
<1>4. F = {k \in 0..Len(s) : start + Width(s, k) <= right}
  BY DEF Fitting, Width
<1>5. G = {k \in 0..(Len(s) - 1) : start + w + Width(Tail(s), k) <= right}
  BY <1>2 DEF Fitting, Width
<1> HIDE DEF w, F, G
<1>6. start + w <= right
  BY DEF w
<1>7. 0 \in G
  BY <1>1, <1>2, <1>3, <1>5, <1>6
<1>8. G \in SUBSET (0..(Len(s) - 1)) /\ Len(s) - 1 \in Nat
  BY <1>2, <1>5
<1>9. Max(G) \in G /\ \A k \in G : k <= Max(G)
  BY <1>7, <1>8, MaxFacts
<1> DEFINE m == Max(G)
<1> HIDE DEF m
<1>10. m \in 0..(Len(s) - 1) /\ start + w + Width(Tail(s), m) <= right /\ \A k \in G : k <= m
  BY <1>9, <1>5 DEF m
<1>11. Width(Tail(s), m) \in Nat /\ Width(s, m + 1) = w + Width(Tail(s), m) /\ m + 1 \in 1..Len(s)
  <2>1. m + 1 \in 1..Len(s) /\ (m + 1) - 1 = m
    BY <1>2, <1>10
  <2> QED
    BY <1>2, <1>3, <1>10, <2>1
<1>12. m + 1 \in F
  BY <1>1, <1>2, <1>4, <1>10, <1>11
<1>13. ASSUME NEW k \in F PROVE k <= m + 1
  <2>1. k \in 0..Len(s) /\ start + Width(s, k) <= right
    BY <1>4, <1>13
  <2>2. CASE k = 0
    BY <1>10, <2>2
  <2>3. CASE k # 0
    <3>1. /\ k \in 1..Len(s) /\ k - 1 \in 0..(Len(s) - 1)
          /\ Width(s, k) = w + Width(Tail(s), k - 1) /\ Width(Tail(s), k - 1) \in Nat
      BY <1>2, <1>3, <2>1, <2>3
    <3>2. k - 1 \in G
      BY <1>1, <1>5, <2>1, <3>1
    <3> QED
      BY <1>10, <3>1, <3>2
  <2> QED
    BY <2>2, <2>3
<1>14. Max(F) = m + 1
  <2>1. F \in SUBSET (0..Len(s))
    BY <1>4
  <2> QED
    BY <1>2, <1>12, <1>13, <2>1, MaxIs
<1>15. FittingWidth(start, s, right) = Width(s, m + 1)
  BY <1>12, <1>14 DEF FittingWidth, Width, F
<1>16. FittingWidth(start + w, Tail(s), right) = Width(Tail(s), m)
  BY <1>7 DEF FittingWidth, Width, G, m
<1> QED
  BY <1>11, <1>15, <1>16 DEF w

\* A text that fits is taken whole.
LEMMA FitAll ==
  ASSUME WidthsAddUp, NEW s, IsRest(s), NEW start \in Nat, NEW right \in Nat,
         start + TextWidth(s) <= right
  PROVE  FittingWidth(start, s, right) = TextWidth(s)
<1> DEFINE F == Fitting(start, s, right)
<1>1. s \in Seq(0..255) /\ Len(s) \in Nat /\ Width(s, Len(s)) = TextWidth(s)
  BY RestFacts
<1>2. F = {k \in 0..Len(s) : start + Width(s, k) <= right}
  BY DEF Fitting, Width
<1> HIDE DEF F
<1>3. Len(s) \in F
  BY <1>1, <1>2
<1>4. Max(F) = Len(s)
  <2>1. F \in SUBSET (0..Len(s)) /\ \A k \in F : k <= Len(s)
    BY <1>1, <1>2
  <2> QED
    BY <1>1, <1>3, <2>1, MaxIs
<1> QED
  BY <1>1, <1>3, <1>4 DEF FittingWidth, Width, F

-----------------------------------------------------------------------------
(***************************************************************************)
(* Boxes and lines.                                                        *)
(***************************************************************************)

\* The lines that an area still has.
Lines(a) == Box(a.x, a.line, a.w, a.last - a.line)

\* A box is cut between two columns.
LEMMA BoxColumns ==
  ASSUME LcdOK, NEW x \in Nat, NEW y \in Nat, NEW v \in Nat, NEW w \in Nat, NEW h \in Nat
  PROVE  Box(x, y, v + w, h) = Box(x, y, v, h) \cup Box(x + v, y, w, h)
BY DEF Box, Screen, LcdOK

\* So it is below its first line.
LEMMA BoxLines ==
  ASSUME LcdOK, NEW x \in Nat, NEW y \in Nat, NEW w \in Nat, NEW h \in Nat, 0 < h
  PROVE  Box(x, y, w, h) = Box(x, y, w, 1) \cup Box(x, y + 1, w, h - 1)
BY DEF Box, Screen, LcdOK

\* A box without columns or lines, or below the screen, has no pixels.
LEMMA BoxEmpty ==
  ASSUME LcdOK, NEW x \in Nat, NEW y \in Nat, NEW w \in Nat, NEW h \in Nat,
         w = 0 \/ h = 0 \/ y >= lcd.ysize
  PROVE  Box(x, y, w, h) = {}
BY DEF Box, Screen, LcdOK

\* display_write writes a box of height 1.
LEMMA LineIsBox ==
  ASSUME LcdOK, NEW a, Clipped(a)
  PROVE  LinePixels(a) = Box(a.x, a.line, a.w, 1)
<1> DEFINE x == a.x
           w == a.w
           y == a.line
<1>1. /\ x \in Nat /\ w \in Nat /\ x + w <= lcd.xsize /\ y \in Nat /\ y < lcd.ysize
      /\ lcd.xsize \in Nat /\ lcd.ysize \in Nat
  BY DEF LcdOK, Clipped
<1>2. LinePixels(a) = {<<x + i, y>> : i \in 0..(w - 1)}
  BY DEF LinePixels
<1> HIDE DEF x, w, y
<1>3. ASSUME NEW i \in 0..(w - 1) PROVE <<x + i, y>> \in Box(x, y, w, 1)
  BY <1>1 DEF Box, Screen
<1>4. ASSUME NEW p \in Box(x, y, w, 1) PROVE \E i \in 0..(w - 1) : p = <<x + i, y>>
  <2>1. /\ p = <<p[1], p[2]>> /\ p[1] \in Nat /\ p[2] \in Nat
        /\ p[1] >= x /\ p[1] < x + w /\ p[2] >= y /\ p[2] < y + 1
    BY <1>1, <1>4 DEF Box, Screen
  <2>2. p[1] - x \in 0..(w - 1) /\ p[1] = x + (p[1] - x) /\ p[2] = y
    BY <1>1, <2>1
  <2> QED
    BY <2>1, <2>2
<1> QED
  BY <1>2, <1>3, <1>4 DEF x, y, w

\* zpp_lib::min is the minimum when no argument is narrowed.
LEMMA MinIs ==
  ASSUME NEW a \in Nat, NEW b \in Nat, b < W16
  PROVE  min(a, b) = IF b < a THEN b ELSE a
<1>1. b % W16 = b /\ (a <= b => a % W16 = a)
  BY WidthAssumption, ModFacts
<1> QED
  BY <1>1 DEF min

\* A rectangle that begins on the screen and is not narrowed is cut to what
\* lies on the screen.
LEMMA AreaFacts ==
  ASSUME LcdOK, NEW x \in Nat, NEW y \in Nat, NEW w \in Nat, NEW h \in Nat,
         x < lcd.xsize, w < W16, y + h < W32
  PROVE  /\ Area(x, y, w, h).x = x
         /\ Area(x, y, w, h).w = IF w < lcd.xsize - x THEN w ELSE lcd.xsize - x
         /\ Area(x, y, w, h).line = IF lcd.ysize < y THEN lcd.ysize ELSE y
         /\ Area(x, y, w, h).last = IF lcd.ysize < y + h THEN lcd.ysize ELSE y + h
<1>1. lcd.xsize \in Nat /\ lcd.xsize < W16 /\ lcd.ysize \in Nat /\ lcd.ysize < W16
  BY DEF LcdOK
<1>2. lcd.xsize - 1 \in Nat /\ (lcd.xsize - 1) % W32 = lcd.xsize - 1
  BY <1>1, WidthAssumption, ModFacts
<1>3. ClipX(x) = x
  <2>1. x < W16
    BY <1>1, WidthAssumption
  <2>2. min(lcd.xsize - 1, x) = IF x < lcd.xsize - 1 THEN x ELSE lcd.xsize - 1
    BY <1>2, <2>1, MinIs
  <2> QED
    BY <1>1, <1>2, <2>2 DEF ClipX
<1>4. lcd.xsize - x \in Nat /\ (lcd.xsize - x) % W32 = lcd.xsize - x
  BY <1>1, WidthAssumption, ModFacts
<1>5. ClipW(x, w) = IF w < lcd.xsize - x THEN w ELSE lcd.xsize - x
  BY <1>3, <1>4, MinIs DEF ClipW
<1>6. FirstLine(y) = IF lcd.ysize < y THEN lcd.ysize ELSE y
  BY <1>1, MinIs DEF FirstLine
<1>7. y + h \in Nat /\ (y + h) % W32 = y + h
  BY WidthAssumption, ModFacts
<1>8. LastLine(y, h) = IF lcd.ysize < y + h THEN lcd.ysize ELSE y + h
  BY <1>1, <1>7, MinIs DEF LastLine
<1> QED
  BY <1>3, <1>5, <1>6, <1>8 DEF Area

\* So the lines of its area are the box that was asked for, and there are none
\* only if nothing was.
LEMMA AreaIsBox ==
  ASSUME LcdOK, NEW x \in Nat, NEW y \in Nat, NEW w \in Nat, NEW h \in Nat,
         x < lcd.xsize, w < W16, y + h < W32
  PROVE  IF Area(x, y, w, h).line < Area(x, y, w, h).last
         THEN Box(x, y, w, h) = Lines(Area(x, y, w, h))
         ELSE Box(x, y, w, h) = {}
<1> DEFINE a == Area(x, y, w, h)
           xs == lcd.xsize
           ys == lcd.ysize
<1>1. xs \in Nat /\ ys \in Nat /\ x < xs
  BY DEF LcdOK
<1>2. /\ a.x = x /\ a.w = (IF w < xs - x THEN w ELSE xs - x)
      /\ a.line = (IF ys < y THEN ys ELSE y) /\ a.last = IF ys < y + h THEN ys ELSE y + h
  BY AreaFacts
<1> HIDE DEF a
<1>3. ASSUME a.line < a.last PROVE Box(x, y, w, h) = Lines(a)
  <2> DEFINE v == a.w
             f == a.line
             l == a.last
  <2>1. /\ v \in Nat /\ f \in Nat /\ l \in Nat /\ f < l /\ Lines(a) = Box(x, f, v, l - f)
        /\ v = (IF w < xs - x THEN w ELSE xs - x)
        /\ f = (IF ys < y THEN ys ELSE y) /\ l = IF ys < y + h THEN ys ELSE y + h
    BY <1>1, <1>2, <1>3 DEF Lines
  <2> HIDE DEF v, f, l
  <2>2. ASSUME NEW p \in Screen PROVE p \in Box(x, y, w, h) <=> p \in Box(x, f, v, l - f)
    <3>1. p[1] \in Nat /\ p[1] < xs /\ p[2] \in Nat /\ p[2] < ys
      BY <1>1, <2>2 DEF Screen
    <3>2. p[1] < x + w <=> p[1] < x + v
      BY <1>1, <2>1, <3>1
    <3>3. p[2] >= y /\ p[2] < y + h <=> p[2] >= f /\ p[2] < f + (l - f)
      BY <1>1, <2>1, <3>1
    <3> QED
      BY <2>2, <3>2, <3>3 DEF Box
  <2>3. Box(x, y, w, h) \subseteq Screen /\ Box(x, f, v, l - f) \subseteq Screen
    BY DEF Box
  <2> QED
    BY <2>1, <2>2, <2>3
<1>4. ASSUME ~(a.line < a.last) PROVE Box(x, y, w, h) = {}
  <2>1. h = 0 \/ y >= ys
    BY <1>1, <1>2, <1>4
  <2> QED
    BY <2>1, BoxEmpty
<1> QED
  BY <1>3, <1>4 DEF a

\* The line of a character that fits.
LEMMA GlyphLineIsBox ==
  ASSUME LcdOK, NEW x \in Nat, NEW y \in Nat, NEW w \in Nat,
         lcd.xsize > 0, x + w <= lcd.xsize, y + 1 < W32,
         Area(x, y, w, 1).line < Area(x, y, w, 1).last
  PROVE  LinePixels(Area(x, y, w, 1)) = Box(x, y, w, 1)
<1>1. CASE x < lcd.xsize
  <2>1. /\ Area(x, y, w, 1).x = x
        /\ Area(x, y, w, 1).w = w
        /\ Area(x, y, w, 1).line = y /\ y < lcd.ysize
    <3>1. lcd.xsize \in Nat /\ lcd.xsize < W16 /\ lcd.ysize \in Nat /\ w < W16
      BY WidthAssumption DEF LcdOK
    <3>2. /\ Area(x, y, w, 1).x = x
          /\ Area(x, y, w, 1).w = IF w < lcd.xsize - x THEN w ELSE lcd.xsize - x
          /\ Area(x, y, w, 1).line = IF lcd.ysize < y THEN lcd.ysize ELSE y
          /\ Area(x, y, w, 1).last = IF lcd.ysize < y + 1 THEN lcd.ysize ELSE y + 1
      BY <1>1, <3>1, AreaFacts
    <3> QED
      BY <3>1, <3>2
  <2> DEFINE a == [x |-> x, w |-> w, line |-> y, last |-> y + 1]
  <2>2. Clipped(a) /\ LinePixels(a) = Box(a.x, a.line, a.w, 1)
    <3>1. Clipped(a)
      BY <2>1 DEF Clipped, LcdOK
    <3> HIDE DEF a
    <3> QED
      BY <3>1, LineIsBox
  <2> QED
    BY <2>1, <2>2 DEF LinePixels
<1>2. CASE x = lcd.xsize /\ w = 0
  <2>1. Area(x, y, w, 1).w = 0
    <3>1. ClipX(x) \in Nat /\ ClipW(x, w) \in Nat /\ ClipX(x) + ClipW(x, w) <= lcd.xsize
      BY ClipFacts
    <3>2. (lcd.xsize - ClipX(x)) % W32 \in Nat
      BY <3>1, WidthAssumption, ModFacts DEF LcdOK
    <3>3. ClipW(x, w) <= 0
      BY <1>2, <3>2, MinFacts DEF ClipW
    <3> QED
      BY <3>1, <3>3 DEF Area
  <2>2. Box(x, y, w, 1) = {}
    BY <1>2, BoxEmpty
  <2>3. LinePixels(Area(x, y, w, 1)) = {}
    BY <2>1 DEF LinePixels
  <2> QED
    BY <2>2, <2>3
<1> QED
  BY <1>1, <1>2 DEF LcdOK

-----------------------------------------------------------------------------
(***************************************************************************)
(* DrawsWhatWasAsked and AlignedTextWhole.  At every step of a call what   *)
(* was asked for is what has been shown and what is still to be drawn.     *)
(***************************************************************************)

\* The rest of a character and of the text behind it.
RestOfGlyph(j) ==
  Box(j.col, j.y + j.row, get_char_width(Head(j.text)), FontHeight - j.row)
    \cup TextBox(j.col + get_char_width(Head(j.text)), j.y, Tail(j.text))

ToDraw(p, a, j) ==
  IF p \in {"rect", "icon", "icon_write"} THEN Lines(a)
  ELSE IF p = "text" THEN TextBox(j.col, j.y, j.text)
  ELSE IF p = "glyph" THEN RestOfGlyph(j)
  ELSE IF p = "glyph_write" THEN LinePixels(a) \cup RestOfGlyph(j)
  ELSE {}

\* The lines of a text do not overflow, and a character that is drawn fits.
TextPlace(j) == IsRest(j.text) /\ j.y + FontHeight < W32
InGlyph(j) ==
  /\ j.text # << >> /\ j.col + get_char_width(Head(j.text)) <= lcd.xsize
  /\ j.row <= FontHeight

\* An aligned text that is narrower than the screen asks for a whole box.
WholeOK(s) ==
  0 < s.columns /\ s.columns < lcd.xsize =>
    \E x, y \in Nat : /\ s.want = Box(x, y, s.columns, FontHeight) /\ s.columns \in Nat
                      /\ x + s.columns <= lcd.xsize /\ y < lcd.ysize /\ 0 < FontHeight

DoneOK(p, a, j, s) ==
  s.judged /\ p # "idle" =>
    /\ s.want = s.done \cup ToDraw(p, a, j)
    /\ p \in {"text", "glyph", "glyph_write"} => TextPlace(j)
    /\ p \in {"glyph", "glyph_write"} => InGlyph(j)
    /\ p = "text" => j.row = 0
    /\ WholeOK(s)

DoneInv ==
  /\ shown = [c \in Clients |-> shown[c]]
  /\ \A c \in Clients : IsShown(shown[c]) /\ DoneOK(pc[c], area[c], job[c], shown[c])

\* All that DoneOK reads of a history.
Alike(s, t) ==
  s.want = t.want /\ s.done = t.done /\ s.judged = t.judged /\ s.columns = t.columns

\* A step of c while the panel stays the same: only c has to be looked at.
LEMMA DoneStep ==
  ASSUME IInv, DoneInv, NEW c \in Clients, NEW p, NEW a, NEW j, lcd' = lcd,
         pc' = [pc EXCEPT ![c] = p], area' = [area EXCEPT ![c] = a], job' = [job EXCEPT ![c] = j],
         shown' = [d \in Clients |-> shown'[d]],
         \A d \in Clients \ {c} : IsShown(shown'[d]) /\ Alike(shown'[d], shown[d]),
         IsShown(shown'[c]), DoneOK(p, a, j, shown'[c])
  PROVE  DoneInv'
<1>1. ASSUME NEW d \in Clients PROVE DoneOK(pc'[d], area'[d], job'[d], shown'[d])
  <2>1. CASE d = c
    BY <2>1 DEF IInv, CallsOK
  <2>2. CASE d # c
    <3>1. pc'[d] = pc[d] /\ area'[d] = area[d] /\ job'[d] = job[d] /\ Alike(shown'[d], shown[d])
      BY <2>2 DEF IInv, CallsOK
    <3>2. DoneOK(pc[d], area[d], job[d], shown[d])
      BY DEF DoneInv
    <3> QED
      BY <3>1, <3>2 DEF DoneOK, Alike, WholeOK
  <2> QED
    BY <2>1, <2>2
<1>2. ASSUME NEW d \in Clients PROVE DoneOK(pc[d], area[d], job[d], shown[d])'
  BY <1>1, SMTT(30) DEF DoneOK, WholeOK, InGlyph, TextPlace, ToDraw, RestOfGlyph, TextBox,
                 Lines, LinePixels, Box, Screen
<1>3. ASSUME NEW d \in Clients PROVE IsShown(shown[d])'
  BY DEF IsShown
<1> QED
  BY <1>2, <1>3 DEF DoneInv

\* A call goes on and shows nothing.
LEMMA DoneGoesOn ==
  ASSUME IInv, DoneInv, NEW c \in Clients, NEW p, NEW a, NEW j, lcd' = lcd,
         pc' = [pc EXCEPT ![c] = p], area' = [area EXCEPT ![c] = a], job' = [job EXCEPT ![c] = j],
         shown' = shown, DoneOK(p, a, j, shown[c])
  PROVE  DoneInv'
<1>1. \A d \in Clients : IsShown(shown'[d]) /\ Alike(shown'[d], shown[d])
  BY DEF DoneInv, Alike
<1>2. shown' = [d \in Clients |-> shown'[d]] /\ DoneOK(p, a, j, shown'[c])
  BY DEF DoneInv
<1> QED
  BY <1>1, <1>2, DoneStep

\* A call begins: it asks for what it has to draw.
LEMMA DoneBegins ==
  ASSUME IInv, DoneInv, NEW c \in Clients, NEW p, NEW a, NEW j,
         NEW want, NEW judged, NEW columns, NEW stale \in BOOLEAN,
         Begin(c, want, judged, columns, stale), lcd' = lcd,
         pc' = [pc EXCEPT ![c] = p], area' = [area EXCEPT ![c] = a], job' = [job EXCEPT ![c] = j],
         \A s : s.want = want /\ s.done = {} /\ s.judged = judged /\ s.columns = columns
                  => DoneOK(p, a, j, s)
  PROVE  DoneInv'
<1>1. ASSUME NEW d \in Clients \ {c} PROVE IsShown(shown'[d]) /\ Alike(shown'[d], shown[d])
  <2>1. shown'[d] = [shown[d] EXCEPT !.mixed = @ \/ Busy(d)] /\ IsShown(shown[d])
    BY <1>1 DEF Begin, DoneInv
  <2>2. Busy(d) \in BOOLEAN
    BY DEF Busy
  <2> QED
    BY <2>1, <2>2 DEF IsShown, Alike
<1> DEFINE m == \E e \in Clients \ {c} : Busy(e)
<1>2. shown'[c] = [want |-> want, done |-> {}, judged |-> judged, columns |-> columns,
                   mixed |-> m, stale |-> stale, wrong |-> FALSE]
  BY DEF Begin
<1>3. m \in BOOLEAN
  OBVIOUS
<1> HIDE DEF m
<1>4. /\ IsShown(shown'[c]) /\ shown'[c].want = want /\ shown'[c].done = {}
      /\ shown'[c].judged = judged /\ shown'[c].columns = columns
  BY <1>2, <1>3 DEF IsShown
<1>5. shown' = [d \in Clients |-> shown'[d]] /\ DoneOK(p, a, j, shown'[c])
  BY <1>4 DEF Begin
<1> QED
  BY <1>1, <1>4, <1>5, DoneStep

\* Rectangles and lines.
LEMMA FillBoxDone ==
  ASSUME IInv, DoneInv, NEW c \in Clients, NEW color, NEW u,
         NEW x \in Nat, NEW y \in Nat, NEW w \in Nat, NEW h \in Nat,
         FillBox(c, color, x, y, w, h, Box(x, y, w, h), u)
  PROVE  DoneInv'
<1> DEFINE a == Area(x, y, w, h)
           p == Loop(a, "rect")
           j == RectJob(u)
           judged == x < lcd.xsize /\ w < W16 /\ h < W16 /\ y + h < W32
           want == Box(x, y, w, h)
<1>1. /\ pc' = [pc EXCEPT ![c] = p] /\ area' = [area EXCEPT ![c] = a]
      /\ job' = [job EXCEPT ![c] = j]
      /\ Begin(c, want, judged, 0, FALSE) /\ lcd' = lcd
  BY DEF FillBox, config
<1>2. judged => want = {} \cup ToDraw(p, a, j)
  <2> SUFFICES ASSUME judged PROVE want = ToDraw(p, a, j)
    OBVIOUS
  <2>1. IF a.line < a.last THEN want = Lines(a) ELSE want = {}
    BY AreaIsBox DEF IInv
  <2> HIDE DEF a, want
  <2> QED
    BY <2>1 DEF ToDraw, Loop
<1>3. p \in {"rect", "return"}
  BY DEF Loop
<1> HIDE DEF a, p, j, judged, want
<1>4. ASSUME NEW s, s.want = want, s.done = {}, s.judged = judged, s.columns = 0
      PROVE  DoneOK(p, a, j, s)
  BY <1>2, <1>3, <1>4 DEF DoneOK, WholeOK
<1> QED
  BY <1>1, <1>4, DoneBegins

\* Icons.
LEMMA DrawIconDone ==
  ASSUME IInv, DoneInv, NEW c \in Clients, NEW r \in Icons, DrawIcon(c, r)
  PROVE  DoneInv'
<1> DEFINE a == Area(r.x, r.y, r.w, r.h)
           p == Loop(a, "icon")
           j == IconJob(0, r.w, r.y)
           judged == r.x < lcd.xsize
           want == Box(r.x, r.y, r.w, r.h)
<1>1. /\ pc' = [pc EXCEPT ![c] = p] /\ area' = [area EXCEPT ![c] = a]
      /\ job' = [job EXCEPT ![c] = j]
      /\ Begin(c, want, judged, 0, FALSE) /\ lcd' = lcd
  BY DEF DrawIcon, config
<1>2. judged => want = {} \cup ToDraw(p, a, j)
  <2> SUFFICES ASSUME judged PROVE want = ToDraw(p, a, j)
    OBVIOUS
  <2>1. /\ r.x \in Nat /\ r.y \in Nat /\ r.w \in Nat /\ r.h \in Nat /\ r.w < W16
        /\ r.y + r.h < W32
    BY ArgumentAssumption, WidthAssumption
  <2>2. IF a.line < a.last THEN want = Lines(a) ELSE want = {}
    BY <2>1, AreaIsBox DEF IInv
  <2> HIDE DEF a, want
  <2> QED
    BY <2>2 DEF ToDraw, Loop
<1>3. p \in {"icon", "return"}
  BY DEF Loop
<1> HIDE DEF a, p, j, judged, want
<1>4. ASSUME NEW s, s.want = want, s.done = {}, s.judged = judged, s.columns = 0
      PROVE  DoneOK(p, a, j, s)
  BY <1>2, <1>3, <1>4 DEF DoneOK, WholeOK
<1> QED
  BY <1>1, <1>4, DoneBegins

\* A line of an icon is copied: nothing is drawn yet.
LEMMA LoadIconLineDone ==
  ASSUME IInv, DoneInv, NEW c \in Clients, LoadIconLine(c)
  PROVE  DoneInv'
<1> DEFINE j == IconJob(job[c].src + job[c].stride, job[c].stride, job[c].y)
<1>1. /\ pc' = [pc EXCEPT ![c] = "icon_write"] /\ area' = [area EXCEPT ![c] = area[c]]
      /\ job' = [job EXCEPT ![c] = j] /\ shown' = shown /\ lcd' = lcd
  BY DEF LoadIconLine, IInv, CallsOK, config
<1>2. pc[c] = "icon" /\ DoneOK(pc[c], area[c], job[c], shown[c])
  BY DEF LoadIconLine, DoneInv
<1> HIDE DEF j
<1>3. DoneOK("icon_write", area[c], j, shown[c])
  BY <1>2 DEF DoneOK, ToDraw
<1> QED
  BY <1>1, <1>3, DoneGoesOn

\* A text begins.
LEMMA DrawTextDone ==
  ASSUME IInv, DoneInv, NEW c \in Clients, NEW color, NEW x, NEW y, NEW text \in Texts,
         NEW want, NEW judged, NEW columns,
         DrawText(c, color, x, y, text, want, judged, columns),
         judged =>
           /\ y + FontHeight < W32 /\ want = TextBox(StartColumn(x), y, text)
           /\ \A s : s.want = want /\ s.columns = columns => WholeOK(s)
  PROVE  DoneInv'
<1> DEFINE j == TextJob(color, text, StartColumn(x), y, 0)
<1>1. /\ pc' = [pc EXCEPT ![c] = "text"] /\ area' = [area EXCEPT ![c] = area[c]]
      /\ job' = [job EXCEPT ![c] = j] /\ Begin(c, want, judged, columns, ~fresh) /\ lcd' = lcd
  BY DEF DrawText, IInv, CallsOK, config
<1>2. j.text = text /\ j.col = StartColumn(x) /\ j.y = y /\ j.row = 0
  BY DEF TextJob
<1>3. IsRest(text)
  BY WholeIsRest
<1> HIDE DEF j
<1>4. ASSUME NEW s, s.want = want, s.done = {}, s.judged = judged, s.columns = columns
      PROVE  DoneOK("text", area[c], j, s)
  BY <1>2, <1>3, <1>4 DEF DoneOK, ToDraw, TextPlace
<1> QED
  BY <1>1, <1>4, DoneBegins

\* Alignment in unsigned arithmetic, and what draw_string_at makes of it, is
\* where the text belongs.
LEMMA AlignedIs ==
  ASSUME LcdOK, NEW mode \in {"Left", "Center", "Right"}, NEW n \in Nat, n < W16,
         lcd.xsize < W16 \div 2
  PROVE  /\ StartColumn(AlignedX(mode, n)) = AlignedStart(mode, n)
         /\ AlignedStart(mode, n) \in Nat
         /\ 0 < n /\ n < lcd.xsize => AlignedStart(mode, n) + n <= lcd.xsize
<1> DEFINE half == W16 \div 2
           xs == lcd.xsize
<1>1. /\ half \in Nat /\ 0 < half /\ half < W16 /\ xs \in Nat /\ xs < half
      /\ W16 \in Nat /\ 2 * W16 <= W32
  BY WidthAssumption DEF LcdOK
<1> HIDE DEF half
<1>2. ASSUME NEW e \in Int, e <= xs, e > -W16
      PROVE  StartColumn(e % W32) = IF e < 1 THEN 1 ELSE e
  <2>1. CASE e >= 0
    <3>1. e \in Nat /\ e < W32
      BY <1>1, <1>2, <2>1, WidthAssumption
    <3>2. e % W32 = e
      BY <3>1, WidthAssumption, ModFacts
    <3> QED
      BY <1>1, <1>2, <3>1, <3>2 DEF StartColumn, half
  <2>2. CASE e < 0
    <3>1. e % W32 = e + W32
      BY <1>1, <1>2, <2>2, WidthAssumption
    <3>2. e % W32 >= half
      BY <1>1, <1>2, <3>1, WidthAssumption
    <3> QED
      BY <1>1, <2>2, <3>2 DEF StartColumn, half
  <2> QED
    BY <2>1, <2>2
<1>3. CASE mode = "Left"
  BY <1>1, <1>3 DEF AlignedX, AlignedStart, StartColumn
<1>4. CASE mode = "Right"
  <2>1. xs - n \in Int /\ xs - n <= xs /\ xs - n > -W16
    BY <1>1
  <2>2. AlignedX(mode, n) = (xs - n) % W32
    BY <1>4 DEF AlignedX
  <2>3. AlignedStart(mode, n) = IF xs - n < 1 THEN 1 ELSE xs - n
    BY <1>4 DEF AlignedStart
  <2> QED
    BY <1>1, <1>2, <2>1, <2>2, <2>3
<1>5. CASE mode = "Center"
  <2> DEFINE e == xs \div 2 - n \div 2
  <2>1. /\ e \in Int /\ e <= xs /\ e > -W16
        /\ n < xs => e + n <= xs
    BY <1>1
  <2>2. AlignedX(mode, n) = e % W32
    BY <1>5 DEF AlignedX
  <2>3. AlignedStart(mode, n) = IF e < 1 THEN 1 ELSE e
    BY <1>5 DEF AlignedStart
  <2> HIDE DEF e
  <2> QED
    BY <1>1, <1>2, <2>1, <2>2, <2>3
<1> QED
  BY <1>3, <1>4, <1>5

\* The lines of text are as high as the font.
LEMMA LineTop ==
  ASSUME NEW line \in Nat, (line + 1) * FontHeight < W32
  PROVE  /\ line * FontHeight \in Nat
         /\ line * FontHeight + FontHeight < W32
         /\ compute_ypos_from_line_number(line) = line * FontHeight
<1>1. FontHeight \in Nat
  BY ArgumentAssumption
<1>2. (line + 1) * FontHeight = line * FontHeight + FontHeight /\ line * FontHeight \in Nat
  BY <1>1
<1> DEFINE y == line * FontHeight
<1> HIDE DEF y
<1>3. y \in Nat /\ y + FontHeight < W32
  BY <1>2 DEF y
<1>4. y % W32 = y
  BY <1>1, <1>3, ModFacts, WidthAssumption
<1> QED
  BY <1>3, <1>4 DEF compute_ypos_from_line_number, y

\* An aligned text.
LEMMA AlignedDone ==
  ASSUME WidthsAddUp, IInv, DoneInv, NEW c \in Clients, NEW color, NEW line \in TextLines,
         NEW text \in Texts, NEW mode \in {"Left", "Center", "Right"},
         DrawStringAtLine(c, color, line, text, mode)
  PROVE  DoneInv'
<1> DEFINE n == TextWidth(text)
           x == AlignedX(mode, get_string_width(text))
           y == compute_ypos_from_line_number(line)
           start == AlignedStart(mode, n)
           want == TextBox(start, line * FontHeight, text)
           judged == Alignable(line, text)
           columns == IF line * FontHeight < lcd.ysize /\ FontHeight > 0 THEN n ELSE 0
<1>1. DrawText(c, color, x, y, text, want, judged, columns)
  BY DEF DrawStringAtLine
<1>2. ASSUME judged
      PROVE  /\ y + FontHeight < W32 /\ want = TextBox(StartColumn(x), y, text)
             /\ \A s : s.want = want /\ s.columns = columns => WholeOK(s)
  <2>1. /\ n \in Nat /\ n < W16 /\ lcd.xsize < W16 \div 2
        /\ (line + 1) * FontHeight < W32 /\ line \in Nat
    <3>1. IsRest(text)
      BY WholeIsRest
    <3>2. /\ text \in Seq(0..255) /\ Width(text, Len(text)) = n
          /\ \A k \in 0..Len(text) : Width(text, k) \in Nat
      BY <3>1, RestFacts
    <3>3. Len(text) \in 0..Len(text)
      BY <3>2
    <3>4. n \in Nat
      BY <3>2, <3>3
    <3> HIDE DEF n
    <3>5. line \in Nat
      BY ArgumentAssumption, WidthAssumption
    <3> QED
      BY <1>2, <3>4, <3>5 DEF Alignable, n
  <2>2. get_string_width(text) = n
    <3>1. ~dev.signed \/ Ascii(text)
      BY <1>2 DEF Alignable
    <3>2. dev.signed \in BOOLEAN
      BY DeviceAssumption DEF IInv
    <3>3. StringWidth(text, dev.signed) = n % W16
      BY <3>1, <3>2 DEF WidthsAddUp
    <3> HIDE DEF n
    <3> QED
      BY <2>1, <3>3, ModFacts, WidthAssumption DEF get_string_width
  <2>3. LcdOK
    BY DEF IInv
  <2> HIDE DEF n
  <2>4. /\ StartColumn(x) = start /\ start \in Nat
        /\ 0 < n /\ n < lcd.xsize => start + n <= lcd.xsize
    BY <2>1, <2>2, <2>3, AlignedIs
  <2>5. line * FontHeight \in Nat /\ y = line * FontHeight /\ y + FontHeight < W32
    BY <2>1, LineTop
  <2> HIDE DEF start, x, y
  <2>6. want = TextBox(StartColumn(x), y, text)
    BY <2>4, <2>5
  <2>7. ASSUME NEW s, s.want = want, s.columns = columns, 0 < s.columns, s.columns < lcd.xsize
        PROVE  \E xx, yy \in Nat :
                 /\ s.want = Box(xx, yy, s.columns, FontHeight) /\ s.columns \in Nat
                 /\ xx + s.columns <= lcd.xsize /\ yy < lcd.ysize /\ 0 < FontHeight
    <3>1. columns = n /\ 0 < n /\ n < lcd.xsize /\ y < lcd.ysize /\ 0 < FontHeight
      BY <2>5, <2>7
    <3>2. lcd.xsize \in Nat /\ IsRest(text)
      BY <2>3, WholeIsRest DEF LcdOK
    <3>3. FittingWidth(start, text, lcd.xsize) = n
      BY <2>4, <3>1, <3>2, FitAll DEF n
    <3>4. want = Box(start, y, n, FontHeight)
      BY <2>5, <3>3 DEF TextBox
    <3> HIDE DEF want, columns
    <3> QED
      BY <2>1, <2>4, <2>5, <2>7, <3>1, <3>4
  <2> HIDE DEF want, columns
  <2> QED
    BY <2>5, <2>6, <2>7 DEF WholeOK
<1> HIDE DEF x, y, want, judged, columns
<1> QED
  BY <1>1, <1>2, DrawTextDone

\* A text ends when nothing more of it fits.
LEMMA EndTextDone ==
  ASSUME WidthsAddUp, IInv, DoneInv, NEW c \in Clients, EndText(c)
  PROVE  DoneInv'
<1> DEFINE j == job[c]
<1>1. /\ pc' = [pc EXCEPT ![c] = "return"] /\ area' = [area EXCEPT ![c] = area[c]]
      /\ job' = [job EXCEPT ![c] = j] /\ shown' = shown /\ lcd' = lcd
  BY DEF EndText, IInv, CallsOK, config
<1>2. /\ pc[c] = "text" /\ IsText(j) /\ DoneOK("text", area[c], j, shown[c])
      /\ j.text # << >> => j.col + get_char_width(Head(j.text)) > lcd.xsize
  BY DEF EndText, DoneInv, IInv, CallsOK, CallOK, TotalWidth
<1>3. ASSUME shown[c].judged PROVE TextBox(j.col, j.y, j.text) = {}
  <2>1. LcdOK /\ lcd.xsize \in Nat /\ FontHeight \in Nat
    BY ArgumentAssumption DEF IInv, LcdOK
  <2>2. IsRest(j.text) /\ j.col \in Nat /\ j.y \in Nat
    BY <1>2, <1>3 DEF DoneOK, TextPlace, IsText
  <2> HIDE DEF j
  <2>3. FittingWidth(j.col, j.text, lcd.xsize) = 0
    BY <1>2, <2>1, <2>2, FitEnd
  <2> QED
    BY <2>1, <2>2, <2>3, BoxEmpty DEF TextBox
<1> HIDE DEF j
<1>4. DoneOK("return", area[c], j, shown[c])
  BY <1>2, <1>3 DEF DoneOK, ToDraw
<1> QED
  BY <1>1, <1>4, DoneGoesOn

\* The box of a text is that of its first character and that of the others.
LEMMA TextBoxSplit ==
  ASSUME WidthsAddUp, LcdOK, NEW s, IsRest(s), s # << >>, NEW x \in Nat, NEW y \in Nat,
         x + get_char_width(Head(s)) <= lcd.xsize
  PROVE  TextBox(x, y, s) = Box(x, y, get_char_width(Head(s)), FontHeight)
                              \cup TextBox(x + get_char_width(Head(s)), y, Tail(s))
<1> DEFINE w == get_char_width(Head(s))
           v == FittingWidth(x + w, Tail(s), lcd.xsize)
<1>1. w \in Nat /\ FontHeight \in Nat /\ lcd.xsize \in Nat
  BY CharWidthNat, ArgumentAssumption DEF LcdOK
<1>2. v \in Nat /\ FittingWidth(x, s, lcd.xsize) = w + v
  BY <1>1, FitStep
<1>3. TextBox(x + w, y, Tail(s)) = Box(x + w, y, v, FontHeight)
  BY DEF TextBox
<1>4. TextBox(x, y, s) = Box(x, y, w + v, FontHeight)
  BY <1>2 DEF TextBox
<1> HIDE DEF w, v
<1>5. Box(x, y, w + v, FontHeight) = Box(x, y, w, FontHeight) \cup Box(x + w, y, v, FontHeight)
  BY <1>1, <1>2, BoxColumns, SMTT(20)
<1> QED
  BY <1>3, <1>4, <1>5 DEF w

\* The next character, drawn or skipped.
LEMMA NextCharDone ==
  ASSUME WidthsAddUp, IInv, DoneInv, NEW c \in Clients, NextChar(c)
  PROVE  DoneInv'
<1> DEFINE j == job[c]
           k == TextJob(j.color, Tail(j.text), j.col, j.y, 0)
           w == get_char_width(Head(j.text))
<1>1. area' = [area EXCEPT ![c] = area[c]] /\ shown' = shown /\ lcd' = lcd
  BY DEF NextChar, IInv, CallsOK, config
<1>2. /\ pc[c] = "text" /\ IsText(j) /\ DoneOK("text", area[c], j, shown[c])
      /\ j.text # << >> /\ j.col + w <= lcd.xsize
  BY DEF NextChar, DoneInv, IInv, CallsOK, CallOK, TotalWidth
<1>3. LcdOK /\ FontHeight \in Nat
  BY ArgumentAssumption DEF IInv
<1>4. ASSUME shown[c].judged
      PROVE  /\ IsRest(j.text) /\ j.y + FontHeight < W32 /\ j.row = 0 /\ WholeOK(shown[c])
             /\ shown[c].want = shown[c].done \cup TextBox(j.col, j.y, j.text)
             /\ TextBox(j.col, j.y, j.text) =
                  Box(j.col, j.y, w, FontHeight) \cup TextBox(j.col + w, j.y, Tail(j.text))
  <2>1. /\ IsRest(j.text) /\ j.y + FontHeight < W32 /\ j.row = 0 /\ WholeOK(shown[c])
        /\ shown[c].want = shown[c].done \cup TextBox(j.col, j.y, j.text)
    BY <1>2, <1>4 DEF DoneOK, TextPlace, ToDraw
  <2>2. j.col \in Nat /\ j.y \in Nat
    BY <1>2 DEF IsText
  <2> HIDE DEF j
  <2> QED
    BY <1>2, <1>3, <2>1, <2>2, TextBoxSplit
<1>5. CASE HasGlyph(Head(j.text)) /\ pc' = [pc EXCEPT ![c] = "glyph"] /\ job' = job
  <2>1. job' = [job EXCEPT ![c] = j]
    BY <1>5 DEF IInv, CallsOK
  <2> HIDE DEF j
  <2>2. DoneOK("glyph", area[c], j, shown[c])
    <3> SUFFICES ASSUME shown[c].judged
                 PROVE  /\ shown[c].want = shown[c].done \cup RestOfGlyph(j)
                        /\ TextPlace(j) /\ InGlyph(j) /\ WholeOK(shown[c])
      BY DEF DoneOK, ToDraw
    <3>1. TextPlace(j) /\ InGlyph(j) /\ WholeOK(shown[c])
      BY <1>2, <1>3, <1>4 DEF TextPlace, InGlyph
    <3>2. j.y + j.row = j.y /\ FontHeight - j.row = FontHeight
      BY <1>2, <1>3, <1>4 DEF IsText
    <3>3. RestOfGlyph(j) = TextBox(j.col, j.y, j.text)
      BY <1>4, <3>2 DEF RestOfGlyph
    <3> QED
      BY <1>4, <3>1, <3>3
  <2> QED
    BY <1>1, <1>5, <2>1, <2>2, DoneGoesOn
<1>6. CASE ~HasGlyph(Head(j.text)) /\ job' = [job EXCEPT ![c] = k] /\ pc' = pc
  <2>1. pc' = [pc EXCEPT ![c] = "text"]
    BY <1>2, <1>6 DEF IInv, CallsOK
  <2>2. w = 0
    BY <1>6 DEF HasGlyph, get_char_width
  <2>3. k.text = Tail(j.text) /\ k.col = j.col /\ k.y = j.y /\ k.row = 0
    BY DEF TextJob
  <2>4. j.col \in Nat /\ j.y \in Nat
    BY <1>2 DEF IsText
  <2> HIDE DEF j, k, w
  <2>5. ASSUME shown[c].judged
        PROVE  /\ IsRest(Tail(j.text))
               /\ TextBox(j.col, j.y, j.text) = TextBox(j.col, j.y, Tail(j.text))
    <3>1. IsRest(Tail(j.text))
      BY <1>2, <1>4, <2>5, RestFacts
    <3>2. Box(j.col, j.y, w, FontHeight) = {} /\ j.col + w = j.col
      BY <1>3, <2>2, <2>4, BoxEmpty
    <3> QED
      BY <1>4, <2>5, <3>1, <3>2
  <2>6. DoneOK("text", area[c], k, shown[c])
    BY <1>4, <2>3, <2>5 DEF DoneOK, ToDraw, TextPlace
  <2> QED
    BY <1>1, <1>6, <2>1, <2>6, DoneGoesOn
<1> QED
  BY <1>5, <1>6 DEF NextChar

\* What DoneOK says of a call inside a character.
LEMMA GlyphFacts ==
  ASSUME IInv, NEW p \in {"glyph", "glyph_write"}, NEW a, NEW j, NEW s,
         IsText(j), DoneOK(p, a, j, s), s.judged
  PROVE  /\ LcdOK /\ FontHeight \in Nat /\ lcd.xsize \in Nat
         /\ j.col \in Nat /\ j.y \in Nat /\ j.row \in Nat /\ get_char_width(Head(j.text)) \in Nat
         /\ IsRest(j.text) /\ j.y + FontHeight < W32 /\ j.text # << >>
         /\ j.col + get_char_width(Head(j.text)) <= lcd.xsize /\ j.row <= FontHeight
         /\ WholeOK(s) /\ s.want = s.done \cup ToDraw(p, a, j)
<1>1. LcdOK /\ FontHeight \in Nat /\ lcd.xsize \in Nat /\ get_char_width(Head(j.text)) \in Nat
  BY ArgumentAssumption, CharWidthNat DEF IInv, LcdOK
<1> QED
  BY <1>1 DEF DoneOK, TextPlace, InGlyph, IsText

\* The next line of a character is drawn, or is below the screen.
LEMMA GlyphLine ==
  ASSUME IInv, NEW c \in Clients, pc[c] = "glyph", IsText(job[c]),
         DoneOK("glyph", area[c], job[c], shown[c]), shown[c].judged, job[c].row < FontHeight
  PROVE  /\ TextPlace(NextRow(job[c])) /\ InGlyph(NextRow(job[c]))
         /\ RestOfGlyph(job[c]) = (IF GlyphLineVisible(c) THEN LinePixels(GlyphArea(c)) ELSE {})
                                    \cup RestOfGlyph(NextRow(job[c]))
<1> DEFINE j == job[c]
           k == NextRow(job[c])
           w == get_char_width(Head(j.text))
           y == j.y + j.row
<1>1. /\ LcdOK /\ FontHeight \in Nat /\ lcd.xsize \in Nat
      /\ j.col \in Nat /\ j.y \in Nat /\ j.row \in Nat /\ w \in Nat
      /\ IsRest(j.text) /\ j.y + FontHeight < W32 /\ j.text # << >>
      /\ j.col + w <= lcd.xsize /\ j.row < FontHeight
  BY GlyphFacts
<1>2. k.text = j.text /\ k.col = j.col /\ k.y = j.y /\ k.row = j.row + 1
  BY DEF NextRow, TextJob
<1>3. GlyphArea(c) = Area(j.col, y % W32, w, 1)
  BY DEF GlyphArea
<1> HIDE DEF j, k, w
<1>4. TextPlace(k) /\ InGlyph(k)
  BY <1>1, <1>2 DEF TextPlace, InGlyph, w
<1>5. y \in Nat /\ y + 1 < W32 /\ y + 1 = k.y + k.row
  <2>1. j.y + j.row \in Nat /\ (j.y + j.row) + 1 = j.y + (j.row + 1)
    BY <1>1
  <2>2. (j.y + j.row) + 1 < W32
    BY <1>1, WidthAssumption
  <2> QED
    BY <1>2, <2>1, <2>2
<1>6. y % W32 = y
  BY <1>5, WidthAssumption, ModFacts
<1> DEFINE rest == TextBox(j.col + w, j.y, Tail(j.text))
<1>7. RestOfGlyph(j) = Box(j.col, y, w, FontHeight - j.row) \cup rest
  BY DEF RestOfGlyph, w
<1>8. RestOfGlyph(k) = Box(j.col, y + 1, w, FontHeight - j.row - 1) \cup rest
  <2>1. FontHeight - k.row = FontHeight - j.row - 1
    BY <1>1, <1>2
  <2> QED
    BY <1>2, <1>5, <2>1 DEF RestOfGlyph, w
<1> HIDE DEF rest, y
<1>9. Box(j.col, y, w, FontHeight - j.row)
        = Box(j.col, y, w, 1) \cup Box(j.col, y + 1, w, FontHeight - j.row - 1)
  <2> DEFINE h == FontHeight - j.row
  <2>1. h \in Nat /\ 0 < h
    BY <1>1
  <2> HIDE DEF h
  <2>2. Box(j.col, y, w, h) = Box(j.col, y, w, 1) \cup Box(j.col, y + 1, w, h - 1)
    BY <1>1, <1>5, <2>1, BoxLines
  <2> QED
    BY <2>2 DEF h
<1>10. (IF GlyphLineVisible(c) THEN LinePixels(GlyphArea(c)) ELSE {}) = Box(j.col, y, w, 1)
  <2>1. CASE GlyphLineVisible(c)
    <3>1. Area(j.col, y, w, 1).line < Area(j.col, y, w, 1).last
      BY <1>3, <1>6, <2>1 DEF GlyphLineVisible, y
    <3>2. lcd.xsize > 0
      BY <1>1, <1>5, <3>1, NoPanel
    <3>3. LinePixels(Area(j.col, y, w, 1)) = Box(j.col, y, w, 1)
      BY <1>1, <1>5, <3>1, <3>2, GlyphLineIsBox
    <3> QED
      BY <1>3, <1>6, <2>1, <3>3 DEF y
  <2>2. CASE ~GlyphLineVisible(c)
    <3>1. ~(FirstLine(y) < LastLine(y, 1))
      BY <1>3, <1>6, <2>2 DEF GlyphLineVisible, Area, y
    <3>2. lcd.ysize \in Nat /\ lcd.ysize < W16
      BY <1>1 DEF LcdOK
    <3>3. FirstLine(y) = (IF lcd.ysize < y THEN lcd.ysize ELSE y)
      BY <1>5, <3>2, MinIs DEF FirstLine
    <3>4. (y + 1) % W32 = y + 1 /\ y + 1 \in Nat
      BY <1>5, WidthAssumption, ModFacts
    <3>5. LastLine(y, 1) = (IF lcd.ysize < y + 1 THEN lcd.ysize ELSE y + 1)
      BY <3>2, <3>4, MinIs DEF LastLine
    <3>6. y >= lcd.ysize
      BY <1>5, <3>1, <3>2, <3>3, <3>5
    <3>7. Box(j.col, y, w, 1) = {}
      BY <1>1, <1>5, <3>6, BoxEmpty
    <3> QED
      BY <2>2, <3>7
  <2> QED
    BY <2>1, <2>2
<1> QED
  BY <1>4, <1>7, <1>8, <1>9, <1>10 DEF j, k

\* The lines of a character, one by one.
LEMMA GlyphDone ==
  ASSUME IInv, DoneInv, NEW c \in Clients, SkipGlyphLine(c) \/ LoadGlyphLine(c)
  PROVE  DoneInv'
<1> DEFINE j == job[c]
           k == NextRow(job[c])
<1>1. /\ pc[c] = "glyph" /\ job[c].row < FontHeight /\ shown' = shown /\ lcd' = lcd
      /\ job' = [job EXCEPT ![c] = k]
  BY DEF SkipGlyphLine, LoadGlyphLine, config
<1>2. IsText(j) /\ DoneOK("glyph", area[c], j, shown[c])
  BY <1>1 DEF DoneInv, IInv, CallsOK, CallOK
<1>3. ASSUME shown[c].judged
      PROVE  /\ TextPlace(k) /\ InGlyph(k) /\ WholeOK(shown[c])
             /\ shown[c].want = shown[c].done \cup RestOfGlyph(j)
             /\ RestOfGlyph(j) = (IF GlyphLineVisible(c) THEN LinePixels(GlyphArea(c)) ELSE {})
                                   \cup RestOfGlyph(k)
  <2>1. WholeOK(shown[c]) /\ shown[c].want = shown[c].done \cup RestOfGlyph(j)
    BY <1>2, <1>3 DEF DoneOK, ToDraw
  <2> QED
    BY <1>1, <1>2, <1>3, <2>1, GlyphLine
<1> HIDE DEF j, k
<1>4. CASE SkipGlyphLine(c)
  <2>1. /\ ~GlyphLineVisible(c) /\ pc' = [pc EXCEPT ![c] = "glyph"]
        /\ area' = [area EXCEPT ![c] = area[c]]
    BY <1>4 DEF SkipGlyphLine, IInv, CallsOK
  <2>2. DoneOK("glyph", area[c], k, shown[c])
    BY <1>3, <2>1 DEF DoneOK, ToDraw
  <2> QED
    BY <1>1, <2>1, <2>2, DoneGoesOn
<1>5. CASE LoadGlyphLine(c)
  <2>1. /\ GlyphLineVisible(c) /\ pc' = [pc EXCEPT ![c] = "glyph_write"]
        /\ area' = [area EXCEPT ![c] = GlyphArea(c)]
    BY <1>5 DEF LoadGlyphLine
  <2>2. DoneOK("glyph_write", GlyphArea(c), k, shown[c])
    BY <1>3, <2>1 DEF DoneOK, ToDraw
  <2> QED
    BY <1>1, <2>1, <2>2, DoneGoesOn
<1> QED
  BY <1>4, <1>5

\* After its last line the text goes on behind the character.
LEMMA EndGlyphDone ==
  ASSUME WidthsAddUp, IInv, DoneInv, NEW c \in Clients, EndGlyph(c)
  PROVE  DoneInv'
<1> DEFINE j == job[c]
           w == get_char_width(Head(j.text))
           k == TextJob(j.color, Tail(j.text), j.col + w, j.y, 0)
<1>1. /\ pc[c] = "glyph" /\ j.row = FontHeight
      /\ pc' = [pc EXCEPT ![c] = "text"] /\ area' = [area EXCEPT ![c] = area[c]]
      /\ job' = [job EXCEPT ![c] = k] /\ shown' = shown /\ lcd' = lcd
  BY DEF EndGlyph, IInv, CallsOK, config, TotalWidth
<1>2. IsText(j) /\ DoneOK("glyph", area[c], j, shown[c])
  BY <1>1 DEF DoneInv, IInv, CallsOK, CallOK
<1>3. k.text = Tail(j.text) /\ k.col = j.col + w /\ k.y = j.y /\ k.row = 0
  BY DEF TextJob
<1> HIDE DEF j, k
<1>4. ASSUME shown[c].judged
      PROVE  /\ IsRest(Tail(j.text)) /\ j.y + FontHeight < W32 /\ WholeOK(shown[c])
             /\ shown[c].want = shown[c].done \cup TextBox(j.col + w, j.y, Tail(j.text))
  <2>1. /\ LcdOK /\ FontHeight \in Nat
        /\ j.col \in Nat /\ j.y \in Nat /\ j.row \in Nat /\ w \in Nat
        /\ IsRest(j.text) /\ j.y + FontHeight < W32 /\ j.text # << >>
        /\ WholeOK(shown[c]) /\ shown[c].want = shown[c].done \cup ToDraw("glyph", area[c], j)
    BY <1>2, <1>4, GlyphFacts
  <2>2. IsRest(Tail(j.text))
    BY <2>1, RestFacts
  <2> HIDE DEF w
  <2>3. Box(j.col, j.y + j.row, w, FontHeight - j.row) = {}
    <3>1. FontHeight - j.row = 0 /\ j.y + j.row \in Nat
      BY <1>1, <2>1
    <3> QED
      BY <2>1, <3>1, BoxEmpty
  <2>4. ToDraw("glyph", area[c], j) = TextBox(j.col + w, j.y, Tail(j.text))
    BY <2>3 DEF ToDraw, RestOfGlyph, w
  <2> QED
    BY <2>1, <2>2, <2>4
<1> HIDE DEF w
<1>5. DoneOK("text", area[c], k, shown[c])
  BY <1>3, <1>4 DEF DoneOK, ToDraw, TextPlace
<1> QED
  BY <1>1, <1>5, DoneGoesOn

\* display_write takes its line from what is still to be drawn.
LEMMA WriteTakes ==
  ASSUME IInv, NEW c \in Clients, Writing(c)
  PROVE  ToDraw(pc[c], area[c], job[c])
           = LinePixels(area[c]) \cup ToDraw(AfterLine(c), NextLine(area[c]), job[c])
<1> DEFINE a == area[c]
           b == NextLine(area[c])
<1>1. pc[c] \in {"rect", "icon_write", "glyph_write"} /\ LcdOK /\ Clipped(a)
  BY DEF Writing, IInv, CallsOK, CallOK
<1>2. CASE pc[c] = "glyph_write"
  BY <1>2 DEF AfterLine, ToDraw
<1>3. CASE pc[c] \in {"rect", "icon_write"}
  <2> DEFINE h == a.last - a.line
  <2>1. /\ a.x \in Nat /\ a.w \in Nat /\ a.line \in Nat /\ a.last \in Nat
        /\ h \in Nat /\ 0 < h
    BY <1>1 DEF Clipped
  <2>2. /\ b.x = a.x /\ b.w = a.w /\ b.line = a.line + 1 /\ b.last = a.last
    BY DEF NextLine
  <2> HIDE DEF b
  <2>3. b.last - b.line = h - 1
    BY <2>1, <2>2
  <2>4. Lines(a) = Box(a.x, a.line, a.w, h) /\ Lines(b) = Box(a.x, a.line + 1, a.w, h - 1)
    BY <2>2, <2>3 DEF Lines
  <2>5. LinePixels(a) = Box(a.x, a.line, a.w, 1)
    BY <1>1, LineIsBox
  <2> HIDE DEF h
  <2>6. Box(a.x, a.line, a.w, h) = Box(a.x, a.line, a.w, 1) \cup Box(a.x, a.line + 1, a.w, h - 1)
    <3> HIDE DEF a
    <3> QED
      BY <1>1, <2>1, BoxLines
  <2>7. ToDraw(pc[c], a, job[c]) = Lines(a)
    BY <1>3 DEF ToDraw
  <2>8. CASE b.line < b.last
    <3>1. AfterLine(c) \in {"icon", "rect"}
      BY <1>3, <2>8 DEF AfterLine, Loop, b
    <3>2. ToDraw(AfterLine(c), b, job[c]) = Lines(b)
      BY <3>1 DEF ToDraw
    <3> QED
      BY <2>4, <2>5, <2>6, <2>7, <3>2 DEF b
  <2>9. CASE ~(b.line < b.last)
    <3>1. AfterLine(c) = "return"
      BY <1>3, <2>9 DEF AfterLine, Loop, b
    <3>2. ToDraw(AfterLine(c), b, job[c]) = {}
      BY <3>1 DEF ToDraw
    <3>3. Lines(b) = {}
      <4>1. h - 1 = 0 /\ a.line + 1 \in Nat
        BY <2>1, <2>2, <2>9 DEF h
      <4> QED
        BY <1>1, <2>1, <2>4, <4>1, BoxEmpty
    <3> QED
      BY <2>4, <2>5, <2>6, <2>7, <3>2, <3>3 DEF b
  <2> QED
    BY <2>8, <2>9
<1> QED
  BY <1>1, <1>2, <1>3

\* So a line that is shown is no longer to be drawn.
LEMMA DisplayWriteDone ==
  ASSUME IInv, DoneInv, NEW c \in Clients, DisplayWrite(c)
  PROVE  DoneInv'
<1> DEFINE a == area[c]
           b == NextLine(area[c])
           p == AfterLine(c)
           j == job[c]
           s == shown[c]
           m == \A i \in 0..(a.w - 1) : i \in DOMAIN buf /\ buf[i] = px[c][i]
<1>1. /\ pc' = [pc EXCEPT ![c] = p] /\ area' = [area EXCEPT ![c] = b]
      /\ job' = [job EXCEPT ![c] = j] /\ lcd' = lcd /\ Writing(c)
  BY DEF DisplayWrite, IInv, CallsOK, config
<1>2. /\ shown' = [d \in Clients |-> shown'[d]]
      /\ \A d \in Clients \ {c} : shown'[d] = shown[d]
      /\ shown'[c] = [s EXCEPT !.done = @ \cup LinePixels(a), !.wrong = @ \/ ~m]
  BY DEF DisplayWrite, DoneInv
<1>3. IsShown(s) /\ m \in BOOLEAN /\ DoneOK(pc[c], a, j, s)
  BY DEF DoneInv
<1>4. ToDraw(pc[c], a, j) = LinePixels(a) \cup ToDraw(p, b, j)
  BY <1>1, WriteTakes
<1>5. /\ pc[c] \in {"rect", "icon_write", "glyph_write"}
      /\ p = "glyph" => pc[c] = "glyph_write"
      /\ p \in {"rect", "icon", "return", "glyph"}
  BY <1>1 DEF Writing, AfterLine, Loop
<1> HIDE DEF s, m, a, b, p, j
<1>6. /\ IsShown(shown'[c]) /\ shown'[c].want = s.want /\ shown'[c].done = s.done \cup LinePixels(a)
      /\ shown'[c].judged = s.judged /\ shown'[c].columns = s.columns
  BY <1>2, <1>3 DEF IsShown
<1>7. DoneOK(p, b, j, shown'[c])
  <2> SUFFICES ASSUME shown'[c].judged, p # "idle"
               PROVE  /\ shown'[c].want = shown'[c].done \cup ToDraw(p, b, j)
                      /\ p \in {"text", "glyph", "glyph_write"} => TextPlace(j)
                      /\ p \in {"glyph", "glyph_write"} => InGlyph(j)
                      /\ p = "text" => j.row = 0
                      /\ WholeOK(shown'[c])
    BY DEF DoneOK
  <2>1. /\ s.want = s.done \cup ToDraw(pc[c], a, j) /\ WholeOK(s)
        /\ pc[c] = "glyph_write" => TextPlace(j) /\ InGlyph(j)
    BY <1>3, <1>5, <1>6 DEF DoneOK
  <2>2. WholeOK(shown'[c])
    BY <1>6, <2>1 DEF WholeOK
  <2> QED
    BY <1>4, <1>5, <1>6, <2>1, <2>2
<1>8. \A d \in Clients \ {c} : IsShown(shown'[d]) /\ Alike(shown'[d], shown[d])
  BY <1>2 DEF DoneInv, Alike
<1> QED
  BY <1>1, <1>2, <1>6, <1>7, <1>8, DoneStep

\* A call that has returned asks for nothing.
LEMMA ReturnDone ==
  ASSUME IInv, DoneInv, NEW c \in Clients, Return(c)
  PROVE  DoneInv'
<1>1. /\ pc' = [pc EXCEPT ![c] = "idle"] /\ area' = [area EXCEPT ![c] = NoArea]
      /\ job' = [job EXCEPT ![c] = NoJob] /\ lcd' = lcd
      /\ shown' = [shown EXCEPT ![c] = NothingShown]
  BY DEF Return, config
<1>2. IsShown(NothingShown) /\ DoneOK("idle", NoArea, NoJob, NothingShown)
  BY DEF IsShown, NothingShown, DoneOK
<1>3. /\ shown' = [d \in Clients |-> shown'[d]] /\ shown'[c] = NothingShown
      /\ \A d \in Clients \ {c} : shown'[d] = shown[d]
  BY <1>1 DEF DoneInv
<1>4. \A d \in Clients \ {c} : IsShown(shown'[d]) /\ Alike(shown'[d], shown[d])
  BY <1>3 DEF DoneInv, Alike
<1> HIDE DEF NothingShown
<1> QED
  BY <1>1, <1>2, <1>3, <1>4, DoneStep

\* initialize() finds no call under way; the settings and the faults change
\* neither the calls nor the panel.
LEMMA SettingDone ==
  ASSUME IInv, DoneInv,
         \/ InitNodev \/ InitNosys \/ InitAlloc \/ SetFont \/ UNCHANGED vars
         \/ \E color \in Backgrounds : SetBackground(color)
         \/ \E what : Fail(what)
  PROVE  DoneInv'
<1>1. pc' = pc /\ area' = area /\ job' = job /\ shown' = shown
  BY DEF InitNodev, InitNosys, InitAlloc, SetFont, SetBackground, Fail, vars, call
<1>2. lcd' = lcd \/ \A c \in Clients : pc[c] = "idle"
  BY DEF InitNodev, InitNosys, InitAlloc, SetFont, SetBackground, Fail, vars, config,
         MayInitialize, Busy
<1>3. ASSUME NEW c \in Clients PROVE DoneOK(pc[c], area[c], job[c], shown[c])'
  <2>1. DoneOK(pc[c], area[c], job[c], shown[c])
    BY DEF DoneInv
  <2>2. CASE pc[c] = "idle"
    BY <1>1, <2>2 DEF DoneOK
  <2>3. CASE lcd' = lcd
    BY <1>1, <2>1, <2>3 DEF DoneOK, WholeOK, InGlyph, TextPlace, ToDraw, RestOfGlyph, TextBox,
                            Lines, LinePixels, Box, Screen
  <2> QED
    BY <1>2, <2>2, <2>3
<1>4. (shown = [c \in Clients |-> shown[c]])' /\ \A c \in Clients : IsShown(shown[c])'
  BY <1>1 DEF DoneInv, IsShown
<1> QED
  BY <1>3, <1>4 DEF DoneInv

\* The columns of a box on the screen.
LEMMA BoxWidth ==
  ASSUME LcdOK, NEW x \in Nat, NEW y \in Nat, NEW w \in Nat, NEW h \in Nat,
         0 < w, 0 < h, x + w <= lcd.xsize, y < lcd.ysize
  PROVE  Cardinality({p[1] : p \in Box(x, y, w, h)}) = w
<1> DEFINE C == {p[1] : p \in Box(x, y, w, h)}
<1>1. lcd.xsize \in Nat /\ lcd.ysize \in Nat
  BY DEF LcdOK
<1>2. ASSUME NEW i \in x..(x + w - 1) PROVE i \in C
  <2>1. <<i, y>> \in Box(x, y, w, h)
    BY <1>1, <1>2 DEF Box, Screen
  <2> QED
    BY <2>1
<1>3. ASSUME NEW p \in Box(x, y, w, h) PROVE p[1] \in x..(x + w - 1)
  BY <1>1, <1>3 DEF Box, Screen
<1>4. C = x..(x + w - 1)
  BY <1>2, <1>3
<1> HIDE DEF C
<1>5. Cardinality(x..(x + w - 1)) = w
  <2>1. x + w - 1 \in Int /\ ~(x > x + w - 1) /\ (x + w - 1) - x + 1 = w
    OBVIOUS
  <2>2. Cardinality(x..(x + w - 1)) = IF x > x + w - 1 THEN 0 ELSE (x + w - 1) - x + 1
    BY <2>1, FS_Interval
  <2> QED
    BY <2>1, <2>2
<1> QED
  BY <1>4, <1>5 DEF C

\* Every step keeps what was asked for in balance.
LEMMA NextDone ==
  ASSUME WidthsAddUp, IInv, DoneInv, [Next]_vars
  PROVE  DoneInv'
<1>1. CASE \/ InitNodev \/ InitNosys \/ InitAlloc \/ SetFont \/ UNCHANGED vars
           \/ \E color \in Backgrounds : SetBackground(color)
           \/ BackgroundAsserts
           \/ \E c \in Clients : RectFails(c) \/ IconFails(c) \/ GlyphFails(c) \/ NoFont(c)
  BY <1>1, SettingDone DEF BackgroundAsserts, RectFails, IconFails, GlyphFails, NoFont
<1>2. ASSUME NEW c \in Clients, NEW color \in Colors, NEW r \in Rects,
             \/ FillRectangle(c, color, r) \/ DrawHorizontalLine(c, color, r)
             \/ DrawVerticalLine(c, color, r)
      PROVE  DoneInv'
  <2>1. r.x \in Nat /\ r.y \in Nat /\ r.w \in Nat /\ r.h \in Nat
    BY ArgumentAssumption, WidthAssumption
  <2> QED
    BY <1>2, <2>1, FillBoxDone DEF FillRectangle, DrawHorizontalLine, DrawVerticalLine
<1>3. ASSUME NEW c \in Clients, NEW color \in Colors, FillDisplay(c, color)
      PROVE  DoneInv'
  <2>1. lcd.xsize \in Nat /\ lcd.ysize \in Nat
    BY DEF IInv, LcdOK
  <2>2. Screen = Box(0, 0, lcd.xsize, lcd.ysize)
    BY <2>1 DEF Box, Screen
  <2>3. FillBox(c, color, 0, 0, lcd.xsize, lcd.ysize, Box(0, 0, lcd.xsize, lcd.ysize), TRUE)
    BY <1>3, <2>2 DEF FillDisplay
  <2> QED
    BY <2>1, <2>3, FillBoxDone
<1>4. ASSUME NEW c \in Clients, NEW color \in Colors, NEW p \in Places, NEW t \in Texts,
             DrawStringAt(c, color, p, t)
      PROVE  DoneInv'
  <2> DEFINE want == TextBox(StartColumn(p[1]), p[2], t)
             judged == p[2] + FontHeight < W32
  <2>1. DrawText(c, color, p[1], p[2], t, want, judged, 0)
    BY <1>4 DEF DrawStringAt
  <2>2. \A s : s.want = want /\ s.columns = 0 => WholeOK(s)
    BY DEF WholeOK
  <2> QED
    BY <2>1, <2>2, DrawTextDone
<1>5. ASSUME NEW c \in Clients, NEW color \in Colors, NEW l \in TextLines, NEW t \in Texts,
             NEW mode \in {"Left", "Center", "Right"}, DrawStringAtLine(c, color, l, t, mode)
      PROVE  DoneInv'
  BY <1>5, AlignedDone
<1>6. ASSUME NEW c \in Clients, \/ \E r \in Icons : DrawIcon(c, r)
                                \/ LoadIconLine(c) \/ DisplayWrite(c) \/ Return(c)
      PROVE  DoneInv'
  BY <1>6, DrawIconDone, LoadIconLineDone, DisplayWriteDone, ReturnDone
<1>7. ASSUME NEW c \in Clients, \/ EndText(c) \/ NextChar(c) \/ SkipGlyphLine(c)
                                \/ LoadGlyphLine(c) \/ EndGlyph(c)
      PROVE  DoneInv'
  BY <1>7, EndTextDone, NextCharDone, GlyphDone, EndGlyphDone
<1> QED
  BY <1>1, <1>2, <1>3, <1>4, <1>5, <1>6, <1>7 DEF Next

\* At the start no call is under way.
LEMMA InitDone == ASSUME Init PROVE DoneInv
<1>1. IsShown(NothingShown)
  BY DEF IsShown, NothingShown
<1>2. ASSUME NEW c \in Clients PROVE pc[c] = "idle" /\ shown[c] = NothingShown
  BY DEF Init
<1>3. shown = [c \in Clients |-> shown[c]]
  BY DEF Init
<1> HIDE DEF NothingShown
<1> QED
  BY <1>1, <1>2, <1>3 DEF DoneInv, DoneOK

\* A call that is judged and has ended has drawn exactly what lies on the screen
\* of its rectangle, icon or text, for every panel and font, however the calls
\* interleave: clipping, narrowing and the loop over the characters lose no
\* pixel and add none.  Judged are all icons and rectangles that begin left of
\* the right edge, with less than 2^16 columns and lines and a last line below
\* 2^32, and the texts whose last line is below 2^32, aligned ones if Alignable.
THEOREM CallsDrawAsked == ASSUME WidthsAddUp PROVE Spec => []DrawsWhatWasAsked
<1>1. DoneInv => DrawsWhatWasAsked
  BY DEF DoneInv, DoneOK, ToDraw, DrawsWhatWasAsked
<1> QED
  BY InitIInv, NextIInv, InitDone, NextDone, <1>1, PTL DEF Spec

\* No column of an Alignable text that is narrower than the screen is lost,
\* whatever the alignment: a screen of less than 2^15 columns, a text of less
\* than 2^16 whose bytes are below 128 where char is signed.
THEOREM AlignedTextsWhole == ASSUME WidthsAddUp PROVE Spec => []AlignedTextWhole
<1>1. ASSUME IInv, DoneInv PROVE AlignedTextWhole
  <2> SUFFICES ASSUME NEW c \in Clients, pc[c] = "return", shown[c].judged,
                      shown[c].columns > 0, shown[c].columns < lcd.xsize
               PROVE  Cardinality({p[1] : p \in shown[c].done}) = shown[c].columns
    BY DEF AlignedTextWhole
  <2> DEFINE s == shown[c]
             n == s.columns
  <2>1. DoneOK("return", area[c], job[c], s)
    BY <1>1 DEF DoneInv
  <2> HIDE DEF s
  <2>2. s.done = s.want /\ WholeOK(s) /\ s.judged
    BY <2>1 DEF DoneOK, ToDraw, s
  <2>3. 0 < n /\ n < lcd.xsize
    BY <1>1 DEF s, IInv, LcdOK
  <2>4. PICK x \in Nat, y \in Nat : /\ s.want = Box(x, y, n, FontHeight) /\ n \in Nat
                                    /\ x + n <= lcd.xsize /\ y < lcd.ysize /\ 0 < FontHeight
    BY <2>2, <2>3 DEF WholeOK
  <2> HIDE DEF n
  <2>5. LcdOK /\ FontHeight \in Nat
    BY <1>1, ArgumentAssumption DEF IInv
  <2>6. Cardinality({p[1] : p \in Box(x, y, n, FontHeight)}) = n
    BY <2>3, <2>4, <2>5, BoxWidth
  <2> QED
    BY <2>2, <2>4, <2>6 DEF n, s
<1> QED
  BY InitIInv, NextIInv, InitDone, NextDone, <1>1, PTL DEF Spec

=============================================================================
