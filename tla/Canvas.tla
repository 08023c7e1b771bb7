-------------------------------- MODULE Canvas --------------------------------
(***************************************************************************)
(* core/canvas.cpp and core/canvas-impl.cpp: an UnbufferedCanvas collects  *)
(* pixels in a window of a few rows and draws it when the next pixel does  *)
(* not fit.  fill() and import() set their pixels row by row, and          *)
(* import() leaves out the transparent ones.                               *)
(*                                                                         *)
(* A colour is left out: a place of dirty holds the pixel that was stored  *)
(* in it since the last flush, and a place without one holds what is left  *)
(* of earlier windows.                                                     *)
(***************************************************************************)
EXTENDS Integers

CONSTANTS Width, Height, buffered_rows,
          Fills,     \* the arguments of fill(): <<x0, y0, xw, yh>>
          Imports    \* the same of import()

VARIABLES
  window,     \* dirty_x, dirty_first_x_max, dirty_cur_x_max, dirty_y, dirty_y_max
  stored,     \* the pixel in each place of dirty
  drawing,    \* the call that is setting its pixels
  strayed,    \* history: a pixel joined the window out of its order
  mixed,      \* history: the window has pixels of two calls, or misses one of import()
  misplaced   \* history: import() was told to draw past the edge

vars == <<window, stored, drawing, strayed, mixed, misplaced>>

NoWindow == [x |-> -1]
NoCall == [kind |-> "none"]
Pixel == Nat \X Nat

TypeOK ==
  /\ window = NoWindow \/ (/\ window.x <= window.first_x_max /\ window.x <= window.cur_x_max
                           /\ window.y <= window.y_max)
  \* What is stored is inside dirty.
  /\ misplaced \/ DOMAIN stored \subseteq 0..(Width * buffered_rows - 1)
  /\ \A place \in DOMAIN stored : stored[place] \in Pixel
  /\ {strayed, mixed, misplaced} \subseteq BOOLEAN

Init ==
  /\ window = NoWindow /\ stored = <<>>
  /\ drawing = NoCall
  /\ strayed = FALSE /\ mixed = FALSE /\ misplaced = FALSE

-----------------------------------------------------------------------------
(* UnbufferedCanvas                                                         *)

PerRow(w) == w.first_x_max - w.x + 1
dirty_at(w, x, y) == (x - w.x) + (y - w.y) * PerRow(w)

\* Mutant: the line need not be finished.
needs_to_be_flushed_unfinished(w, x, y) ==
  \/ x < w.x \/ x > w.cur_x_max + 1
  \/ w.y < w.y_max /\ x > w.first_x_max
  \/ y < w.y \/ y > w.y_max + 1
  \/ y > w.y_max /\ PerRow(w) * (y - w.y + 1) > Width * buffered_rows

needs_to_be_flushed(w, x, y) ==
  \/ x < w.x \/ x > w.cur_x_max + 1
  \/ y > w.y_max /\ w.cur_x_max < w.first_x_max
  \/ w.y < w.y_max /\ x > w.first_x_max
  \/ y < w.y \/ y > w.y_max + 1
  \/ y > w.y_max /\ PerRow(w) * (y - w.y + 1) > Width * buffered_rows

\* The window with a pixel more.
NewWindow(x, y) == [x |-> x, first_x_max |-> x, cur_x_max |-> x, y |-> y, y_max |-> y]
NextRow(w, x, y) == IF y = w.y_max + 1 THEN [w EXCEPT !.y_max = y, !.cur_x_max = x] ELSE w
Wider(w, x) ==
  IF x <= w.cur_x_max THEN w
  ELSE [w EXCEPT !.cur_x_max = x, !.first_x_max = IF w.y = w.y_max THEN x ELSE @]

\* A pixel of the last row or the next to it, and one that is there already, keep
\* the order of the window: rows from the first column on, without gaps.
InOrder(w, x, y) ==
  \/ y = w.y_max
  \/ y = w.y_max + 1 /\ x = w.x
  \/ y < w.y_max /\ x <= w.cur_x_max

With(kept, place, pixel) ==
  [p \in DOMAIN kept \cup {place} |-> IF p = place THEN pixel ELSE kept[p]]

set_pixel_raw(x, y, mix) ==
  LET flushed == window = NoWindow \/ needs_to_be_flushed(window, x, y)
      w == IF flushed THEN NewWindow(x, y) ELSE Wider(NextRow(window, x, y), x)
      kept == IF flushed THEN <<>> ELSE stored
  IN /\ window' = w
     /\ stored' = With(kept, dirty_at(w, x, y), <<x, y>>)
     /\ strayed' = (~flushed /\ (strayed \/ ~InOrder(window, x, y)))
     /\ mixed' = (~flushed /\ (mixed \/ mix))

\* What flush() draws: pixels, each from its place.  The last row is drawn by
\* itself when it is not as long as the first.
Drawn(w) ==
  LET whole == IF w.cur_x_max = w.first_x_max THEN w.y_max ELSE w.y_max - 1
      pixels == ((w.x..w.first_x_max) \X (w.y..whole)) \cup ((w.x..w.cur_x_max) \X {w.y_max})
  IN {<<p, dirty_at(w, p[1], p[2])>> : p \in pixels}

-----------------------------------------------------------------------------
(* The application                                                          *)

Call(kind, x0, y0, xw, yh) ==
  drawing' = IF xw > 0 /\ yh > 0
               THEN [kind |-> kind, x0 |-> x0, x_end |-> x0 + xw, y_end |-> y0 + yh,
                     x |-> x0, y |-> y0, first |-> TRUE]
               ELSE NoCall

\* Mutant: the width is clipped as if the rectangle began at the edge.
FillWidth_at_edge(x0, xw) == IF xw = 0 \/ xw > Width THEN Width ELSE xw

FillWidth(x0, xw) == IF xw = 0 \/ x0 + xw > Width THEN Width - x0 ELSE xw
FillHeight(y0, yh) == IF yh = 0 \/ y0 + yh > Height THEN Height - y0 ELSE yh

fill(x0, y0, xw, yh) ==
  /\ drawing = NoCall
  /\ Call("fill", x0, y0, FillWidth(x0, xw), FillHeight(y0, yh))
  /\ UNCHANGED <<window, stored, strayed, mixed, misplaced>>

\* A width is clipped only when it is wider than the canvas with x0 added to it.
import(x0, y0, xw, yh) ==
  LET iw == IF xw <= 0 \/ xw > x0 + Width THEN Width - x0 ELSE xw
      ih == IF yh <= 0 \/ yh > y0 + Height THEN Height - y0 ELSE yh
  IN /\ drawing = NoCall
     /\ Call("import", x0, y0, iw, ih)
     /\ misplaced' = (misplaced \/ x0 + iw > Width \/ y0 + ih > Height)
     /\ UNCHANGED <<window, stored, strayed, mixed>>

\* The loops of both, after one pixel.
Loop(first) ==
  LET d == drawing IN
  drawing' = IF d.x + 1 < d.x_end THEN [d EXCEPT !.x = @ + 1, !.first = first]
             ELSE IF d.y + 1 < d.y_end THEN [d EXCEPT !.x = d.x0, !.y = @ + 1, !.first = first]
             ELSE NoCall

DrawPixel ==
  /\ drawing # NoCall
  /\ set_pixel_raw(drawing.x, drawing.y, drawing.first)
  /\ Loop(FALSE)
  /\ UNCHANGED misplaced

\* get_pixel() of a transparent pixel.
SkipPixel ==
  /\ drawing.kind = "import"
  /\ Loop(TRUE)
  /\ UNCHANGED <<window, stored, strayed, mixed, misplaced>>

flush ==
  /\ drawing = NoCall
  /\ window' = NoWindow /\ stored' = <<>>
  /\ strayed' = FALSE /\ mixed' = FALSE /\ misplaced' = FALSE
  /\ UNCHANGED drawing

Next ==
  \/ \E a \in Fills : fill(a[1], a[2], a[3], a[4])
  \/ \E a \in Imports : import(a[1], a[2], a[3], a[4])
  \/ DrawPixel \/ SkipPixel \/ flush

Spec == Init /\ [][Next]_vars

-----------------------------------------------------------------------------
(* Properties.                                                              *)

\* What a flush draws is what was set since the last one, each pixel from the
\* place that holds it, whatever rectangles and pixels the window was made of;
\* unless a pixel has begun a row to the right of the window, or lengthened
\* one above the last: the gap is then drawn with what dirty still holds.
ShowsWhatWasSet ==
  window # NoWindow /\ ~strayed => Drawn(window) = {<<stored[place], place>> : place \in DOMAIN stored}

\* That happens only when the window has pixels of two calls, or a transparent
\* pixel is in between: one fill() is always drawn as it is.
StraysOnlyWhenMixed == strayed => mixed

\* Nothing is drawn beyond the canvas, but by an import() that begins away from
\* the corner and is given a size (74, 75).
StaysOnCanvas ==
  window # NoWindow /\ ~misplaced =>
    \A d \in Drawn(window) : d[1] \in (0..Width - 1) \X (0..Height - 1)

=============================================================================
