-------------------------------- MODULE Frame --------------------------------
(***************************************************************************)
(* What the user sees: the sizes of a terminal and of its screens           *)
(* (terminal.c, text.c), the software renderer bbulk.c with its cache of    *)
(* drawn cells, and the two buffers of a DRM display (drm2d_video.c,        *)
(* drm_shared.c) with the damage that is passed to the kernel.              *)
(*                                                                         *)
(* The renderer draws only the cells that differ from what it drew before, *)
(* and since a display has two buffers every change has to be drawn twice. *)
(* On a display with OpenGL (drm3d_video.c) gltex.c draws all of them for   *)
(* every frame instead; which buffer it draws into is a matter of Flip.     *)
(* The mouse pointer is drawn into the frame, or is the display's hardware  *)
(* cursor, which a commit shows or hides.                                  *)
(* The cells of a screen are one row; only the display Lit is drawn, the   *)
(* other ones limit the size of the terminals.  The order of flips, events *)
(* and redraws is that of Flip; here a finished flip and the callback it   *)
(* leads to are one step.                                                  *)
(***************************************************************************)
EXTENDS Naturals, FiniteSets, FiniteSetsExt, SequencesExt

CONSTANTS
  Terminal,      \* the terminals of the sessions
  Display,       \* the displays, Lit among them
  Lit,           \* the display that is drawn
  Mode,          \* the fonts, each in both orientations: <<font, turned>>
  Fit,           \* Fit[m][d]: the cells that fit on display d in mode m
  Uses           \* the ways the console is used (see "use")

ASSUME FrameAssumption ==
  /\ Lit \in Display /\ IsFiniteSet(Display) /\ IsFiniteSet(Mode) /\ IsFiniteSet(Terminal)
  /\ \A m \in Mode : m = <<m[1], m[2]>> /\ m[2] \in BOOLEAN /\ <<m[1], ~m[2]>> \in Mode
  /\ Fit \in [Mode -> [Display -> Nat \ {0}]]
  /\ Uses \subseteq SUBSET {"pointer", "colours", "zoom", "plug", "vt", "turn", "wide", "switch",
                            "hide", "cursor", "close", "rail"}

VARIABLES
  current,       \* the terminal in front
  open,          \* the terminals of the sessions that are not closed
  awake,         \* the terminals with awake set
  shown,         \* the device is awake
  mode,          \* the font and orientation of the screens of a terminal
  plugged,       \* the displays
  width,         \* term->min_cols, which the console and the PTY are told of
  cols,          \* txt->cols of every screen
  text,          \* the contents of the console, its cursor included
  pointer,       \* the cell under the mouse pointer; 0: it is hidden
  swapping,      \* the terminals whose screen on Lit has swapping set
  pending,       \* the terminals whose screen on Lit has pending set
  cells,         \* bb->cells: what was drawn last
  damaged,       \* cell_flags.damaged
  wide,          \* cell_flags.double_width
  known,         \* bb->attr is the default attribute of the console
  redraw,        \* bb->redraw
  buf,           \* the pixels of the two buffers
  front,         \* current_rb
  scanned,       \* the buffer the kernel scans out
  glass,         \* what the display shows when its flip is done
  vsync,         \* DISPLAY_VSYNC
  need,          \* DISPLAY_NEED_REDRAW
  blob,          \* damage_blob_id, as the set of damaged cells
  cursor,        \* drm_display.cursor
  plane,         \* what the kernel shows on the cursor plane
  gl,            \* DISPLAY_OPENGL: drm3d and gltex
  clips,         \* DISPLAY_DAMAGE: the driver reads nothing but the damage
  use            \* what happens in this use of the console

seatVars   == <<current, open, awake, shown>>
sizeVars   == <<mode, plugged, width, cols>>
screenVars == <<text, pointer, swapping, pending>>
bbulkVars  == <<cells, damaged, wide, known, redraw>>
drmVars    == <<buf, front, scanned, glass, vsync, need, blob>>
cursorVars == <<cursor, plane>>
useVars    == <<gl, clips, use>>
vars == <<seatVars, sizeVars, screenVars, bbulkVars, drmVars, cursorVars, useVars>>

MaxCols == Max(UNION {Range(Fit[m]) : m \in Mode})
Cell    == 1..MaxCols
NoBlob  == {0}

\* A cell is blank, holds a glyph, or one that is two cells wide.
Symbol == IF "wide" \in use THEN {" ", "x", "W"} ELSE {" ", "x"}
\* What bb->cells remembers besides: ID_DAMAGED and ID_OVERFLOW.
Cached == Symbol \cup {"damaged", "overflow"}
\* Pixels: a cell, the halves of a wide glyph, the pointer, the page, black,
\* and what was left there by another layout.
Pixel  == {" ", "x", "left", "right", "pointer", "page", "black", "junk"}

\* A place on a display is a cell and where the first cell lies: with the border
\* of a mode and a size, or in the corner.
Border(m, n) == {<<m, n>>}
Corner == {}
Hidden == <<Corner, 0>>
Foreign == <<Corner, 1>>     \* a cursor of another program
Origin == {Corner} \cup {Border(m, n) : m \in Mode, n \in 0..MaxCols}

TypeOK ==
  /\ current \in open /\ open \subseteq Terminal /\ awake \subseteq Terminal /\ shown \in BOOLEAN
  /\ mode \in [Terminal -> Mode] /\ Lit \in plugged /\ plugged \subseteq Display
  /\ width \in [Terminal -> Cell] /\ cols \in [Terminal -> [Display -> 0..MaxCols]]
  /\ text \in [Terminal -> [Cell -> Symbol]]
  /\ pointer \in [Terminal -> 0..MaxCols]
  /\ swapping \subseteq Terminal /\ pending \subseteq Terminal
  /\ cells \in [Terminal -> [Cell -> Cached]]
  /\ damaged \in [Terminal -> SUBSET Cell] /\ wide \in [Terminal -> SUBSET Cell]
  /\ known \in [Terminal -> BOOLEAN] /\ redraw \in [Terminal -> 0..2]
  /\ buf \in [{0, 1} -> [Cell -> Pixel]] /\ glass \in [Cell -> Pixel]
  /\ front \in {0, 1} /\ scanned \in {0, 1}
  /\ vsync \in BOOLEAN /\ need \in BOOLEAN
  /\ blob \in {NoBlob} \cup SUBSET Cell
  /\ cursor \in [active : BOOLEAN, visible : BOOLEAN, at : 0..MaxCols, origin : Origin]
  /\ plane \in Origin \X (0..MaxCols)
  /\ gl \in BOOLEAN /\ clips \in BOOLEAN /\ use \in Uses

-----------------------------------------------------------------------------
(***************************************************************************)
(* A handler threads the record "r" through the calls it makes and stores  *)
(* it with Store.                                                          *)
(***************************************************************************)
Now == [awake |-> awake, mode |-> mode, plugged |-> plugged, width |-> width,
        cols |-> cols, text |-> text, pointer |-> pointer,
        swapping |-> swapping, pending |-> pending,
        cells |-> cells, damaged |-> damaged, wide |-> wide, known |-> known,
        redraw |-> redraw, buf |-> buf, front |-> front, scanned |-> scanned,
        glass |-> glass, vsync |-> vsync, need |-> need, blob |-> blob,
        open |-> open, cursor |-> cursor, plane |-> plane]

Store(new) == \E r \in {new} :
  /\ awake' = r.awake /\ mode' = r.mode /\ plugged' = r.plugged
  /\ width' = r.width /\ cols' = r.cols /\ text' = r.text /\ pointer' = r.pointer
  /\ swapping' = r.swapping /\ pending' = r.pending
  /\ cells' = r.cells /\ damaged' = r.damaged /\ wide' = r.wide
  /\ known' = r.known /\ redraw' = r.redraw
  /\ buf' = r.buf /\ front' = r.front /\ scanned' = r.scanned /\ glass' = r.glass
  /\ vsync' = r.vsync /\ need' = r.need /\ blob' = r.blob
  /\ open' = r.open /\ cursor' = r.cursor /\ plane' = r.plane

-----------------------------------------------------------------------------
(***************************************************************************)
(* bbulk.c.  A frame is drawn into the back buffer "pix"; "s" holds what   *)
(* the renderer keeps of the terminal's screen.                            *)
(***************************************************************************)
Blank(p) == [c \in Cell |-> p]

Renderer(r, t) == [cells |-> r.cells[t], damaged |-> r.damaged[t], wide |-> r.wide[t],
                   redraw |-> r.redraw[t], pix |-> r.buf[1 - r.front]]

\* damage_cell on the cells C.
DamageCells(s, C) ==
  [s EXCEPT !.cells = [c \in Cell |-> IF c \in C THEN "damaged" ELSE @[c]],
            !.damaged = @ \cup C]

\* bbulk_prepare: after new colours or a mode set the next two frames are drawn
\* from scratch.  A blob that is still there belongs to a frame that was not
\* shown.
Prepare(r, t) ==
  LET s == Renderer(r, t)
      n == IF ~r.known[t] \/ r.need THEN 2 ELSE s.redraw
  IN  IF n > 0
      THEN DamageCells([s EXCEPT !.pix = Blank("page"), !.redraw = n - 1], Cell)
      ELSE IF r.blob # NoBlob THEN DamageCells(s, s.damaged) ELSE s

\* The wide glyph drawn to the left of the cell takes its place too.
Overflows(s, ch, c) == ch = " " /\ c > 1 /\ c - 1 \in s.wide

\* The cell shows what is to be drawn, in both buffers.
UpToDate(s, ch, c, last) ==
  /\ s.cells[c] = ch
  /\ c \notin s.damaged
  /\ c \in s.wide /\ ~last => c + 1 \notin s.damaged

\* drm2d_display_blend: the pixels of the cells C are overwritten.
Blend(s, C, p) == [s EXCEPT !.pix = [c \in Cell |-> IF c \in C THEN p ELSE @[c]]]

\* bbulk_draw_cell.  "last" is the last column, which cuts a wide glyph off.
DrawCell(s, ch, c, last) ==
  LET changed == s.cells[c] # ch
      double  == ch = "W"
      spills  == double /\ ~last
      glyph   == IF double THEN Blend(Blend(s, {c}, "left"), IF spills THEN {c + 1} ELSE {}, "right")
                 ELSE Blend(s, {c}, ch)
      drawn   == [glyph EXCEPT !.damaged = IF changed THEN @ \cup {c} ELSE @ \ {c},
                               !.cells[c] = ch,
                               !.wide = IF double THEN @ \cup {c} ELSE @ \ {c}]
  IN  IF Overflows(s, ch, c)
      THEN [s EXCEPT !.damaged = IF s.cells[c] = "overflow" THEN @ \ {c} ELSE @ \cup {c},
                     !.cells[c] = "overflow"]
      ELSE IF UpToDate(s, ch, c, last) THEN s
      ELSE IF changed /\ spills THEN DamageCells(drawn, {c + 1}) ELSE drawn

\* The renderer's width is its own; past the end of the console's row there is
\* nothing to draw.
InRow(row, c, w) == IF c <= w THEN row[c] ELSE " "

\* bbulk_draw: the cells in their order.
Draw(s, row, n, w) ==
  LET upto[c \in 0..n] ==
        IF c = 0 THEN s ELSE DrawCell(upto[c - 1], InRow(row, c, w), c, c = n)
  IN  upto[n]

\* The pointer that is drawn lies on its cell and the next one.
HardwareCursor == "cursor" \in use
Under(p, n) == IF p = 0 \/ HardwareCursor THEN {} ELSE {p, p + 1} \cap 1..n

\* bbulk_draw_pointer and mark_damaged.
DrawPointer(s, p, n) == Blend(DamageCells(s, Under(p, n)), Under(p, n), "pointer")

\* bbulk_render with drm_display_set_damage.
Damage(r, s, n) ==
  IF ~clips THEN r.blob
  ELSE IF r.need THEN NoBlob ELSE s.damaged \cap 1..n

-----------------------------------------------------------------------------
(***************************************************************************)
(* gltex.c.  A frame is a list of quads, a cell each, in the order they    *)
(* were drawn; "s" has its pixels and counts the quads.  The glyphs of a   *)
(* console fit into one atlas.                                             *)
(***************************************************************************)
\* get_atlas: the quads an atlas has room for.
Room(r, t) == Fit[r.mode[t]][Lit] * 3 + 1

\* gltex_draw_status in the idle layout without a logo: the title and the last
\* line are as long as a row, and the status, name and context of the device
\* are a character each.
Rail(n) == IF "rail" \in use THEN 2 * n + 3 ELSE 0

\* gltex_draw_cell_at: a blank after a wide glyph is left to it, and a quad
\* that the atlas has no room for is left out.
GlCell(s, ch, c, room) ==
  IF c > 1 /\ s.overflow /\ ch = " " THEN [s EXCEPT !.overflow = FALSE]
  ELSE IF s.quads >= room THEN s
  ELSE [(IF ch = "W" THEN Blend(Blend(s, {c}, "left"), {c + 1}, "right") ELSE Blend(s, {c}, ch))
          EXCEPT !.overflow = ch = "W", !.quads = @ + 1]

\* gltex_draw.
GlDraw(s, row, n, w, room) ==
  LET upto[c \in 0..n] ==
        IF c = 0 THEN s ELSE GlCell(upto[c - 1], InRow(row, c, w), c, room)
  IN  upto[n]

\* gltex_draw_pointer, after the status.
GlDrawPointer(s, p, n, room) ==
  IF s.quads + Rail(n) >= room THEN s ELSE Blend(s, Under(p, n), "pointer")

\* gltex_prepare: an empty page.
GlPrepare == [pix |-> Blank("page"), quads |-> 0, overflow |-> FALSE]

\* What gltex_render draws: the page with the quads on it.
GlFrame(r, t) ==
  LET n == r.cols[t][Lit]
      row == GlDraw(GlPrepare, r.text[t], n, r.width[t], Room(r, t))
  IN  GlDrawPointer(row, r.pointer[t], n, Room(r, t)).pix

-----------------------------------------------------------------------------
(***************************************************************************)
(* The hardware cursor.  terminal.c and drm_shared.c only note what it     *)
(* should be; the next commit tells the kernel.                            *)
(***************************************************************************)
\* drm_display_setup_cursor.
SetupCursor(r) ==
  [r EXCEPT !.cursor.active = TRUE, !.cursor.visible = FALSE, !.cursor.origin = Corner]

\* setup_hw_cursor, with generate_ibeam_cursor.
SetupHwCursor(r) == IF HardwareCursor THEN SetupCursor(r) ELSE r

\* drm_display_set_cursor_offset, which the renderers call with the border.
SetCursorOffset(r, t) == [r EXCEPT !.cursor.origin = Border(r.mode[t], r.cols[t][Lit])]

\* drm_display_show_cursor.
ShowCursor(r, p) ==
  IF r.cursor.active THEN [r EXCEPT !.cursor.visible = TRUE, !.cursor.at = p] ELSE r

\* hw_cursor_show and text_show_cursor.
HwCursorShow(r, p) == IF HardwareCursor THEN ShowCursor(r, p) ELSE r

\* drm_display_hide_cursor.
HideCursor(r) == [r EXCEPT !.cursor.visible = FALSE]

\* hw_cursor_hide.
HwCursorHide(r) == IF HardwareCursor THEN HideCursor(r) ELSE r

\* drm_display_destroy_cursor.
DestroyCursor(r) == [HideCursor(r) EXCEPT !.cursor.active = FALSE]

\* refresh_hw_cursor.
RefreshHwCursor(r) == IF HardwareCursor THEN SetupHwCursor(DestroyCursor(r)) ELSE r

\* modeset_clear_cursor on all cursor planes.
ClearCursor(r) == [r EXCEPT !.plane = Hidden]

\* drm_prepare_commit on the cursor plane of the display, if it has one.
CommitCursor(r) ==
  IF ~HardwareCursor THEN r
  ELSE [r EXCEPT !.plane = IF r.cursor.active /\ r.cursor.visible
                           THEN <<r.cursor.origin, r.cursor.at>> ELSE Hidden]

-----------------------------------------------------------------------------
\* do_redraw_screen on the screen of t on Lit with gltex.
GlRedraw(r, t) ==
  LET drawn == [r EXCEPT !.pending = @ \ {t}, !.swapping = @ \cup {t}]
  IN  IF r.vsync THEN drawn
      ELSE CommitCursor([drawn EXCEPT !.vsync = TRUE, !.need = FALSE, !.glass = GlFrame(r, t)])

\* do_redraw_screen on the screen of t on Lit.  The swap is refused while a flip
\* is outstanding; display_swap drops the error.
DoRedraw(r, t) ==
  LET n     == r.cols[t][Lit]
      s     == DrawPointer(Draw(Prepare(r, t), r.text[t], n, r.width[t]), r.pointer[t], n)
      hurt  == Damage(r, s, n)
      drawn == [r EXCEPT !.cells[t] = s.cells, !.damaged[t] = s.damaged,
                         !.wide[t] = s.wide, !.redraw[t] = s.redraw, !.known[t] = TRUE,
                         !.buf[1 - r.front] = s.pix, !.blob = hurt,
                         !.pending = @ \ {t}, !.swapping = @ \cup {t}]
  IN  IF t \notin r.awake THEN r
      ELSE IF gl THEN GlRedraw(r, t)
      ELSE IF r.vsync THEN drawn
      ELSE CommitCursor([drawn EXCEPT
              !.front = 1 - @, !.vsync = TRUE, !.need = FALSE, !.blob = NoBlob,
              !.glass = IF hurt = NoBlob THEN s.pix
                        ELSE [c \in Cell |-> IF c \in hurt THEN s.pix[c] ELSE @[c]]])

\* redraw_all, with redraw_screen.
RedrawAll(r, t) ==
  IF t \notin r.awake THEN r
  ELSE IF t \in r.swapping THEN [r EXCEPT !.pending = @ \cup {t}]
  ELSE DoRedraw(r, t)

\* Mutation: a terminal that comes to the front does not look for a flip.
RedrawAllTextBlind(r, t) == RedrawAll(r, t)

\* redraw_all_text.
RedrawAllText(r, t) ==
  IF t \notin r.awake THEN r
  ELSE RedrawAll(IF r.vsync THEN [r EXCEPT !.swapping = @ \cup {t}] ELSE r, t)

-----------------------------------------------------------------------------
(***************************************************************************)
(* Sizes.                                                                  *)
(***************************************************************************)
\* The size of the terminal: the smallest of its screens.
Smallest(r, t) == Min({Fit[r.mode[t]][d] : d \in r.plugged})

\* What the buffers and the display hold was drawn in another layout.
Misplaced(r) ==
  [r EXCEPT !.buf = [b \in {0, 1} |-> IF gl THEN @[b] ELSE Blank("junk")],
            !.glass = Blank("junk")]

\* bbulk_resize and gltex_resize, once txt->cols is set.
BbulkResize(r, t) == SetCursorOffset([r EXCEPT !.redraw[t] = 2], t)

\* kmscon_text_resize on the screens on D; a size that does not fit is refused.
TextResize(r, t, size, D) ==
  [d \in Display |-> IF d \in D /\ size <= Fit[r.mode[t]][d] THEN size ELSE r.cols[t][d]]

\* kmscon_text_resize of all the screens to the size of the terminal.
Resize(r, t, size) ==
  BbulkResize([(IF t \in r.awake /\ r.cols[t][Lit] # size THEN Misplaced(r) ELSE r)
                 EXCEPT !.cols[t] = TextResize(r, t, size, r.plugged)], t)

\* terminal_update_size_notify, with terminal_update_size_clone.  "old" is
\* term->min_cols, or 0 after a reset.
UpdateSize(r, t, old) ==
  LET size == Smallest(r, t)
  IN  IF size = old THEN r
      ELSE RedrawAll(Resize([r EXCEPT !.width[t] = size], t, size), t)

\* bbulk_set and bbulk_unset: a renderer without memory of what it drew.
BbulkSet(r, t) ==
  [SetCursorOffset(Misplaced(r), t) EXCEPT
     !.cells[t] = Blank("damaged"), !.damaged[t] = Cell, !.wide[t] = {},
     !.known[t] = FALSE, !.redraw[t] = 0]

\* gltex_set and gltex_unset.
GlSet(r, t) == SetCursorOffset(Misplaced(r), t)

\* kmscon_text_set on the screens on D, which are as large as their display
\* allows.
TextSet(r, t, D) ==
  LET sized == [r EXCEPT !.cols[t] = [d \in Display |->
                           IF d \in D THEN Fit[r.mode[t]][d] ELSE @[d]]]
  IN  IF Lit \notin D THEN sized ELSE IF gl THEN GlSet(sized, t) ELSE BbulkSet(sized, t)

\* The screens get a new font or orientation, and a cursor to match with
\* refresh_hw_cursor, which is hidden.
RefreshScreens(r, t) == RefreshHwCursor(TextSet(r, t, r.plugged))

\* Mutation: the size is compared with the one in the old font.
FontSetKeepsSize(r, t, m) ==
  UpdateSize(RefreshScreens([r EXCEPT !.mode[t] = m], t), t, r.width[t])

\* font_set.
FontSet(r, t, m) == UpdateSize(RefreshScreens([r EXCEPT !.mode[t] = m], t), t, 0)

\* rotate_cw_all and rotate_ccw_all.
RotateAll(r, t) ==
  UpdateSize(RefreshScreens([r EXCEPT !.mode[t][2] = ~@], t), t, r.width[t])

\* terminal_add_display: the new screen is drawn on its own display.
AddDisplay(r, t, d) ==
  LET sized == UpdateSize(TextSet(r, t, {d}), t, r.width[t])
  IN  [sized EXCEPT !.cols[t] = TextResize(sized, t, sized.width[t], {d})]

\* terminal_rm_display.
RmDisplay(r, t, d) == UpdateSize([r EXCEPT !.cols[t][d] = 0], t, r.width[t])

\* A call for every terminal of the seat.
ForTerminals(Call(_, _), r) == FoldSet(LAMBDA t, a : Call(a, t), r, r.open)

-----------------------------------------------------------------------------
(***************************************************************************)
(* The display.                                                            *)
(***************************************************************************)
\* terminal_activate on an open terminal.
Activate(r, t) == RedrawAllText([r EXCEPT !.awake = @ \cup {t}], t)

Deactivate(r, t) == [r EXCEPT !.awake = @ \ {t}]

\* drm_display_pflip: display_pageflip of the screens of all terminals.
Pflip(r) ==
  ForTerminals(LAMBDA a, t : IF t \in a.pending THEN DoRedraw(a, t) ELSE a,
               [r EXCEPT !.vsync = FALSE, !.swapping = {}, !.scanned = r.front])

\* The commit of a mode set: the kernel shows the back buffer as it is.
CommitFrame(r) ==
  CommitCursor(ClearCursor(
    [r EXCEPT !.front = 1 - @, !.scanned = 1 - r.front, !.vsync = TRUE,
              !.glass = IF gl THEN Blank("junk") ELSE r.buf[1 - r.front]]))

\* Mutation: the display does not ask for a redraw after a mode set.
ModesetQuiet(r) == CommitFrame(r)

\* perform_modeset, display_prepare_modeset and display_done_modeset.
Modeset(r) == [CommitFrame(r) EXCEPT !.need = TRUE]

\* show_displays of drm3d: a black frame, unless a flip is outstanding.
GlShowDisplays(r) ==
  IF r.vsync THEN r
  ELSE CommitCursor([r EXCEPT !.vsync = TRUE, !.need = FALSE, !.glass = Blank("black")])

\* show_displays of drm2d clears the front buffer and waits for the flip.
ShowDisplays(r) ==
  IF gl THEN GlShowDisplays(r)
  ELSE [r EXCEPT !.buf[r.front] = Blank("black"), !.glass = Blank("black"),
                 !.scanned = r.front]

-----------------------------------------------------------------------------
\* pty_input: the program in front writes, which may change any cell.  (What one
\* in the back writes is drawn as if it came when its terminal is activated.)
Output ==
  /\ \E c \in 1..width[current], ch \in Symbol :
       Store(RedrawAll([Now EXCEPT !.text[current][c] = ch], current))
  /\ UNCHANGED <<current, shown, useVars>>

\* The program sets the default colours.
Colours ==
  /\ "colours" \in use
  /\ Store(RedrawAll([Now EXCEPT !.known[current] = FALSE], current))
  /\ UNCHANGED <<current, shown, useVars>>

\* POINTER_MOVED and the POINTER_SYNC that follows.
MovePointer ==
  /\ "pointer" \in use
  /\ \E p \in 1..width[current] :
       Store(RedrawAll(HwCursorShow([Now EXCEPT !.pointer[current] = p], p), current))
  /\ UNCHANGED <<current, shown, useVars>>

\* POINTER_HIDE_TIMEOUT draws nothing.
HidePointer ==
  /\ "hide" \in use
  /\ Store(HwCursorHide([Now EXCEPT !.pointer[current] = 0]))
  /\ UNCHANGED <<current, shown, useVars>>

\* zoom_in and zoom_out.
Zoom(m) ==
  /\ "zoom" \in use /\ shown
  /\ m[2] = mode[current][2] /\ m # mode[current]
  /\ Store(FontSet(Now, current, m))
  /\ UNCHANGED <<current, shown, useVars>>

\* The rotation grabs.
Rotate ==
  /\ "turn" \in use /\ shown
  /\ Store(RotateAll(Now, current))
  /\ UNCHANGED <<current, shown, useVars>>

\* The scrolling grabs: above the row there is an empty one.
Scroll ==
  /\ Store(RedrawAll([Now EXCEPT !.text[current] = Blank(" ")], current))
  /\ UNCHANGED <<current, shown, useVars>>

\* input_event on a terminal in front.
InputEvent == Scroll \/ Rotate \/ \E m \in Mode : Zoom(m)

\* The flip is done; drm_display_pflip or do_pflips tells the terminals.
Flipped ==
  /\ vsync
  /\ Store(Pflip(Now))
  /\ UNCHANGED <<current, shown, useVars>>

\* seat_switch to another session.
Switch(t) ==
  /\ "switch" \in use /\ shown /\ t \in open \ {current}
  /\ Store(Activate(Deactivate(Now, current), t))
  /\ current' = t
  /\ UNCHANGED <<shown, useVars>>

\* A session in the back is closed: kmscon_terminal frees its screens.
Close(t) ==
  /\ "close" \in use /\ t \in open \ {current}
  /\ Store(DestroyCursor([Now EXCEPT !.open = @ \ {t}, !.cols[t] = [d \in Display |-> 0]]))
  /\ UNCHANGED <<current, shown, useVars>>

\* drm_video_sleep waits for the flip, which the terminals hear of later, and
\* commits once more to hide the cursor.  (show_displays does nothing on a device
\* that is no longer awake.)
Sleep(r) == ClearCursor([r EXCEPT !.scanned = r.front])

\* seat_vt_deactivate.  Who comes next may leave a cursor of its own behind.
Leave ==
  /\ "vt" \in use /\ shown
  /\ LET asleep == Sleep(Deactivate(Now, current))
     IN  Store(asleep) \/ Store([asleep EXCEPT !.plane = Foreign])
  /\ shown' = FALSE
  /\ UNCHANGED <<current, useVars>>

\* seat_vt_activate.  The loop has told the terminals of the last flip.
Enter ==
  /\ ~shown /\ ~vsync
  /\ Store(Activate(ShowDisplays(Modeset(Now)), current))
  /\ shown' = TRUE
  /\ UNCHANGED <<current, useVars>>

\* A display is plugged in: the modes of all displays are set, the terminals
\* get a screen on it, and the current one is activated.
Plug(d) ==
  /\ "plug" \in use /\ shown /\ d \notin plugged
  /\ LET set == Modeset([Now EXCEPT !.plugged = @ \cup {d}])
     IN  Store(Activate(ForTerminals(LAMBDA r, t : AddDisplay(r, t, d), set), current))
  /\ UNCHANGED <<current, shown, useVars>>

Unplug(d) ==
  /\ "plug" \in use /\ shown /\ d \in plugged \ {Lit}
  /\ Store(ForTerminals(LAMBDA r, t : RmDisplay(r, t, d),
                        [Now EXCEPT !.plugged = @ \ {d}]))
  /\ UNCHANGED <<current, shown, useVars>>

-----------------------------------------------------------------------------
\* The console when seat_go_foreground has first shown it: the buffers were just
\* allocated, the mode is set, and the current terminal waits for the flip.
Init ==
  /\ gl \in BOOLEAN /\ clips \in {FALSE, ~gl} /\ use \in Uses
  /\ current \in Terminal /\ open = Terminal /\ awake = {current} /\ shown = TRUE
  /\ plugged = IF "plug" \in use THEN Display ELSE {Lit}
  /\ \E m \in Mode : ~m[2] /\ mode = [t \in Terminal |-> m]
  /\ width = [t \in Terminal |-> Min({Fit[mode[t]][d] : d \in plugged})]
  /\ cols = [t \in Terminal |-> [d \in Display |-> IF d \in plugged THEN width[t] ELSE 0]]
  /\ text = [t \in Terminal |-> Blank(" ")]
  /\ pointer = [t \in Terminal |-> 0]
  /\ swapping = {current} /\ pending = {current}
  /\ cells = [t \in Terminal |-> Blank("damaged")]
  /\ damaged = [t \in Terminal |-> Cell]
  /\ wide = [t \in Terminal |-> {}]
  /\ known = [t \in Terminal |-> FALSE]
  /\ redraw = [t \in Terminal |-> 2]
  /\ buf = [b \in {0, 1} |-> Blank("black")] /\ glass = Blank("black")
  /\ front = 1 /\ scanned = 1
  /\ vsync = TRUE /\ need = TRUE /\ blob = NoBlob
  /\ cursor = [active |-> HardwareCursor, visible |-> FALSE, at |-> 0,
               origin |-> Border(mode[current], width[current])]
  /\ plane = Hidden

Next ==
  \/ \E t \in Terminal : Switch(t) \/ Close(t)
  \/ \E d \in Display : Plug(d) \/ Unplug(d)
  \/ Output \/ Colours \/ MovePointer \/ HidePointer \/ InputEvent
  \/ Flipped \/ Leave \/ Enter

Spec == Init /\ [][Next]_vars

-----------------------------------------------------------------------------
\* What the user should see in the cell c.
Wanted(c) ==
  IF c \in Under(pointer[current], width[current]) THEN "pointer" ELSE text[current][c]

\* The terminal in front has handed its last frame over.
Settled ==
  /\ current \in awake /\ current \notin swapping \cup pending
  /\ ~vsync

ShowsText == \A c \in 1..width[current] : glass[c] = Wanted(c)

\* The hardware cursor is where the pointer is.
ShowsCursor ==
  plane = IF ~HardwareCursor \/ pointer[current] = 0 THEN Hidden
          ELSE <<Border(mode[current], width[current]), pointer[current]>>

\* Where nothing but output, colours, the pointer, zooming, hotplug and VT
\* switches happen, a display that has nothing left to do shows what the console
\* holds, whichever renderer draws it and whether its driver honours the damage
\* or not (bbulk_draw_cell, bbulk_prepare, bbulk_compute_damage, gltex_draw,
\* drm_display_set_damage), and a cursor that is not replaced meanwhile is where
\* the pointer is (hw_cursor_show, drm_prepare_commit, modeset_clear_cursor)
\* and leaves the display with the console (drm_video_sleep).
Exact ==
  /\ use \subseteq {"pointer", "colours", "zoom", "plug", "vt", "cursor"} /\ Settled => ShowsText
  /\ use \subseteq {"pointer", "plug", "vt", "cursor"} /\ Settled => ShowsCursor
  /\ ~shown => plane \in {Hidden, Foreign}

\* A session that is closed leaves the pointer of the others alone (free_screen).
CursorOutlivesClose == use \subseteq {"pointer", "cursor", "close"} /\ Settled => ShowsCursor

\* The same after a switch of sessions.
ExactAfterSwitch == use \subseteq {"switch"} /\ Settled => ShowsText

\* The screens draw rows as long as those of the console (terminal_update_size,
\* font_set): a longer one reads the cells of the next row.
RowsFit ==
  "turn" \notin use => \A t \in open, d \in plugged : cols[t][d] = width[t]

\* The renderer never draws into the buffer that is on the screen
\* (redraw_all_text, display_pageflip); show_displays does at wake-up, and says
\* so.
NoTear ==
  [][UNCHANGED <<shown, mode, width>> =>
       \A b \in {0, 1} : buf'[b] # buf[b] => b # scanned']_vars
=============================================================================
