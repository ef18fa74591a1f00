------------------------------ MODULE Terminal ------------------------------
(***************************************************************************)
(* The terminal of device/lfb_terminal.rs.  Writers feed bytes to a parser *)
(* that calls print, execute and csi_dispatch; each of these holds the     *)
(* locks of display, cursor and colour from begin to end and is one step.  *)
(* The cursor thread draws in between.                                     *)
(*                                                                         *)
(* A byte is a name: "x" and "y" are printable, "?" has no glyph in any    *)
(* font, "LF", "TAB" and "BEL" are control bytes and "A", "m", ... the     *)
(* final bytes of escape sequences.  "CSI" stands for ESC [ and the        *)
(* parameters that follow it; the parser pushes a 0 when there are none.   *)
(*                                                                         *)
(* Numbers are u16 of a development build, the default of Makefile.toml:   *)
(* an overflow panics.                                                     *)
(***************************************************************************)
EXTENDS Color, SequencesExt

CONSTANTS
    W, H,           \* display.size, in characters
    TAB_SPACES,
    CharacterSize,  \* size_of::<Character>(): char_buffer has that many times W * H cells
    Streams,        \* what is written: for each writer a set of strings of bytes
    MaxText         \* bound on the bytes of a stream of plain text

VARIABLES
    display,    \* char_buffer, the buffer of BufferedLFB, the frame buffer; stray: see Strayed
    cursor,     \* pos and saved_pos, as <<column, row>>
    color,      \* ColorState
    visible,    \* CursorThread::visible
    parser,     \* the parser behind the mutex
    writer,     \* for each writer its copy of the parser and what it has left to write
    stream,     \* the member of Streams that is written in this behaviour
    text,       \* history: what was printed, in a stream of plain text, on a page without end
    fault       \* why the kernel has panicked, or "none"

vars == <<display, cursor, color, visible, parser, writer, stream, text, fault>>

U16 == 65536

Blank  == "blank"     \* '\0', ' ' and an area filled with the background colour look alike
CURSOR == "CURSOR"

Finals    == {"A", "B", "C", "D", "E", "F", "G", "H", "f", "J", "K", "m", "n", "s", "u"}
Controls  == {"LF", "TAB", "BEL"}
Printable == Finals \cup {"x", "y", "?"}
HasGlyph(c) == c # "?"

\* What a cell of the display can hold; clear_line writes an 'a'.
Char == Printable \cup {Blank, CURSOR, "a"}

Cells  == 0..(CharacterSize * W * H - 1)
Screen == 0..(W * H - 1)

\* What a writer writes: bytes, and "CSI" with parameters.
Item == [byte : Controls \cup Printable \cup {"CSI"}, params : Seq(0..(U16 - 1))]

\* The mode of the parser after a byte.
After(mode, byte) ==
    IF byte = "CSI" THEN "csi" ELSE IF byte \in Controls THEN mode ELSE "ground"

\* From the given mode on, string ends outside of escape sequences and has final
\* bytes only in them.
Complete(mode, string) ==
    \E m \in [0..Len(string) -> {"ground", "csi"}] :
        /\ m[0] = mode /\ m[Len(string)] = "ground"
        /\ \A i \in 1..Len(string) :
            /\ m[i] = After(m[i - 1], string[i].byte)
            /\ string[i].byte \in Finals => m[i - 1] = "csi"

\* Positions and indexes of the screen are u16.
\* A stream is plain if it has no escape sequence, and whole if each of its strings
\* has whole ones.
ASSUME TerminalAssumption ==
    /\ {W, H, TAB_SPACES, MaxText} \subseteq Nat \ {0}
    /\ CharacterSize \in Nat \ {0, 1}
    /\ W * H < U16 /\ W + TAB_SPACES < U16
    /\ \A s \in Streams :
        /\ s.plain \in BOOLEAN /\ s.whole \in BOOLEAN
        /\ \A w \in DOMAIN s.writes : \A string \in s.writes[w] :
            /\ string \in Seq(Item)
            /\ \A i \in DOMAIN string : string[i].byte = "CSI" =>
                    string[i].params # <<>> /\ ~s.plain
            /\ s.whole => Complete("ground", string)

Ground      == [mode |-> "ground", params |-> <<>>]
Csi(params) == [mode |-> "csi", params |-> params]

Byt(b)      == [byte |-> b, params |-> <<>>]
CSI(params) == [byte |-> "CSI", params |-> params]

Idle == [on |-> FALSE, parser |-> Ground, rest |-> <<>>]

ColorState ==
    [fg_color : Color, bg_color : Color, fg_base : Color, bg_base : Color, fg_bright : BOOLEAN,
     bg_bright : BOOLEAN, invert : BOOLEAN, bright : BOOLEAN, dim : BOOLEAN]

ColorNew ==
    [fg_color |-> WHITE, bg_color |-> BLACK, fg_base |-> WHITE, bg_base |-> BLACK,
     fg_bright |-> FALSE, bg_bright |-> FALSE, invert |-> FALSE, bright |-> FALSE, dim |-> FALSE]

Init ==
    /\ display = [cells |-> [i \in Cells |-> Blank], back  |-> [i \in Screen |-> Blank],
                  front |-> [i \in Screen |-> Blank], stray |-> {}]
    /\ cursor = [pos |-> <<0, 0>>, saved_pos |-> <<0, 0>>]
    /\ color = ColorNew
    /\ visible = TRUE
    /\ parser = Ground
    /\ stream \in Streams
    /\ writer = [w \in DOMAIN stream.writes |-> Idle]
    /\ text = [length |-> 0, col |-> 0, line |-> 0, page |-> {}]
    /\ fault = "none"

-----------------------------------------------------------------------------
(* The display. *)

Index(pos) == pos[2] * W + pos[1]

flush(d) == [d EXCEPT !.front = d.back]

\* The loops of the clear_ functions: cells from..to-1 get the value c, the same
\* part of the screen is filled.
Fill(d, from, to, c) ==
    flush([d EXCEPT !.cells = [i \in Cells |-> IF from <= i /\ i < to THEN c ELSE @[i]],
                    !.back  = [i \in Screen |-> IF from <= i /\ i < to THEN Blank ELSE @[i]],
                    !.stray = {i \in @ : ~(from <= i /\ i < to)}])

clear_screen(d) == Fill(d, 0, CharacterSize * W * H, Blank)

clear_screen_to_cursor(d, pos) == Fill(d, 0, Index(pos), Blank)

clear_screen_from_cursor(d, pos) == Fill(d, Index(pos), CharacterSize * W * H, Blank)

clear_line(d, pos) == Fill(d, pos[2] * W, pos[2] * W + W, "a")

\* Mutant: only the character buffer is cleared, the screen is not.
ClearBufferOnly(d, pos) ==
    [d EXCEPT !.cells = [i \in Cells |-> IF pos[2] * W <= i /\ i < Index(pos) THEN Blank ELSE @[i]]]

\* Mutant: the result is not flushed.
ClearNoFlush(d, pos) ==
    [d EXCEPT !.cells = [i \in Cells |-> IF pos[2] * W <= i /\ i < Index(pos) THEN Blank ELSE @[i]],
              !.back  = [i \in Screen |-> IF pos[2] * W <= i /\ i < Index(pos) THEN Blank ELSE @[i]]]

clear_line_to_cursor(d, pos) == Fill(d, pos[2] * W, Index(pos), Blank)

clear_line_from_cursor(d, pos) == Fill(d, Index(pos), pos[2] * W + W, Blank)

\* Mutant: the last line is copied and not reset.
ScrollKeepsLast(d, n) ==
    IF n = 0 THEN d ELSE
    flush([d EXCEPT !.cells = [i \in Cells  |-> IF i + n * W < W * H THEN @[i + n * W] ELSE @[i]],
                    !.back  = [i \in Screen |-> IF i + n * W < W * H THEN @[i + n * W] ELSE @[i]]])

\* scroll_up, n times: lines move up, everything behind the last is reset.
scroll_up(d, n) ==
    IF n = 0 THEN d ELSE
    flush([d EXCEPT !.cells = [i \in Cells  |-> IF i + n * W < W * H THEN @[i + n * W] ELSE Blank],
                    !.back  = [i \in Screen |-> IF i + n * W < W * H THEN @[i + n * W] ELSE Blank],
                    !.stray = {i \in Screen : i + n * W < W * H /\ i + n * W \in @}])

\* LFB::draw_char on one of the layers: nothing happens outside the screen.
draw_char(layer, pos, c) ==
    IF pos[1] < W /\ pos[2] < H THEN [layer EXCEPT ![Index(pos)] = c] ELSE layer

print_char_at(d, pos, c) ==
    [d EXCEPT !.back = draw_char(@, pos, c), !.front = draw_char(@, pos, c)]

\* History: the cells of the screen that hold a character printed to the right of it.
\* In column W nothing is drawn, and the character is stored as the first of the
\* next line, until that cell is printed, erased or scrolled over.
Strayed(stray, pos) ==
    IF pos[1] < W THEN stray \ {Index(pos)} ELSE stray \cup ({Index(pos)} \cap Screen)

-----------------------------------------------------------------------------
(* Steps of the terminal.  Each sets display, cursor, color, text and fault. *)

Panic(why) == fault' = why /\ UNCHANGED <<display, cursor, color, text>>

\* Mutant: the cursor may go below the screen.
PositionUnclamped(d, pos) ==
    /\ display' = d
    /\ cursor' = [cursor EXCEPT !.pos = pos]
    /\ UNCHANGED <<color, fault>>

\* position: the screen scrolls until the row is on it; the column is taken as it is.
position(d, pos) ==
    LET n == Max({0, pos[2] - (H - 1)}) IN
    /\ display' = scroll_up(d, n)
    /\ cursor' = [cursor EXCEPT !.pos = <<pos[1], pos[2] - n>>]
    /\ UNCHANGED <<color, fault>>

\* Where a printable byte, a line feed or a tab is put on a page without end, and
\* where the next one goes.
Laid(b) ==
    LET col == CASE b = "LF"  -> W
                 [] b = "TAB" -> IF text.col + TAB_SPACES >= W THEN W
                                 ELSE ((text.col \div TAB_SPACES) + 1) * TAB_SPACES
                 [] OTHER     -> IF HasGlyph(b) THEN text.col + 1 ELSE text.col
    IN  [length |-> text.length + 1,
         col  |-> IF col >= W THEN 0 ELSE col,
         line |-> IF col >= W THEN text.line + 1 ELSE text.line,
         page |-> text.page \cup IF b \in Printable /\ HasGlyph(b)
                                 THEN {<<text.col, text.line, b>>} ELSE {}]

Logged(b) == text' = IF stream.plain THEN Laid(b) ELSE text

clear == 
    /\ ~stream.plain
    /\ position(clear_screen(display), <<0, 0>>)
    /\ UNCHANGED text

\* The end of print_char: wrap at the right edge, scroll at the bottom.
Wrap(d, pos) ==
    LET wrapped == IF pos[1] >= W THEN <<0, pos[2] + 1>> ELSE pos IN
    IF wrapped[2] >= H
    THEN /\ display' = print_char_at(scroll_up(d, 1), <<0, H>>, "_")
         /\ cursor' = [cursor EXCEPT !.pos = <<0, H - 1>>]
    ELSE /\ display' = d
         /\ cursor' = [cursor EXCEPT !.pos = wrapped]

print_char(c) ==
    LET pos   == cursor.pos
        drawn == print_char_at(display, pos, c)
    IN  IF c \in Printable /\ HasGlyph(c) /\ Index(pos) \notin Cells
        THEN Panic("index")
        ELSE /\ CASE c = "LF" -> Wrap(clear_line_from_cursor(display, pos), <<0, pos[2] + 1>>)
                  [] c # "LF" /\ HasGlyph(c) ->
                       Wrap([drawn EXCEPT !.cells[Index(pos)] = c, !.stray = Strayed(@, pos)],
                            <<pos[1] + 1, pos[2]>>)
                  [] OTHER -> Wrap(display, pos)
             /\ Logged(c)
             /\ UNCHANGED <<color, fault>>

handle_tab ==
    LET x == cursor.pos[1]
        y == cursor.pos[2]
    IN  /\ position(display, IF x + TAB_SPACES >= W THEN <<0, y + 1>>
                             ELSE <<((x + TAB_SPACES) \div TAB_SPACES) * TAB_SPACES, y>>)
        /\ Logged("TAB")

\* handle_bell plays two tones; nothing of the terminal changes.
handle_bell == UNCHANGED <<display, cursor, color, text, fault>>

execute(b) ==
    CASE b = "BEL" -> handle_bell
      [] b = "TAB" -> handle_tab
      [] b = "LF"  -> print_char("LF")

-----------------------------------------------------------------------------
(* Escape sequences. *)

\* A number that is 0 means 1.
Steps(n) == IF n = 0 THEN 1 ELSE n

\* The position a movement computes before it is clamped.
Moved(b, n, x, y) ==
    CASE b = "A" -> <<x, y - Steps(n)>>
      [] b = "B" -> <<x, y + Steps(n)>>
      [] b = "C" -> <<x + Steps(n), y>>
      [] b = "D" -> <<x - Steps(n), y>>
      [] b = "E" -> <<0, y + n + 1>>
      [] b = "F" -> <<0, y - n - 1>>
      [] b = "G" -> <<n, y>>

\* Columns are clamped by C and G, rows by B and E; the test of A, D and F for a
\* number above 0 is without effect on unsigned numbers.
Clamped(b, p) ==
    <<IF b \in {"C", "G"} THEN Min({p[1], W - 1}) ELSE p[1],
      IF b \in {"B", "E"} THEN Min({p[2], H - 1}) ELSE p[2]>>

handle_ansi_cursor_sequence(b, params) ==
    LET x == cursor.pos[1]
        y == cursor.pos[2]
        target == Moved(b, params[1], x, y)
    IN
    \/ /\ b \in {"A", "B", "C", "D", "E", "F", "G"}
       /\ \E i \in {1, 2} : target[i] \notin 0..(U16 - 1)
       /\ Panic("overflow")
    \/ /\ b \in {"A", "B", "C", "D", "E", "F", "G"}
       /\ \A i \in {1, 2} : target[i] \in 0..(U16 - 1)
       /\ position(display, Clamped(b, target))
       /\ UNCHANGED text
    \/ /\ b \in {"H", "f"}
       /\ position(display,
            IF Len(params) >= 2
            THEN <<IF params[1] > W THEN W - 1 ELSE params[1],
                   IF params[2] > H THEN H - 1 ELSE params[2]>>
            ELSE <<0, 0>>)
       /\ UNCHANGED text
    \/ /\ b = "s"
       /\ cursor' = [cursor EXCEPT !.saved_pos = cursor.pos]
       /\ UNCHANGED <<display, color, text, fault>>
    \/ /\ b = "u"
       /\ position(display, cursor.saved_pos)
       /\ UNCHANGED text
    \/ /\ b = "n"
       /\ UNCHANGED <<display, cursor, color, text, fault>>

handle_ansi_erase_sequence(b, params) ==
    LET pos == cursor.pos
        cleared ==
          CASE b = "J" /\ params[1] = 0 -> clear_screen_from_cursor(display, pos)
            [] b = "J" /\ params[1] = 1 -> clear_screen_to_cursor(display, pos)
            [] b = "J" /\ params[1] = 2 -> clear_screen(display)
            [] b = "K" /\ params[1] = 0 -> clear_line_from_cursor(display, pos)
            [] b = "K" /\ params[1] = 1 -> clear_line_to_cursor(display, pos)
            [] b = "K" /\ params[1] = 2 -> clear_line(display, pos)
            [] OTHER -> display
    IN  /\ IF b = "J" /\ params[1] = 2
           THEN position(cleared, <<0, 0>>)
           ELSE display' = cleared /\ UNCHANGED <<cursor, color, fault>>
        /\ UNCHANGED text

-----------------------------------------------------------------------------
(* Colours.  handle_ansi_color reads parameters from an iterator that        *)
(* parse_complex_color also advances: acc.want says who gets the next one,   *)
(* "code" or a part of an extended colour for acc.layer.  An extended colour *)
(* that ends early (the ? operator) or is malformed sets nothing.            *)

handle_ansi_graphic_rendition(c, code) ==
    CASE code = 0  -> ColorNew
      [] code = 1  -> [c EXCEPT !.bright = TRUE]
      [] code = 2  -> [c EXCEPT !.dim = TRUE]
      [] code = 7  -> [c EXCEPT !.invert = TRUE]
      [] code = 22 -> [c EXCEPT !.bright = FALSE, !.dim = FALSE]
      [] code = 27 -> [c EXCEPT !.invert = FALSE]
      [] OTHER -> c

\* The base colour of a layer and its bright flag.
SetBase(c, layer, col, isBright) ==
    IF layer = "fg" THEN [c EXCEPT !.fg_base = col, !.fg_bright = isBright]
                    ELSE [c EXCEPT !.bg_base = col, !.bg_bright = isBright]

\* ansi_color: the digit 9 is the default, 8 begins an extended colour.
ansi_color(acc, layer, digit, isBright) ==
    CASE digit \in 0..7 -> [acc EXCEPT !.color = SetBase(@, layer, AnsiColors[digit], isBright)]
      [] digit = 8 -> [acc EXCEPT !.want = "mode", !.layer = layer]
      [] digit = 9 -> [acc EXCEPT !.color = SetBase(@, layer, WHITE, isBright)]

Code(acc, code) ==
    CASE code \in 0..29    -> [acc EXCEPT !.color = handle_ansi_graphic_rendition(@, code)]
      [] code \in 30..39   -> ansi_color(acc, "fg", code - 30, FALSE)
      [] code \in 40..49   -> ansi_color(acc, "bg", code - 40, FALSE)
      [] code \in 90..97   -> ansi_color(acc, "fg", code - 90, TRUE)
      [] code \in 100..107 -> ansi_color(acc, "bg", code - 100, TRUE)
      [] OTHER -> acc

\* Mode 2 is followed by red, green and blue, cut to bytes; 5 by an index.
parse_complex_color(acc, p) ==
    CASE acc.want = "mode" ->
           [acc EXCEPT !.want = CASE p = 2 -> "red" [] p = 5 -> "index" [] OTHER -> "code"]
      [] acc.want = "index" ->
           [acc EXCEPT !.want = "code",
              !.color = IF p <= 255 THEN SetBase(@, acc.layer, COLOR_TABLE_256(p), FALSE) ELSE @]
      [] acc.want = "red"   -> [acc EXCEPT !.want = "green", !.rgb = <<p % 256>>]
      [] acc.want = "green" -> [acc EXCEPT !.want = "blue", !.rgb = Append(@, p % 256)]
      [] acc.want = "blue"  ->
           [acc EXCEPT !.want = "code", !.rgb = <<>>,
              !.color = SetBase(@, acc.layer, Rgba(acc.rgb[1], acc.rgb[2], p % 256, 255), FALSE)]

\* What the next parameter does.
Param(acc, p) == IF acc.want = "code" THEN Code(acc, p) ELSE parse_complex_color(acc, p)

\* The loop over the parameters.
Consume(c, params) ==
    LET acc[i \in 0..Len(params)] ==
          IF i = 0 THEN [color |-> c, want |-> "code", layer |-> "fg", rgb |-> <<>>]
          ELSE Param(acc[i - 1], params[i])
    IN  acc[Len(params)]

\* Mutant: brightness is applied to the base colours.
RenderedInPlace(c) ==
    LET fg == IF c.bright \/ c.fg_bright THEN bright(c.fg_base) ELSE c.fg_base
        bg == IF c.bg_bright THEN bright(c.bg_base) ELSE c.bg_base
    IN  [c EXCEPT !.fg_color = fg, !.fg_base = fg, !.bg_color = bg, !.bg_base = bg]

\* fg_color and bg_color as they follow from the rest of the state.
Rendered(c) ==
    LET fg == IF c.invert THEN c.bg_base ELSE c.fg_base
        bg == IF c.invert THEN c.fg_base ELSE c.bg_base
        lit == IF c.bright \/ c.fg_bright THEN bright(fg) ELSE fg
    IN  [c EXCEPT !.fg_color = IF c.dim THEN dim(lit) ELSE lit,
                  !.bg_color = IF c.bg_bright THEN bright(bg) ELSE bg]

handle_ansi_color(c, params) == Rendered(Consume(c, params).color)

csi_dispatch(b, params) ==
    CASE b \in {"A", "B", "C", "D", "E", "F", "G", "H", "f", "n", "s", "u"} ->
           handle_ansi_cursor_sequence(b, params)
      [] b \in {"J", "K"} -> handle_ansi_erase_sequence(b, params)
      [] b = "m" -> /\ color' = handle_ansi_color(color, params)
                    /\ UNCHANGED <<display, cursor, text, fault>>
      [] OTHER -> UNCHANGED <<display, cursor, color, text, fault>>

-----------------------------------------------------------------------------
(* The writers. *)

\* write_str, write_byte: the writer works on a copy of the parser.
write_str(w, string) ==
    /\ fault = "none"
    /\ ~writer[w].on
    /\ stream.plain => text.length < MaxText
    /\ writer' = [writer EXCEPT ![w] = [on |-> TRUE, parser |-> parser, rest |-> string]]
    /\ UNCHANGED <<display, cursor, color, visible, parser, stream, text, fault>>

\* The parser after a byte.  Control bytes are executed also within a sequence.
Parsed(p, b) ==
    CASE b.byte = "CSI" -> Csi(b.params)
      [] b.byte \in Controls -> p
      [] OTHER -> Ground

\* Mutant: the bytes are fed to the shared parser.
AdvanceShared(w) ==
    /\ fault = "none"
    /\ writer[w].on /\ writer[w].rest # <<>>
    /\ LET b == Head(writer[w].rest) IN
        /\ \/ b.byte = "CSI" /\ UNCHANGED <<display, cursor, color, text, fault>>
           \/ b.byte \in Controls /\ execute(b.byte)
           \/ b.byte \in Printable /\ parser.mode = "ground" /\ print_char(b.byte)
           \/ b.byte \in Printable /\ parser.mode = "csi" /\ csi_dispatch(b.byte, parser.params)
        /\ parser' = Parsed(parser, b)
        /\ writer' = [writer EXCEPT ![w] = [@ EXCEPT !.parser = parser', !.rest = Tail(@)]]
    /\ UNCHANGED <<visible, stream>>

\* Parser::advance (anstyle_parse): one byte, and what it makes the terminal do.
advance(w) ==
    /\ fault = "none"
    /\ writer[w].on /\ writer[w].rest # <<>>
    /\ LET b == Head(writer[w].rest)
           p == writer[w].parser
       IN
        /\ \/ b.byte = "CSI" /\ UNCHANGED <<display, cursor, color, text, fault>>
           \/ b.byte \in Controls /\ execute(b.byte)
           \/ b.byte \in Printable /\ p.mode = "ground" /\ print_char(b.byte)
           \/ b.byte \in Printable /\ p.mode = "csi" /\ csi_dispatch(b.byte, p.params)
        /\ writer' = [writer EXCEPT ![w] =
                        [on |-> TRUE, parser |-> Parsed(p, b), rest |-> Tail(@.rest)]]
    /\ UNCHANGED <<visible, parser, stream>>

\* The end of write_str: the copy is exchanged for the parser behind the mutex.
swap(w) ==
    /\ fault = "none"
    /\ writer[w].on /\ writer[w].rest = <<>>
    /\ parser' = writer[w].parser
    /\ writer' = [writer EXCEPT ![w] = Idle]
    /\ UNCHANGED <<display, cursor, color, visible, stream, text, fault>>

\* One round of CursorThread::run.
Blink ==
    /\ fault = "none"
    /\ IF Index(cursor.pos) \in Cells
       THEN /\ display' = [display EXCEPT !.front =
                 draw_char(@, cursor.pos, IF visible THEN display.cells[Index(cursor.pos)] ELSE CURSOR)]
            /\ visible' = ~visible
            /\ UNCHANGED <<cursor, color, text, fault>>
       ELSE Panic("index") /\ UNCHANGED visible
    /\ UNCHANGED <<parser, writer, stream>>

\* Terminal::clear.
Clear ==
    /\ fault = "none"
    /\ clear
    /\ UNCHANGED <<visible, parser, writer, stream>>

Halted == fault # "none" /\ UNCHANGED vars

Next ==
    \/ \E w \in DOMAIN writer :
        \/ \E string \in stream.writes[w] : write_str(w, string)
        \/ advance(w)
        \/ swap(w)
    \/ Blink
    \/ Clear
    \/ Halted

Spec == Init /\ [][Next]_vars

-----------------------------------------------------------------------------
(* Properties. *)

\* Every variable has its type; the cursor, present or saved, is in a row of the
\* screen and at most one column to the right of it (set by H or f).
TypeOK ==
    /\ display \in [cells : [Cells -> Char], back : [Screen -> Char], front : [Screen -> Char],
                    stray : SUBSET Screen]
    /\ cursor \in [pos : (0..W) \X (0..(H - 1)), saved_pos : (0..W) \X (0..(H - 1))]
    /\ color \in ColorState
    /\ visible \in BOOLEAN
    /\ parser.mode \in {"ground", "csi"}
    /\ fault \in {"none", "index", "overflow"}

\* print_char and the cursor thread index char_buffer with the cursor's position,
\* which tabs, escape sequences, restored positions and scrolling have moved
\* before, and never leave the buffer.
NeverOutOfBuffer == fault # "index"

\* What the cursor thread puts back from char_buffer is what the screen shows, after
\* whatever prints, scrolls and erasures.  Two kinds of cells are exempt: those that
\* hold a stray character, which was printed next to the screen, and those erased by
\* clear_line, which fills the buffer with 'a' (ClearedIsBlank).
ShownIsBuffered ==
    \A i \in Screen \ display.stray :
        \/ display.cells[i] = display.back[i]
        \/ display.cells[i] = "a" /\ display.back[i] = Blank

\* Where no stray character is stored, the frame buffer shows the text of the back
\* buffer, the text of char_buffer, or the cursor that the thread has left behind: no
\* erased or scrolled text stays.  (Where one is stored, the cursor thread may draw
\* it, and a second one that replaces it leaves the first on the screen.)
NothingElseShown ==
    \A i \in Screen \ display.stray :
        display.front[i] \in {display.back[i], display.cells[i], CURSOR}

\* "Clear line in character buffer": where nothing is shown nothing is stored.  (It is
\* not so: clear_line stores 'a', which the cursor thread draws.)
ClearedIsBlank ==
    \A i \in Screen \ display.stray : display.back[i] = Blank => display.cells[i] = Blank

\* However text is wrapped and scrolled away, the screen shows the last H lines of
\* it, and the cursor is where the text ends.
TextShown ==
    stream.plain =>
        LET top == Max({0, text.line - (H - 1)})
        IN  /\ cursor.pos = <<text.col, text.line - top>>
            /\ \A x \in 0..(W - 1), y \in 0..(H - 1), b \in {"x", "y"} :
                 display.back[Index(<<x, y>>)] = b <=> <<x, top + y, b>> \in text.page

\* When no string ends within an escape sequence, no writer sees the middle of the
\* sequence of another one: the final byte of a sequence is never printed.
NoTornSequence ==
    stream.whole => parser = Ground /\ \A i \in Cells : display.cells[i] \notin Finals

\* The parameter lists of the stream's colour sequences.
SgrParams == {s[1].params : s \in {t \in UNION Range(stream.writes) : Len(t) = 2 /\ t[2] = Byt("m")}}

\* Between two strings; colours change within them only.
Quiet == visible /\ \A w \in DOMAIN writer : ~writer[w].on

\* One sequence with two lists of parameters does what two sequences do, in every
\* state of the colours, unless the first list ends within an extended colour: what
\* is rendered from a sequence does not change how the next one is read.
SequencesCompose == Quiet =>
    \A p, q \in SgrParams : Consume(color, p).want = "code" =>
        handle_ansi_color(color, p \o q) = handle_ansi_color(handle_ansi_color(color, p), q)

\* The first 16 entries of the table are the 4-bit colours, as ansi.rs says: chosen
\* by index or by number they look the same.  The 8 plain ones do so in every state
\* of the colours, the 8 bright ones only while neither bright nor invert is on: bright
\* would be applied to an entry of the table a second time, and invert moves the flag
\* fg_bright to the other colour.
TableMatchesAnsi ==
    Quiet /\ SgrParams # {} =>
        \A n \in 0..7 :
            LET shown(params) == handle_ansi_color(color, params).fg_color IN
            /\ shown(<<38, 5, n>>) = shown(<<30 + n>>)
            /\ ~color.bright /\ ~color.invert => shown(<<38, 5, 8 + n>>) = shown(<<90 + n>>)

\* A pixel keeps as much of a colour as its format has bits for: encoding what was
\* decoded from it gives the same pixel, and the colours differ by less than a step.
PixelKeepsColor == Quiet =>
    \A c \in {color.fg_color, color.bg_color} :
        /\ FromPixel32(Pixel32(c)) = c
        /\ \A bpp \in {15, 16, 24} :
             LET seen == FromPixel(Pixel(c, bpp), bpp) IN
             /\ Pixel(seen, bpp) = Pixel(c, bpp)
             /\ c.red - seen.red \in 0..(2^(8 - Depth[bpp][1]) - 1)
             /\ c.green - seen.green \in 0..(2^(8 - Depth[bpp][2]) - 1)
             /\ c.blue - seen.blue \in 0..(2^(8 - Depth[bpp][3]) - 1)

\* Moving the cursor up, left or to a previous line stops at the edge of the
\* screen, as the test "if row > 0 { row } else { 0 }" wants it.
MovesStopAtEdge == fault # "overflow"

-----------------------------------------------------------------------------
(* The inductive invariant of the proofs. *)

\* A parser is outside of escape sequences or has the parameters of one.
ParserOK(p) ==
    /\ p \in [mode : {"ground", "csi"}, params : Seq(0..(U16 - 1))]
    /\ p.mode = "ground" <=> p.params = <<>>

\* What a writer has left to write continues what its copy of the parser has seen.
WriterInv ==
    /\ stream \in Streams
    /\ DOMAIN writer = DOMAIN stream.writes
    /\ ParserOK(parser)
    /\ stream.plain \/ stream.whole => parser = Ground
    /\ \A w \in DOMAIN writer :
        /\ DOMAIN writer[w] = {"on", "parser", "rest"}
        /\ writer[w].on \in BOOLEAN /\ ParserOK(writer[w].parser) /\ writer[w].rest \in Seq(Item)
        /\ \A i \in DOMAIN writer[w].rest : writer[w].rest[i].byte = "CSI" =>
                writer[w].rest[i].params # <<>> /\ ~stream.plain
        /\ stream.plain => writer[w].parser = Ground
        /\ stream.whole => Complete(writer[w].parser.mode, writer[w].rest)

\* Text is laid out from left to right and from top to bottom.
TextInv ==
    /\ text.length \in Nat /\ text.col \in 0..(W - 1) /\ text.line \in Nat
    /\ DOMAIN text = {"length", "col", "line", "page"}
    /\ \A p \in text.page :
        /\ p[1] \in Nat /\ p[2] \in Nat
        /\ p[2] < text.line \/ (p[2] = text.line /\ p[1] < text.col)

\* The invariant that every step keeps.
TerminalInv ==
    /\ TypeOK /\ WriterInv /\ TextInv
    /\ NeverOutOfBuffer /\ ShownIsBuffered /\ NothingElseShown /\ TextShown /\ NoTornSequence
=============================================================================
