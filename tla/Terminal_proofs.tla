-------------------------- MODULE Terminal_proofs --------------------------
(***************************************************************************)
(* The terminal, on a screen of any size, with any streams and writers:    *)
(* the invariant TerminalInv and what follows from it.                     *)
(*                                                                         *)
(* Every handler fills, scrolls or prints and then places the cursor.      *)
(* Fills, scrolling and printing keep the display good and, in plain text, *)
(* keep the lines of the page on the screen.  A writer's copy of the       *)
(* parser and what it has left to write fit together.                      *)
(***************************************************************************)
EXTENDS Terminal_color_proofs

-----------------------------------------------------------------------------
(* Numbers. *)

\* What is assumed of the sizes.
LEMMA Sizes ==
    /\ W \in Nat /\ W >= 1 /\ H \in Nat /\ H >= 1 /\ TAB_SPACES \in Nat /\ TAB_SPACES >= 1
    /\ CharacterSize \in Nat /\ CharacterSize >= 2
BY TerminalAssumption

\* Multiplication is monotonic.
LEMMA MulMono ==
    ASSUME NEW a \in Nat, NEW b \in Nat, NEW c \in Nat, a <= b
    PROVE  a * c \in Nat /\ b * c \in Nat /\ a * c <= b * c
<1>1. PICK d \in Nat : b = a + d
  <2>1. b - a \in Nat /\ b = a + (b - a)
    OBVIOUS
  <2> QED BY <2>1
<1>2. d * c \in Nat /\ a * c \in Nat
  OBVIOUS
<1>3. b * c = a * c + d * c
  BY <1>1
<1> QED BY <1>2, <1>3

\* Quotient and remainder are unique, ...
LEMMA Division ==
    ASSUME NEW n \in Nat, n >= 1, NEW q \in Nat, NEW x \in 0..(n - 1)
    PROVE  (q * n + x) \div n = q /\ (q * n + x) % n = x
<1>1. PICK i \in Nat : i = q * n + x
  <2>1. q * n \in Nat
    OBVIOUS
  <2> QED BY <2>1
<1>2. PICK p \in Int : p = i \div n
  BY <1>1
<1>3. PICK r \in 0..(n - 1) : r = i % n
  BY <1>1
<1>4. i = p * n + r
  BY <1>1, <1>2, <1>3
<1>5. p >= 0
  BY <1>1, <1>2
<1>6. ~(p < q)
  <2>1. ASSUME p < q PROVE FALSE
    <3>1. (p + 1) * n <= q * n
      BY <1>5, <2>1, MulMono
    <3>2. (p + 1) * n = p * n + n
      OBVIOUS
    <3>3. p * n \in Int /\ q * n \in Int
      OBVIOUS
    <3> QED BY <1>1, <1>4, <3>1, <3>2, <3>3
  <2> QED BY <2>1
<1>7. ~(q < p)
  <2>1. ASSUME q < p PROVE FALSE
    <3>1. (q + 1) * n <= p * n
      BY <1>5, <2>1, MulMono
    <3>2. (q + 1) * n = q * n + n
      OBVIOUS
    <3>3. p * n \in Int /\ q * n \in Int
      OBVIOUS
    <3> QED BY <1>1, <1>4, <3>1, <3>2, <3>3
  <2> QED BY <2>1
<1>8. p = q
  BY <1>6, <1>7
<1>9. q * n \in Nat
  OBVIOUS
<1>10. r = x
  BY <1>1, <1>4, <1>8, <1>9
<1> QED BY <1>1, <1>2, <1>3, <1>8, <1>10

\* ... and they exist.
LEMMA Divided ==
    ASSUME NEW n \in Nat, n >= 1, NEW i \in Nat
    PROVE  \E q \in Nat, x \in 0..(n - 1) : i = q * n + x /\ i \div n = q /\ i % n = x
<1>1. PICK q \in Int : q = i \div n
  OBVIOUS
<1>2. PICK x \in 0..(n - 1) : x = i % n
  OBVIOUS
<1>3. i = q * n + x
  BY <1>1, <1>2
<1>4. q \in Nat
  BY <1>1
<1>5. i = q * n + x /\ i \div n = q /\ i % n = x
  BY <1>1, <1>2, <1>3
<1> QED BY <1>4, <1>5, Zenon

\* One row more.
LEMMA Multiples ==
    ASSUME NEW k \in Nat
    PROVE  k * W \in Nat /\ (k + 1) * W = k * W + W
BY Sizes

\* char_buffer is larger than the screen.
LEMMA ScreenLaw ==
    /\ W * H \in Nat /\ W * H >= 1 /\ W * H = H * W
    /\ CharacterSize * W * H \in Nat /\ CharacterSize * W * H > W * H
<1>1. PICK n \in Nat : n = W * H
  BY Sizes
<1>2. n >= 1
  <2>1. 1 * H <= W * H
    BY Sizes, MulMono
  <2> QED BY <1>1, <2>1, Sizes
<1>3. CharacterSize * W * H = CharacterSize * n
  BY <1>1, Sizes
<1>4. 2 * n <= CharacterSize * n
  BY Sizes, MulMono
<1>5. CharacterSize * n \in Nat /\ 2 * n = n + n
  BY Sizes
<1>6. W * H = H * W
  BY Sizes
<1> QED BY <1>1, <1>2, <1>3, <1>4, <1>5, <1>6

\* Parameters are numbers, ...
LEMMA Words == 0..(U16 - 1) \subseteq Nat
<1>1. U16 \in Nat
  BY SMT DEF U16
<1> QED BY <1>1

\* ... and lists of them ...
LEMMA SubSequences ==
    ASSUME NEW S, NEW T, S \subseteq T, NEW s \in Seq(S)
    PROVE  /\ s \in Seq(T)
           /\ \A i \in 1..Len(s) : s[i] \in T
           /\ s # <<>> => Len(s) >= 1
<1>1. Len(s) \in Nat /\ \A i \in 1..Len(s) : s[i] \in S
  OBVIOUS
<1>2. \A i \in 1..Len(s) : s[i] \in T
  BY <1>1
<1>3. s = [i \in 1..Len(s) |-> s[i]]
  OBVIOUS
<1>4. s \in Seq(T)
  BY <1>1, <1>2, <1>3
<1> QED BY <1>1, <1>2, <1>4

\* ... are lists of numbers.
LEMMA WordParams ==
    ASSUME NEW params \in Seq(0..(U16 - 1))
    PROVE  /\ params \in Seq(Nat)
           /\ \A i \in 1..Len(params) : params[i] \in Nat
           /\ params # <<>> => Len(params) >= 1
BY Words, SubSequences, Zenon

\* The cells of a position.
LEMMA IndexLaw ==
    ASSUME NEW x \in 0..W, NEW y \in 0..(H - 1)
    PROVE  /\ y * W \in Nat /\ y * W + W <= W * H
           /\ Index(<<x, y>>) = y * W + x
           /\ Index(<<x, y>>) \in Cells
           /\ x < W => Index(<<x, y>>) \in Screen
<1>1. x \in Nat /\ y \in Nat /\ x <= W /\ y + 1 <= H
  BY Sizes
<1>2. y * W \in Nat /\ (y + 1) * W = y * W + W
  BY <1>1, Multiples
<1>3. (y + 1) * W <= H * W
  BY <1>1, Sizes, MulMono
<1>4. y * W + W <= W * H
  BY <1>2, <1>3, ScreenLaw
<1>5. PICK i \in Nat : i = y * W + x
  BY <1>1, <1>2
<1>6. Index(<<x, y>>) = i
  BY <1>5 DEF Index
<1>7. i \in Cells
  BY <1>1, <1>2, <1>4, <1>5, ScreenLaw, Sizes DEF Cells
<1>8. ASSUME x < W PROVE i \in Screen
  BY <1>1, <1>2, <1>4, <1>5, <1>8, ScreenLaw, Sizes DEF Screen
<1> QED BY <1>2, <1>4, <1>5, <1>6, <1>7, <1>8

\* The cells of the screen are the first of char_buffer.
LEMMA ScreenSubset == Screen \subseteq Cells /\ Screen \subseteq Nat /\ Cells \subseteq Nat
BY ScreenLaw DEF Screen, Cells

\* Different positions on the screen are different cells.
LEMMA IndexInjective ==
    ASSUME NEW x \in 0..(W - 1), NEW y \in 0..(H - 1), NEW u \in 0..(W - 1), NEW v \in 0..(H - 1),
           Index(<<x, y>>) = Index(<<u, v>>)
    PROVE  x = u /\ y = v
<1>1. Index(<<x, y>>) = y * W + x /\ Index(<<u, v>>) = v * W + u
  BY DEF Index
<1>2. x \in 0..(W - 1) /\ y \in Nat /\ u \in 0..(W - 1) /\ v \in Nat
  BY Sizes
<1>3. \A q \in Nat, c \in 0..(W - 1) : (q * W + c) \div W = q /\ (q * W + c) % W = c
  BY Sizes, Division, Zenon
<1>4. y = (y * W + x) \div W /\ x = (y * W + x) % W
  BY <1>2, <1>3, Zenon
<1>5. v = (v * W + u) \div W /\ u = (v * W + u) % W
  BY <1>2, <1>3, Zenon
<1> QED BY <1>1, <1>4, <1>5, Zenon

\* Going down n lines.
LEMMA Below ==
    ASSUME NEW i \in Nat, NEW n \in Nat
    PROVE  i + n * W \in Nat /\ i + n * W >= i
<1>1. n * W \in Nat
  BY Multiples
<1> QED BY <1>1

-----------------------------------------------------------------------------
(* The display. *)

\* The values of display.
Displays == [cells : [Cells -> Char], back : [Screen -> Char], front : [Screen -> Char],
             stray : SUBSET Screen]

\* ShownIsBuffered, of any display.
Buffered(d) ==
    \A i \in Screen \ d.stray :
        \/ d.cells[i] = d.back[i]
        \/ d.cells[i] = "a" /\ d.back[i] = Blank

\* NothingElseShown, of any display.
Painted(d) ==
    \A i \in Screen \ d.stray : d.front[i] \in {d.back[i], d.cells[i], CURSOR}

\* No final byte is stored.
NoFinal(d) == \A i \in Cells : d.cells[i] \notin Finals

\* What every operation on the display keeps.
Good(d) == d \in Displays /\ Buffered(d) /\ Painted(d)

\* These are the properties.
LEMMA Same ==
    /\ ShownIsBuffered <=> Buffered(display)
    /\ NothingElseShown <=> Painted(display)
BY DEF ShownIsBuffered, NothingElseShown, Buffered, Painted

\* Facts about characters.
LEMMA CharLaw ==
    /\ Blank \in Char /\ CURSOR \in Char /\ "a" \in Char /\ Printable \subseteq Char
    /\ Blank \notin Finals /\ "a" \notin Finals /\ Blank # "x" /\ Blank # "y"
    /\ Finals \subseteq Printable
BY DEF Char, Printable, Finals, Blank, CURSOR

\* New contents of the two buffers, shown.
Flushed(d, cs, bk, st) == flush([d EXCEPT !.cells = cs, !.back = bk, !.stray = st])

\* It shows what is in the back buffer.
LEMMA FlushLaw ==
    ASSUME NEW d \in Displays, NEW cs \in [Cells -> Char], NEW bk \in [Screen -> Char],
           NEW st \in SUBSET Screen
    PROVE  /\ Flushed(d, cs, bk, st) \in Displays /\ Flushed(d, cs, bk, st).cells = cs
           /\ Flushed(d, cs, bk, st).back = bk /\ Flushed(d, cs, bk, st).stray = st
           /\ Painted(Flushed(d, cs, bk, st))
<1>1. PICK e : e = Flushed(d, cs, bk, st)
  OBVIOUS
<1>2. PICK f : f = [d EXCEPT !.cells = cs, !.back = bk, !.stray = st]
  OBVIOUS
<1>3. f = [cells |-> cs, back |-> bk, front |-> d.front, stray |-> st]
  BY <1>2 DEF Displays
<1>4. e = [f EXCEPT !.front = f.back]
  BY <1>1, <1>2 DEF flush, Flushed
<1>5. e = [cells |-> cs, back |-> bk, front |-> bk, stray |-> st]
  BY <1>3, <1>4
<1>6. e.cells = cs /\ e.back = bk /\ e.front = bk /\ e.stray = st
  BY <1>5
<1>7. e \in Displays
  BY <1>5 DEF Displays
<1>8. Painted(e)
  BY <1>6, Zenon DEF Painted
<1> QED BY <1>1, <1>6, <1>7, <1>8

\* Filling part of the buffers.
LEMMA FillLaw ==
    ASSUME NEW d, Good(d), NEW from \in Nat, NEW to \in Nat, NEW c \in {Blank, "a"}
    PROVE  /\ Good(Fill(d, from, to, c))
           /\ NoFinal(d) => NoFinal(Fill(d, from, to, c))
           /\ \A i \in Screen : Fill(d, from, to, c).back[i] =
                IF from <= i /\ i < to THEN Blank ELSE d.back[i]
<1>1. d \in Displays /\ Buffered(d) /\ c \in Char
  BY CharLaw DEF Good
<1>2. d.cells \in [Cells -> Char] /\ d.back \in [Screen -> Char] /\ d.stray \in SUBSET Screen
  BY <1>1 DEF Displays
<1>0. PICK st : st = {i \in d.stray : ~(from <= i /\ i < to)}
  OBVIOUS
<1>3. PICK cs : cs = [i \in Cells |-> IF from <= i /\ i < to THEN c ELSE d.cells[i]]
  OBVIOUS
<1>4. PICK bk : bk = [i \in Screen |-> IF from <= i /\ i < to THEN Blank ELSE d.back[i]]
  OBVIOUS
<1>5. cs \in [Cells -> Char] /\ bk \in [Screen -> Char] /\ st \in SUBSET Screen
  BY <1>0, <1>1, <1>2, <1>3, <1>4, CharLaw
<1>6. PICK e : e = Fill(d, from, to, c)
  OBVIOUS
<1>7. e = Flushed(d, cs, bk, st)
  BY <1>0, <1>3, <1>4, <1>6, Zenon DEF Fill, Flushed
<1>8. e \in Displays /\ e.cells = cs /\ e.back = bk /\ e.stray = st /\ Painted(e)
  BY <1>1, <1>5, <1>7, FlushLaw
<1>9. Buffered(e)
  <2>1. SUFFICES ASSUME NEW i \in Screen \ st
                 PROVE  e.cells[i] = e.back[i] \/ (e.cells[i] = "a" /\ e.back[i] = Blank)
    BY <1>8, Zenon DEF Buffered
  <2>2. i \in Cells
    BY ScreenSubset
  <2>3. e.cells[i] = IF from <= i /\ i < to THEN c ELSE d.cells[i]
    BY <1>3, <1>8, <2>2
  <2>4. e.back[i] = IF from <= i /\ i < to THEN Blank ELSE d.back[i]
    BY <1>4, <1>8
  <2>5. \/ from <= i /\ i < to
        \/ d.cells[i] = d.back[i] \/ (d.cells[i] = "a" /\ d.back[i] = Blank)
    BY <1>0, <1>1 DEF Buffered
  <2> QED BY <2>3, <2>4, <2>5, Zenon
<1>10. NoFinal(d) => NoFinal(e)
  <2>1. SUFFICES ASSUME NoFinal(d), NEW i \in Cells
                 PROVE  e.cells[i] \notin Finals
    BY Zenon DEF NoFinal
  <2>2. e.cells[i] = IF from <= i /\ i < to THEN c ELSE d.cells[i]
    BY <1>3, <1>8
  <2> QED BY <2>1, <2>2, CharLaw, Zenon DEF NoFinal
<1>11. \A i \in Screen : e.back[i] = IF from <= i /\ i < to THEN Blank ELSE d.back[i]
  BY <1>4, <1>8
<1> QED BY <1>6, <1>8, <1>9, <1>10, <1>11, Zenon DEF Good

\* Scrolling.
LEMMA ScrollLaw ==
    ASSUME NEW d, Good(d), NEW n \in Nat
    PROVE  /\ Good(scroll_up(d, n))
           /\ NoFinal(d) => NoFinal(scroll_up(d, n))
           /\ n # 0 => \A i \in Screen : scroll_up(d, n).back[i] =
                IF i + n * W < W * H THEN d.back[i + n * W] ELSE Blank
<1>1. CASE n = 0
  BY <1>1 DEF scroll_up
<1>2. CASE n # 0
  <2>1. d \in Displays /\ Buffered(d)
    BY DEF Good
  <2>2. d.cells \in [Cells -> Char] /\ d.back \in [Screen -> Char]
    BY <2>1 DEF Displays
  <2>0. PICK st \in SUBSET Screen : st = {i \in Screen : i + n * W < W * H /\ i + n * W \in d.stray}
    OBVIOUS
  <2>3. PICK cs : cs = [i \in Cells |-> IF i + n * W < W * H THEN d.cells[i + n * W] ELSE Blank]
    OBVIOUS
  <2>4. PICK bk : bk = [i \in Screen |-> IF i + n * W < W * H THEN d.back[i + n * W] ELSE Blank]
    OBVIOUS
  <2>5. ASSUME NEW i \in Cells, i + n * W < W * H
        PROVE  i + n * W \in Screen /\ i + n * W \in Cells
    <3>1. i \in Nat
      BY ScreenSubset
    <3>2. i + n * W \in Nat
      BY <3>1, Below
    <3>3. i + n * W \in Screen
      BY <2>5, <3>2, ScreenLaw DEF Screen
    <3> QED BY <3>2, <3>3, ScreenSubset
  <2>6. cs \in [Cells -> Char]
    <3>1. \A i \in Cells : (IF i + n * W < W * H THEN d.cells[i + n * W] ELSE Blank) \in Char
      BY <2>2, <2>5, CharLaw
    <3> QED BY <2>3, <3>1, Zenon
  <2>7. bk \in [Screen -> Char]
    <3>1. \A i \in Screen : (IF i + n * W < W * H THEN d.back[i + n * W] ELSE Blank) \in Char
      BY <2>2, <2>5, CharLaw, ScreenSubset
    <3> QED BY <2>4, <3>1, Zenon
  <2>8. PICK e : e = scroll_up(d, n)
    OBVIOUS
  <2>9. e = Flushed(d, cs, bk, st)
    BY <1>2, <2>0, <2>3, <2>4, <2>8, Zenon DEF scroll_up, Flushed
  <2>10. e \in Displays /\ e.cells = cs /\ e.back = bk /\ e.stray = st /\ Painted(e)
    BY <2>1, <2>6, <2>7, <2>9, FlushLaw
  <2>11. \A i \in Cells : e.cells[i] = IF i + n * W < W * H THEN d.cells[i + n * W] ELSE Blank
    BY <2>3, <2>10, Zenon
  <2>12. \A i \in Screen : e.back[i] = IF i + n * W < W * H THEN d.back[i + n * W] ELSE Blank
    BY <2>4, <2>10, Zenon
  <2>13. Buffered(e)
    <3>1. SUFFICES ASSUME NEW i \in Screen \ st
                   PROVE  e.cells[i] = e.back[i] \/ (e.cells[i] = "a" /\ e.back[i] = Blank)
      BY <2>10, Zenon DEF Buffered
    <3>2. i \in Cells
      BY ScreenSubset
    <3>3. CASE i + n * W < W * H
      <4>1. PICK j : j = i + n * W
        OBVIOUS
      <4>2. j \in Screen \ d.stray
        BY <2>0, <2>5, <3>2, <3>3, <4>1, Zenon
      <4>3. e.cells[i] = d.cells[j] /\ e.back[i] = d.back[j]
        BY <2>11, <2>12, <3>2, <3>3, <4>1, Zenon
      <4>4. d.cells[j] = d.back[j] \/ (d.cells[j] = "a" /\ d.back[j] = Blank)
        BY <2>1, <4>2 DEF Buffered
      <4> QED BY <4>3, <4>4, Zenon
    <3>4. CASE ~(i + n * W < W * H)
      <4>1. e.cells[i] = Blank /\ e.back[i] = Blank
        BY <2>11, <2>12, <3>2, <3>4, Zenon
      <4> QED BY <4>1
    <3> QED BY <3>3, <3>4
  <2>14. NoFinal(d) => NoFinal(e)
    <3>1. SUFFICES ASSUME NoFinal(d), NEW i \in Cells
                   PROVE  e.cells[i] \notin Finals
      BY Zenon DEF NoFinal
    <3>2. CASE i + n * W < W * H
      <4>1. i + n * W \in Cells
        BY <2>5, <3>2
      <4>2. e.cells[i] = d.cells[i + n * W]
        BY <2>11, <3>2, Zenon
      <4> QED BY <3>1, <4>1, <4>2, Zenon DEF NoFinal
    <3>3. CASE ~(i + n * W < W * H)
      <4>1. e.cells[i] = Blank
        BY <2>11, <3>3, Zenon
      <4> QED BY <4>1, CharLaw
    <3> QED BY <3>2, <3>3
  <2> QED BY <2>8, <2>10, <2>12, <2>13, <2>14, Zenon DEF Good
<1> QED BY <1>1, <1>2

\* A character put into the buffers and on the screen.
Put(d, pos, c) ==
    [print_char_at(d, pos, c) EXCEPT !.cells[Index(pos)] = c, !.stray = Strayed(@, pos)]

\* It is stored and shown at the same place, or to the right of the screen.
LEMMA PutLaw ==
    ASSUME NEW d, Good(d), NEW x \in 0..W, NEW y \in 0..(H - 1), NEW c \in Char
    PROVE  /\ Good(Put(d, <<x, y>>, c))
           /\ NoFinal(d) /\ c \notin Finals => NoFinal(Put(d, <<x, y>>, c))
           /\ \A i \in Screen : Put(d, <<x, y>>, c).back[i] =
                IF x < W /\ i = Index(<<x, y>>) THEN c ELSE d.back[i]
<1>1. d \in Displays /\ Buffered(d) /\ Painted(d)
  BY DEF Good
<1>2. /\ d.cells \in [Cells -> Char] /\ d.back \in [Screen -> Char]
      /\ d.front \in [Screen -> Char] /\ d.stray \in SUBSET Screen
  BY <1>1 DEF Displays
<1>0. PICK st : st = Strayed(d.stray, <<x, y>>)
  OBVIOUS
<1>3. PICK k : k = Index(<<x, y>>)
  OBVIOUS
<1>4. k \in Cells /\ (x < W => k \in Screen)
  BY <1>3, IndexLaw
<1>5. y < H /\ (x < W \/ x = W)
  BY Sizes
<1>6. PICK cs : cs = [d.cells EXCEPT ![k] = c]
  OBVIOUS
<1>7. PICK bk : bk = draw_char(d.back, <<x, y>>, c)
  OBVIOUS
<1>8. PICK fr : fr = draw_char(d.front, <<x, y>>, c)
  OBVIOUS
<1>9. PICK f : f = print_char_at(d, <<x, y>>, c)
  OBVIOUS
<1>10. f = [d EXCEPT !.back = bk, !.front = fr]
  BY <1>7, <1>8, <1>9, Zenon DEF print_char_at
<1>11. f = [cells |-> d.cells, back |-> bk, front |-> fr, stray |-> d.stray]
  BY <1>1, <1>10 DEF Displays
<1>12. PICK e : e = Put(d, <<x, y>>, c)
  OBVIOUS
<1>13. e = [f EXCEPT !.cells = [f.cells EXCEPT ![k] = c], !.stray = Strayed(f.stray, <<x, y>>)]
  BY <1>3, <1>9, <1>12, Zenon DEF Put
<1>a. f.cells = d.cells /\ f.stray = d.stray
  BY <1>11
<1>b. e = [f EXCEPT !.cells = cs, !.stray = st]
  BY <1>0, <1>6, <1>13, <1>a, Zenon
<1>14. e = [cells |-> cs, back |-> bk, front |-> fr, stray |-> st]
  BY <1>11, <1>b
<1>15. e.cells = cs /\ e.back = bk /\ e.front = fr /\ e.stray = st
  BY <1>14
<1>c. st = IF x < W THEN d.stray \ {k} ELSE d.stray \cup ({k} \cap Screen)
  BY <1>0, <1>3, Zenon DEF Strayed
<1>d. st \in SUBSET Screen
  BY <1>2, <1>c
<1>16. bk = IF x < W THEN [d.back EXCEPT ![k] = c] ELSE d.back
  BY <1>3, <1>5, <1>7, <1>8 DEF draw_char
<1>17. fr = IF x < W THEN [d.front EXCEPT ![k] = c] ELSE d.front
  BY <1>3, <1>5, <1>7, <1>8 DEF draw_char
<1>18. cs \in [Cells -> Char] /\ bk \in [Screen -> Char] /\ fr \in [Screen -> Char]
  BY <1>2, <1>4, <1>6, <1>16, <1>17
<1>19. e \in Displays
  BY <1>14, <1>18, <1>d DEF Displays
<1>20. \A i \in Cells : e.cells[i] = IF i = k THEN c ELSE d.cells[i]
  BY <1>2, <1>6, <1>15
<1>21. \A i \in Screen : e.back[i] = IF x < W /\ i = k THEN c ELSE d.back[i]
  BY <1>2, <1>15, <1>16
<1>22. \A i \in Screen : e.front[i] = IF x < W /\ i = k THEN c ELSE d.front[i]
  BY <1>2, <1>15, <1>17
<1>23. ASSUME NEW i \in Screen \ e.stray
       PROVE  \/ e.cells[i] = c /\ e.back[i] = c /\ e.front[i] = c
              \/ /\ i \in Screen \ d.stray
                 /\ e.cells[i] = d.cells[i] /\ e.back[i] = d.back[i] /\ e.front[i] = d.front[i]
  <2>1. i \in Cells
    BY ScreenSubset
  <2>2. CASE i = k
    <3>1. x < W
      BY <1>15, <1>23, <1>c, <2>2
    <3> QED BY <1>20, <1>21, <1>22, <2>1, <2>2, <3>1, Zenon
  <2>3. CASE i # k
    <3>1. i \in Screen \ d.stray
      BY <1>15, <1>23, <1>c, <2>3
    <3> QED BY <1>20, <1>21, <1>22, <2>1, <2>3, <3>1, Zenon
  <2> QED BY <2>2, <2>3
<1>24. Buffered(e)
  BY <1>1, <1>23, Zenon DEF Buffered
<1>25. Painted(e)
  <2>1. SUFFICES ASSUME NEW i \in Screen \ e.stray
                 PROVE  e.front[i] \in {e.back[i], e.cells[i], CURSOR}
    BY Zenon DEF Painted
  <2>2. i \in Screen \ d.stray => d.front[i] \in {d.back[i], d.cells[i], CURSOR}
    BY <1>1, Zenon DEF Painted
  <2> QED BY <1>23, <2>2, Zenon
<1>26. NoFinal(d) /\ c \notin Finals => NoFinal(e)
  BY <1>20, Zenon DEF NoFinal
<1> QED BY <1>3, <1>12, <1>19, <1>21, <1>24, <1>25, <1>26, Zenon DEF Good

-----------------------------------------------------------------------------
(* The cursor. *)

\* The values of cursor.
Cursors == [pos : (0..W) \X (0..(H - 1)), saved_pos : (0..W) \X (0..(H - 1))]

\* The display is d, the cursor is put at <<u, v>>; a row below the screen scrolls it.
Placed(d, u, v) ==
    \/ /\ v < H /\ display' = d
       /\ cursor' = [cursor EXCEPT !.pos = <<u, v>>]
    \/ /\ v = H /\ display' = scroll_up(d, 1)
       /\ cursor' = [cursor EXCEPT !.pos = <<u, H - 1>>]

\* The cursor's position ...
LEMMA CursorLaw ==
    ASSUME NEW c \in Cursors
    PROVE  \E x \in 0..W, y \in 0..(H - 1) : c.pos = <<x, y>> /\ c.pos[1] = x /\ c.pos[2] = y
BY DEF Cursors

\* ... and the saved one are pairs.
LEMMA SavedLaw ==
    ASSUME NEW c \in Cursors
    PROVE  \E x \in 0..W, y \in 0..(H - 1) : c.saved_pos = <<x, y>>
BY DEF Cursors

\* position puts the cursor there, ...
LEMMA PositionPlaces ==
    ASSUME NEW d, NEW u \in 0..W, NEW v \in 0..H, position(d, <<u, v>>)
    PROVE  Placed(d, u, v) /\ color' = color /\ fault' = fault
<1>1. PICK n : n = Max({0, v - (H - 1)})
  OBVIOUS
<1>2. n = IF 0 >= v - (H - 1) THEN 0 ELSE v - (H - 1)
  BY <1>1, MaxOfTwo, Sizes
<1>3. <<u, v>>[1] = u /\ <<u, v>>[2] = v
  OBVIOUS
<1>4. /\ display' = scroll_up(d, n) /\ cursor' = [cursor EXCEPT !.pos = <<u, v - n>>]
      /\ color' = color /\ fault' = fault
  BY <1>1, <1>3, Zenon DEF position
<1>5. CASE v < H
  <2>1. n = 0 /\ v - n = v
    BY <1>2, <1>5, Sizes
  <2>2. display' = d
    BY <1>4, <2>1 DEF scroll_up
  <2> QED BY <1>4, <1>5, <2>1, <2>2 DEF Placed
<1>6. CASE v = H
  <2>1. n = 1 /\ v - n = H - 1
    BY <1>2, <1>6, Sizes
  <2> QED BY <1>4, <1>6, <2>1 DEF Placed
<1> QED BY <1>4, <1>5, <1>6, Sizes

\* (print_char draws an underscore below the screen, where nothing is drawn.)
LEMMA PrintBelow ==
    ASSUME NEW d \in Displays, NEW c
    PROVE  print_char_at(d, <<0, H>>, c) = d
<1>1. <<0, H>>[2] = H /\ ~(H < H)
  BY Sizes
<1>2. \A layer : draw_char(layer, <<0, H>>, c) = layer
  BY <1>1, Zenon DEF draw_char
<1>3. print_char_at(d, <<0, H>>, c) =
        [d EXCEPT !.back = draw_char(d.back, <<0, H>>, c), !.front = draw_char(d.front, <<0, H>>, c)]
  BY DEF print_char_at
<1>4. PICK bk : bk = draw_char(d.back, <<0, H>>, c)
  OBVIOUS
<1>5. PICK fr : fr = draw_char(d.front, <<0, H>>, c)
  OBVIOUS
<1>6. print_char_at(d, <<0, H>>, c) = [d EXCEPT !.back = bk, !.front = fr]
  BY <1>3, <1>4, <1>5, Zenon
<1>7. bk = d.back /\ fr = d.front
  BY <1>2, <1>4, <1>5
<1> QED BY <1>6, <1>7 DEF Displays

\* ... and so does the end of print_char, after wrapping.
LEMMA WrapPlaces ==
    ASSUME NEW d, Good(d), NEW x \in 0..(W + 1), NEW y \in 0..H, x >= W => y < H, Wrap(d, <<x, y>>),
           NEW u, u = (IF x >= W THEN 0 ELSE x), NEW v, v = (IF x >= W THEN y + 1 ELSE y),
           v = H => u = 0
    PROVE  u \in 0..(W - 1) /\ v \in 0..H /\ Placed(d, u, v)
<1>1. u \in 0..(W - 1) /\ v \in 0..H
  BY Sizes
<1>2. <<x, y>>[1] = x /\ <<x, y>>[2] = y /\ <<0, y + 1>>[2] = y + 1
  OBVIOUS
<1>3. (IF x >= W THEN <<0, y + 1>> ELSE <<x, y>>) = <<u, v>>
  OBVIOUS
<1>4. <<u, v>>[2] = v
  OBVIOUS
<1>5. IF v >= H
      THEN /\ display' = print_char_at(scroll_up(d, 1), <<0, H>>, "_")
           /\ cursor' = [cursor EXCEPT !.pos = <<0, H - 1>>]
      ELSE /\ display' = d
           /\ cursor' = [cursor EXCEPT !.pos = <<u, v>>]
  BY <1>2, <1>3, <1>4, Zenon DEF Wrap
<1>6. CASE v >= H
  <2>1. v = H /\ u = 0
    BY <1>1, <1>6, Sizes
  <2>2. scroll_up(d, 1) \in Displays
    BY ScrollLaw DEF Good
  <2>3. display' = scroll_up(d, 1) /\ cursor' = [cursor EXCEPT !.pos = <<0, H - 1>>]
    BY <1>5, <1>6, <2>2, PrintBelow, Zenon
  <2> QED BY <1>1, <2>1, <2>3, Zenon DEF Placed
<1>7. CASE v < H
  <2>1. ~(v >= H)
    BY <1>1, <1>7, Sizes
  <2>2. display' = d /\ cursor' = [cursor EXCEPT !.pos = <<u, v>>]
    BY <1>5, <2>1, Zenon
  <2> QED BY <1>1, <1>7, <2>2, Zenon DEF Placed
<1> QED BY <1>1, <1>6, <1>7, Sizes

\* Wherever it is put, the display stays good and the cursor in its range.
LEMMA PlacedGood ==
    ASSUME NEW d, Good(d), cursor \in Cursors, NEW u \in 0..W, NEW v \in 0..H, Placed(d, u, v)
    PROVE  Good(display') /\ cursor' \in Cursors /\ (NoFinal(d) => NoFinal(display'))
<1>1. CASE v < H
  <2>1. v # H
    BY <1>1, Sizes
  <2>2. display' = d /\ cursor' = [cursor EXCEPT !.pos = <<u, v>>]
    BY <2>1 DEF Placed
  <2>3. v \in 0..(H - 1)
    BY <1>1, Sizes
  <2>4. cursor' \in Cursors
    BY <2>2, <2>3 DEF Cursors
  <2> QED BY <2>2, <2>4, Zenon
<1>2. CASE v = H
  <2>1. ~(v < H)
    BY <1>2, Sizes
  <2>2. display' = scroll_up(d, 1) /\ cursor' = [cursor EXCEPT !.pos = <<u, H - 1>>]
    BY <2>1 DEF Placed
  <2>3. H - 1 \in 0..(H - 1)
    BY Sizes
  <2>4. cursor' \in Cursors
    BY <2>2, <2>3 DEF Cursors
  <2>5. Good(scroll_up(d, 1)) /\ (NoFinal(d) => NoFinal(scroll_up(d, 1)))
    BY ScrollLaw
  <2> QED BY <2>2, <2>4, <2>5, Zenon
<1> QED BY <1>1, <1>2, Sizes

-----------------------------------------------------------------------------
(* The text on the screen. *)

\* The characters that TextShown looks for.
Marks == {"x", "y"}

\* The screen shows H lines of a page, from line top on.
Matches(d, top, page) ==
    \A x \in 0..(W - 1), y \in 0..(H - 1), b \in Marks :
        d.back[Index(<<x, y>>)] = b <=> <<x, top + y, b>> \in page

\* Scrolling shows the page from the next line on.
LEMMA MatchScroll ==
    ASSUME NEW d, Good(d), NEW top \in Nat, NEW page, Matches(d, top, page),
           \A x \in 0..(W - 1), b \in Marks : <<x, top + H, b>> \notin page
    PROVE  Matches(scroll_up(d, 1), top + 1, page)
<1>1. SUFFICES ASSUME NEW x \in 0..(W - 1), NEW y \in 0..(H - 1), NEW b \in Marks
               PROVE  scroll_up(d, 1).back[Index(<<x, y>>)] = b <=> <<x, (top + 1) + y, b>> \in page
  BY Zenon DEF Matches
<1>2. PICK i : i = Index(<<x, y>>)
  OBVIOUS
<1>3. i \in Screen /\ i = y * W + x /\ y * W \in Nat /\ x \in Nat /\ x < W /\ x \in 0..W
  <2>1. x \in 0..W /\ x < W /\ x \in Nat
    BY Sizes
  <2> QED BY <1>2, <2>1, IndexLaw
<1>4. 1 * W = W /\ (y + 1) * W = y * W + W /\ i + W = (y + 1) * W + x
  BY <1>3, Sizes, Multiples
<1>5. scroll_up(d, 1).back[i] = IF i + W < W * H THEN d.back[i + W] ELSE Blank
  <2>1. 1 \in Nat /\ 1 # 0
    OBVIOUS
  <2>2. \A j \in Screen : scroll_up(d, 1).back[j] = IF j + 1 * W < W * H THEN d.back[j + 1 * W] ELSE Blank
    BY <2>1, ScrollLaw, Zenon
  <2> QED BY <1>3, <1>4, <2>2, Zenon
<1>6. CASE y + 1 < H
  <2>1. y + 1 \in 0..(H - 1)
    BY <1>6, Sizes
  <2>2. Index(<<x, y + 1>>) = i + W
    BY <1>4 DEF Index
  <2>3. Index(<<x, y + 1>>) \in Screen
    BY <1>3, <2>1, IndexLaw
  <2>4. i + W < W * H
    BY <2>2, <2>3, ScreenLaw DEF Screen
  <2>5. d.back[i + W] = b <=> <<x, top + (y + 1), b>> \in page
    BY <2>1, <2>2, Zenon DEF Matches
  <2>6. top + (y + 1) = (top + 1) + y
    OBVIOUS
  <2> QED BY <1>2, <1>5, <2>4, <2>5, <2>6, Zenon
<1>7. CASE y + 1 = H
  <2>1. i + W = H * W + x
    BY <1>4, <1>7, Sizes
  <2>2. ~(i + W < W * H)
    BY <1>3, <2>1, ScreenLaw
  <2>3. top + H = (top + 1) + y
    BY <1>7, Sizes
  <2>4. <<x, (top + 1) + y, b>> \notin page
    BY <2>3
  <2>5. Blank # b
    BY CharLaw DEF Marks
  <2> QED BY <1>2, <1>5, <2>2, <2>4, <2>5, Zenon
<1> QED BY <1>6, <1>7, Sizes

\* A character that is shown is added to the page.
LEMMA MatchPut ==
    ASSUME NEW d, Good(d), NEW top \in Nat, NEW page, Matches(d, top, page),
           NEW u \in 0..(W - 1), NEW v \in 0..(H - 1), NEW c \in Char,
           \A b \in Marks : <<u, top + v, b>> \notin page
    PROVE  Matches(Put(d, <<u, v>>, c), top, page \cup {<<u, top + v, c>>})
<1>1. SUFFICES ASSUME NEW x \in 0..(W - 1), NEW y \in 0..(H - 1), NEW b \in Marks
               PROVE  Put(d, <<u, v>>, c).back[Index(<<x, y>>)] = b
                        <=> <<x, top + y, b>> \in page \cup {<<u, top + v, c>>}
  BY Zenon DEF Matches
<1>2. x \in 0..W /\ x < W /\ u \in 0..W /\ u < W
  BY Sizes
<1>3. Index(<<x, y>>) \in Screen
  BY <1>2, IndexLaw
<1>4. Put(d, <<u, v>>, c).back[Index(<<x, y>>)] =
        IF u < W /\ Index(<<x, y>>) = Index(<<u, v>>) THEN c ELSE d.back[Index(<<x, y>>)]
  BY <1>2, <1>3, PutLaw
<1>5. d.back[Index(<<x, y>>)] = b <=> <<x, top + y, b>> \in page
  BY Zenon DEF Matches
<1>6. CASE x = u /\ y = v
  <2>1. Put(d, <<u, v>>, c).back[Index(<<x, y>>)] = c
    BY <1>2, <1>4, <1>6, Zenon
  <2>2. <<x, top + y, b>> \notin page
    BY <1>6, Zenon
  <2>3. <<x, top + y, b>> = <<u, top + v, c>> <=> b = c
    BY <1>6
  <2> QED BY <2>1, <2>2, <2>3, Zenon
<1>7. CASE ~(x = u /\ y = v)
  <2>1. Index(<<x, y>>) # Index(<<u, v>>)
    BY <1>7, IndexInjective
  <2>2. Put(d, <<u, v>>, c).back[Index(<<x, y>>)] = d.back[Index(<<x, y>>)]
    BY <1>4, <2>1, Zenon
  <2>3. <<x, top + y, b>> # <<u, top + v, c>>
    BY <1>7, Sizes
  <2> QED BY <1>5, <2>2, <2>3, Zenon
<1> QED BY <1>6, <1>7

\* The cells from a position to the end of its row.
LEMMA RowLaw ==
    ASSUME NEW x \in 0..(W - 1), NEW y \in 0..(H - 1), NEW u \in 0..W, NEW v \in 0..(H - 1),
           Index(<<u, v>>) <= Index(<<x, y>>), Index(<<x, y>>) < v * W + W
    PROVE  y = v /\ u <= x
<1>1. Index(<<x, y>>) = y * W + x /\ Index(<<u, v>>) = v * W + u
  BY DEF Index
<1>2. x \in Nat /\ y \in Nat /\ u \in Nat /\ v \in Nat /\ x < W /\ W \in Nat
  BY Sizes
<1>3. y * W \in Nat /\ v * W \in Nat /\ (y + 1) * W = y * W + W /\ (v + 1) * W = v * W + W
  BY <1>2, Multiples
<1>4. ~(y < v)
  <2>1. ASSUME y < v PROVE FALSE
    <3>1. (y + 1) * W <= v * W
      BY <1>2, <2>1, MulMono
    <3> QED BY <1>1, <1>2, <1>3, <3>1
  <2> QED BY <2>1
<1>5. ~(v < y)
  <2>1. ASSUME v < y PROVE FALSE
    <3>1. (v + 1) * W <= y * W
      BY <1>2, <2>1, MulMono
    <3> QED BY <1>1, <1>2, <1>3, <3>1
  <2> QED BY <2>1
<1>6. y = v
  BY <1>2, <1>4, <1>5
<1> QED BY <1>1, <1>2, <1>3, <1>6

\* Nothing of the page is right of the end of the text.
LEMMA MatchClearRest ==
    ASSUME NEW d, Good(d), NEW top \in Nat, NEW page, Matches(d, top, page),
           NEW u \in 0..(W - 1), NEW v \in 0..(H - 1),
           \A x \in 0..(W - 1), b \in Marks : u <= x => <<x, top + v, b>> \notin page
    PROVE  Matches(clear_line_from_cursor(d, <<u, v>>), top, page)
<1>1. SUFFICES ASSUME NEW x \in 0..(W - 1), NEW y \in 0..(H - 1), NEW b \in Marks
               PROVE  clear_line_from_cursor(d, <<u, v>>).back[Index(<<x, y>>)] = b
                        <=> <<x, top + y, b>> \in page
  BY Zenon DEF Matches
<1>2. x \in 0..W /\ x < W /\ u \in 0..W /\ u < W
  BY Sizes
<1>3. Index(<<x, y>>) \in Screen
  BY <1>2, IndexLaw
<1>4. PICK from : from = Index(<<u, v>>)
  OBVIOUS
<1>5. PICK to : to = v * W + W
  OBVIOUS
<1>6. from \in Nat /\ to \in Nat
  <2>1. from \in Cells /\ v * W \in Nat
    BY <1>2, <1>4, IndexLaw
  <2> QED BY <1>5, <2>1, ScreenSubset, Sizes
<1>7. <<u, v>>[2] = v
  OBVIOUS
<1>8. clear_line_from_cursor(d, <<u, v>>) = Fill(d, from, to, Blank)
  BY <1>4, <1>5, <1>7, Zenon DEF clear_line_from_cursor
<1>9. PICK i : i = Index(<<x, y>>)
  OBVIOUS
<1>10. Fill(d, from, to, Blank).back[i] = IF from <= i /\ i < to THEN Blank ELSE d.back[i]
  <2>1. Blank \in {Blank, "a"}
    OBVIOUS
  <2>2. \A j \in Screen : Fill(d, from, to, Blank).back[j] =
          IF from <= j /\ j < to THEN Blank ELSE d.back[j]
    BY <1>6, <2>1, FillLaw, Zenon
  <2> QED BY <1>3, <1>9, <2>2, Zenon
<1>11. d.back[i] = b <=> <<x, top + y, b>> \in page
  BY <1>9, Zenon DEF Matches
<1>12. CASE from <= i /\ i < to
  <2>1. y = v /\ u <= x
    BY <1>2, <1>4, <1>5, <1>9, <1>12, RowLaw
  <2>2. <<x, top + y, b>> \notin page
    BY <2>1
  <2>3. Blank # b
    BY CharLaw DEF Marks
  <2> QED BY <1>8, <1>9, <1>10, <1>12, <2>2, <2>3, Zenon
<1>13. CASE ~(from <= i /\ i < to)
  BY <1>8, <1>9, <1>10, <1>11, <1>13, Zenon
<1> QED BY <1>12, <1>13

\* The line of the page that is at the top of the screen.
Top(line) == Max({0, line - (H - 1)})

\* Its last line is always on the screen, and adding one scrolls if that was full.
LEMMA TopLaw ==
    ASSUME NEW line \in Nat
    PROVE  /\ Top(line) \in Nat /\ line - Top(line) \in 0..(H - 1)
           /\ line - Top(line) < H - 1 => Top(line + 1) = Top(line)
           /\ line - Top(line) = H - 1 => Top(line + 1) = Top(line) + 1
<1>1. Top(line) = IF 0 >= line - (H - 1) THEN 0 ELSE line - (H - 1)
  BY MaxOfTwo, Sizes DEF Top
<1>2. Top(line + 1) = IF 0 >= (line + 1) - (H - 1) THEN 0 ELSE (line + 1) - (H - 1)
  BY MaxOfTwo, Sizes DEF Top
<1> QED BY <1>1, <1>2, Sizes

\* TextShown, of any display, position and text.
TextAt(d, pos, t) ==
    /\ pos = <<t.col, t.line - Top(t.line)>>
    /\ Matches(d, Top(t.line), t.page)

\* TextInv, of any text.
TextOK(t) ==
    /\ t.length \in Nat /\ t.col \in 0..(W - 1) /\ t.line \in Nat
    /\ DOMAIN t = {"length", "col", "line", "page"}
    /\ \A p \in t.page :
        /\ p[1] \in Nat /\ p[2] \in Nat
        /\ p[2] < t.line \/ (p[2] = t.line /\ p[1] < t.col)

\* These are the property and the invariant.
LEMMA SameText ==
    /\ TextInv <=> TextOK(text)
    /\ TextShown <=> (stream.plain => TextAt(display, cursor.pos, text))
<1>1. TextInv <=> TextOK(text)
  BY DEF TextInv, TextOK
<1>2. TextShown <=> (stream.plain => TextAt(display, cursor.pos, text))
  BY Zenon DEF TextShown, TextAt, Matches, Marks, Top
<1> QED BY <1>1, <1>2

\* The cursor is put where the text goes on.
LEMMA PlacedText ==
    ASSUME NEW d, Good(d), cursor \in Cursors, NEW line \in Nat, NEW page, Matches(d, Top(line), page),
           \A x \in 0..(W - 1), b \in Marks : <<x, line + 1, b>> \notin page,
           NEW u \in 0..(W - 1), NEW v, Placed(d, u, v), NEW t, t.page = page, t.col = u,
           \/ v = line - Top(line) /\ t.line = line
           \/ v = line - Top(line) + 1 /\ t.line = line + 1
    PROVE  TextAt(display', cursor'.pos, t)
<1>1. PICK top : top = Top(line)
  OBVIOUS
<1>2. /\ top \in Nat /\ line - top \in 0..(H - 1)
      /\ line - top < H - 1 => Top(line + 1) = top
      /\ line - top = H - 1 => Top(line + 1) = top + 1
  BY <1>1, TopLaw
<1>3. CASE v < H
  <2>1. v # H
    BY <1>3, Sizes
  <2>2. display' = d /\ cursor' = [cursor EXCEPT !.pos = <<u, v>>]
    BY <2>1 DEF Placed
  <2>3. cursor'.pos = <<u, v>>
    BY <2>2 DEF Cursors
  <2>4. Top(t.line) = top /\ v = t.line - top
    BY <1>1, <1>2, <1>3, Sizes
  <2>5. Matches(display', Top(t.line), t.page)
    BY <1>1, <2>2, <2>4, Zenon
  <2> QED BY <2>3, <2>4, <2>5, Zenon DEF TextAt
<1>4. CASE ~(v < H)
  <2>1. display' = scroll_up(d, 1) /\ cursor' = [cursor EXCEPT !.pos = <<u, H - 1>>] /\ v = H
    BY <1>4 DEF Placed
  <2>2. cursor'.pos = <<u, H - 1>>
    BY <2>1 DEF Cursors
  <2>3. t.line = line + 1 /\ line - top = H - 1 /\ top + H = line + 1
    BY <1>1, <1>2, <2>1, Sizes
  <2>4. Top(t.line) = top + 1 /\ t.line - (top + 1) = H - 1
    BY <1>2, <2>3, Sizes
  <2>5. \A x \in 0..(W - 1), b \in Marks : <<x, top + H, b>> \notin page
    BY <2>3, Zenon
  <2>6. Matches(scroll_up(d, 1), top + 1, page)
    BY <1>1, <1>2, <2>5, MatchScroll, Zenon
  <2> QED BY <2>1, <2>2, <2>4, <2>6, Zenon DEF TextAt
<1> QED BY <1>3, <1>4

\* Marks are before the end of the text.
LEMMA MarkLaw ==
    ASSUME NEW t, TextOK(t), NEW x \in Nat, NEW l \in Nat, NEW b, l > t.line \/ (l = t.line /\ x >= t.col)
    PROVE  <<x, l, b>> \notin t.page
<1>1. SUFFICES ASSUME <<x, l, b>> \in t.page PROVE FALSE
  OBVIOUS
<1>2. PICK p : p = <<x, l, b>>
  OBVIOUS
<1>3. p[1] = x /\ p[2] = l
  BY <1>2
<1>4. p[2] < t.line \/ (p[2] = t.line /\ p[1] < t.col)
  BY <1>1, <1>2 DEF TextOK
<1>5. t.line \in Nat /\ t.col \in Nat
  BY Sizes DEF TextOK
<1> QED BY <1>3, <1>4, <1>5

\* The two ways to compute the next tab stop, which is right of the cursor.
LEMMA TabLaw ==
    ASSUME NEW x \in Nat, x + TAB_SPACES < W
    PROVE  /\ ((x + TAB_SPACES) \div TAB_SPACES) * TAB_SPACES \in 0..(W - 1)
           /\ ((x + TAB_SPACES) \div TAB_SPACES) * TAB_SPACES = ((x \div TAB_SPACES) + 1) * TAB_SPACES
           /\ ((x + TAB_SPACES) \div TAB_SPACES) * TAB_SPACES > x
<1>1. PICK n \in Nat : n = TAB_SPACES /\ n >= 1
  BY Sizes
<1>2. PICK q \in Nat, r \in 0..(n - 1) : x = q * n + r /\ x \div n = q
  BY <1>1, Divided
<1>3. q * n \in Nat /\ (q + 1) * n = q * n + n
  OBVIOUS
<1>4. x + n = (q + 1) * n + r
  BY <1>2, <1>3
<1>5. ((q + 1) * n + r) \div n = q + 1
  <2>1. q + 1 \in Nat
    OBVIOUS
  <2> QED BY <1>1, <2>1, Division
<1>6. (x + n) \div n = q + 1
  BY <1>4, <1>5
<1>7. (q + 1) * n \in 0..(W - 1) /\ (q + 1) * n > x
  BY <1>1, <1>2, <1>3, Sizes
<1> QED BY <1>1, <1>2, <1>6, <1>7

-----------------------------------------------------------------------------
(* What a byte does to the page. *)

\* Text that goes on to the right or in the next line is in order.
LEMMA LaidOK ==
    ASSUME TextInv, NEW col \in Nat, NEW page, NEW t,
           t = [length |-> text.length + 1,
                col    |-> IF col >= W THEN 0 ELSE col,
                line   |-> IF col >= W THEN text.line + 1 ELSE text.line,
                page   |-> page],
           col >= text.col,
           \A p \in page : p \in text.page \/ (p[1] = text.col /\ p[2] = text.line /\ col > text.col)
    PROVE  TextOK(t)
<1>1. text.length \in Nat /\ text.col \in 0..(W - 1) /\ text.line \in Nat /\ text.col \in Nat
  BY Sizes DEF TextInv
<1>2. t.length = text.length + 1 /\ t.page = page /\ DOMAIN t = {"length", "col", "line", "page"}
  OBVIOUS
<1>3. /\ t.col = IF col >= W THEN 0 ELSE col
      /\ t.line = IF col >= W THEN text.line + 1 ELSE text.line
  OBVIOUS
<1>4. ASSUME NEW p \in page
      PROVE  p[1] \in Nat /\ p[2] \in Nat /\ (p[2] < t.line \/ (p[2] = t.line /\ p[1] < t.col))
  <2>1. CASE p \in text.page
    <3>1. p[1] \in Nat /\ p[2] \in Nat /\ (p[2] < text.line \/ (p[2] = text.line /\ p[1] < text.col))
      BY <2>1 DEF TextInv
    <3> QED BY <1>1, <1>3, <3>1, Sizes
  <2>2. CASE p[1] = text.col /\ p[2] = text.line /\ col > text.col
    BY <1>1, <1>3, <2>2, Sizes
  <2> QED BY <1>4, <2>1, <2>2
<1>5. t.length \in Nat /\ t.col \in 0..(W - 1) /\ t.line \in Nat
  BY <1>1, <1>2, <1>3, Sizes
<1> QED BY <1>2, <1>4, <1>5, Zenon DEF TextOK

-----------------------------------------------------------------------------
(* Bytes. *)

\* What each handler keeps.
Base ==
    /\ Good(display) /\ cursor \in Cursors /\ color \in ColorState
    /\ TextOK(text)
    /\ stream.plain => TextAt(display, cursor.pos, text)

\* Nothing is below the last line of the text.
LEMMA NothingBelow ==
    ASSUME NEW t, TextOK(t)
    PROVE  \A x \in 0..(W - 1), b \in Marks : <<x, t.line + 1, b>> \notin t.page
<1>1. SUFFICES ASSUME NEW x \in 0..(W - 1), NEW b \in Marks PROVE <<x, t.line + 1, b>> \notin t.page
  OBVIOUS
<1>2. x \in Nat /\ t.line \in Nat /\ t.line + 1 \in Nat /\ t.line + 1 > t.line
  BY Sizes DEF TextOK
<1> QED BY <1>2, MarkLaw

\* Where the cursor is in plain text.
LEMMA TextCursor ==
    ASSUME TextOK(text), NEW d, NEW x, NEW y, TextAt(d, <<x, y>>, text)
    PROVE  /\ x = text.col /\ y = text.line - Top(text.line) /\ text.line = Top(text.line) + y
           /\ x \in 0..(W - 1) /\ y \in 0..(H - 1) /\ text.line \in Nat /\ Top(text.line) \in Nat
           /\ Matches(d, Top(text.line), text.page)
<1>1. <<x, y>> = <<text.col, text.line - Top(text.line)>> /\ Matches(d, Top(text.line), text.page)
  BY Zenon DEF TextAt
<1>2. x = text.col /\ y = text.line - Top(text.line)
  BY <1>1
<1>3. text.line \in Nat /\ text.col \in 0..(W - 1)
  BY DEF TextOK
<1>4. Top(text.line) \in Nat /\ text.line - Top(text.line) \in 0..(H - 1)
  BY <1>3, TopLaw
<1> QED BY <1>1, <1>2, <1>3, <1>4, Sizes

\* Clearing the rest of a line is a fill.
LEMMA ClearRestGood ==
    ASSUME NEW d, Good(d), NEW x \in 0..W, NEW y \in 0..(H - 1)
    PROVE  /\ Good(clear_line_from_cursor(d, <<x, y>>))
           /\ NoFinal(d) => NoFinal(clear_line_from_cursor(d, <<x, y>>))
<1>1. PICK from : from = Index(<<x, y>>)
  OBVIOUS
<1>2. PICK to : to = y * W + W
  OBVIOUS
<1>3. from \in Nat /\ to \in Nat
  <2>1. from \in Cells /\ y * W \in Nat
    BY <1>1, IndexLaw
  <2> QED BY <1>2, <2>1, ScreenSubset, Sizes
<1>4. <<x, y>>[2] = y
  OBVIOUS
<1>5. clear_line_from_cursor(d, <<x, y>>) = Fill(d, from, to, Blank)
  BY <1>1, <1>2, <1>4, Zenon DEF clear_line_from_cursor
<1>6. Blank \in {Blank, "a"}
  OBVIOUS
<1> QED BY <1>3, <1>5, <1>6, FillLaw, Zenon

\* A line feed.
LEMMA FeedKeeps ==
    ASSUME Base, NEW x \in 0..W, NEW y \in 0..(H - 1), cursor.pos = <<x, y>>, stream' = stream,
           color' = color, text' = (IF stream.plain THEN Laid("LF") ELSE text),
           Wrap(clear_line_from_cursor(display, <<x, y>>), <<0, y + 1>>)
    PROVE  Base' /\ (NoFinal(display) => NoFinal(display'))
<1>1. Good(display) /\ cursor \in Cursors /\ color \in ColorState /\ TextOK(text)
  BY DEF Base
<1>2. PICK d : d = clear_line_from_cursor(display, <<x, y>>)
  OBVIOUS
<1>3. Good(d) /\ (NoFinal(display) => NoFinal(d))
  BY <1>1, <1>2, ClearRestGood
<1>4. PICK v \in 0..H : v = y + 1
  BY Sizes
<1>5. Wrap(d, <<0, v>>)
  BY <1>2, <1>4
<1>6. 0 \in 0..(W + 1) /\ ~(0 >= W) /\ 0 \in 0..W /\ 0 \in 0..(W - 1)
  BY Sizes
<1>7. Placed(d, 0, v)
  BY <1>3, <1>5, <1>6, WrapPlaces
<1>8. Good(display') /\ cursor' \in Cursors /\ (NoFinal(d) => NoFinal(display'))
  BY <1>1, <1>3, <1>6, <1>7, PlacedGood
<1>9. TextOK(text') /\ (stream'.plain => TextAt(display', cursor'.pos, text'))
  <2>1. CASE stream.plain
    <3>1. TextAt(display, <<x, y>>, text)
      BY <2>1 DEF Base
    <3>2. /\ x = text.col /\ y = text.line - Top(text.line) /\ text.line = Top(text.line) + y
          /\ x \in 0..(W - 1) /\ text.line \in Nat /\ Top(text.line) \in Nat
          /\ Matches(display, Top(text.line), text.page)
      BY <1>1, <3>1, TextCursor
    <3>3. \A i \in 0..(W - 1), b \in Marks : x <= i => <<i, Top(text.line) + y, b>> \notin text.page
      <4>1. SUFFICES ASSUME NEW i \in 0..(W - 1), NEW b \in Marks, x <= i
                     PROVE  <<i, text.line, b>> \notin text.page
        BY <3>2
      <4>2. i \in Nat /\ i >= text.col
        BY <3>2, <4>1, Sizes
      <4> QED BY <1>1, <3>2, <4>2, MarkLaw
    <3>4. Matches(d, Top(text.line), text.page)
      BY <1>1, <1>2, <3>2, <3>3, MatchClearRest, Zenon
    <3>5. PICK t : t = Laid("LF")
      OBVIOUS
    <3>6. "LF" \notin Printable
      BY DEF Printable, Finals
    <3>7. t = [length |-> text.length + 1, col |-> IF W >= W THEN 0 ELSE W,
               line |-> IF W >= W THEN text.line + 1 ELSE text.line, page |-> text.page]
      BY <3>5, <3>6 DEF Laid
    <3>8. W >= W /\ W \in Nat /\ W >= text.col
      BY <3>2, Sizes
    <3>9. t.col = 0 /\ t.line = text.line + 1 /\ t.page = text.page
      BY <3>7, <3>8
    <3>10. TextOK(t)
      BY <1>1, <3>7, <3>8, LaidOK, SameText
    <3>11. v = text.line - Top(text.line) + 1
      BY <1>4, <3>2
    <3>12. TextAt(display', cursor'.pos, t)
      BY <1>1, <1>3, <1>6, <1>7, <3>2, <3>4, <3>9, <3>11, NothingBelow, PlacedText
    <3> QED BY <2>1, <3>5, <3>10, <3>12
  <2>2. CASE ~stream.plain
    BY <1>1, <2>2
  <2> QED BY <2>1, <2>2
<1> QED BY <1>1, <1>3, <1>8, <1>9 DEF Base

\* A character with a glyph.
LEMMA GlyphKeeps ==
    ASSUME Base, NEW x \in 0..W, NEW y \in 0..(H - 1), cursor.pos = <<x, y>>, stream' = stream,
           NEW c \in Printable, HasGlyph(c),
           color' = color, text' = (IF stream.plain THEN Laid(c) ELSE text),
           Wrap(Put(display, <<x, y>>, c), <<x + 1, y>>)
    PROVE  Base' /\ (NoFinal(display) /\ c \notin Finals => NoFinal(display'))
<1>1. Good(display) /\ cursor \in Cursors /\ color \in ColorState /\ TextOK(text) /\ c \in Char
  BY CharLaw DEF Base
<1>2. PICK d : d = Put(display, <<x, y>>, c)
  OBVIOUS
<1>3. Good(d) /\ (NoFinal(display) /\ c \notin Finals => NoFinal(d))
  BY <1>1, <1>2, PutLaw
<1>4. PICK k \in 0..(W + 1) : k = x + 1
  BY Sizes
<1>5. PICK u : u = IF k >= W THEN 0 ELSE k
  OBVIOUS
<1>6. PICK v : v = IF k >= W THEN y + 1 ELSE y
  OBVIOUS
<1>7. y \in 0..H /\ y < H /\ (v = H => u = 0)
  BY <1>5, <1>6, Sizes
<1>8. Wrap(d, <<k, y>>)
  BY <1>2, <1>4
<1>9. u \in 0..(W - 1) /\ v \in 0..H /\ Placed(d, u, v)
  BY <1>3, <1>5, <1>6, <1>7, <1>8, WrapPlaces
<1>10. u \in 0..W
  BY <1>9, Sizes
<1>11. Good(display') /\ cursor' \in Cursors /\ (NoFinal(d) => NoFinal(display'))
  BY <1>1, <1>3, <1>9, <1>10, PlacedGood
<1>12. TextOK(text') /\ (stream'.plain => TextAt(display', cursor'.pos, text'))
  <2>1. CASE stream.plain
    <3>1. TextAt(display, <<x, y>>, text)
      BY <2>1 DEF Base
    <3>2. /\ x = text.col /\ y = text.line - Top(text.line) /\ text.line = Top(text.line) + y
          /\ x \in 0..(W - 1) /\ text.line \in Nat /\ Top(text.line) \in Nat
          /\ Matches(display, Top(text.line), text.page)
      BY <1>1, <3>1, TextCursor
    <3>3. \A b \in Marks : <<x, Top(text.line) + y, b>> \notin text.page
      <4>1. SUFFICES ASSUME NEW b \in Marks
                     PROVE  <<x, text.line, b>> \notin text.page
        BY <3>2
      <4>2. x \in Nat /\ x >= text.col
        BY <3>2, Sizes
      <4> QED BY <1>1, <3>2, <4>2, MarkLaw
    <3>4. PICK mark : mark = <<text.col, text.line, c>>
      OBVIOUS
    <3>5. PICK page : page = text.page \cup {mark}
      OBVIOUS
    <3>6. Matches(d, Top(text.line), page)
      <4>1. Matches(d, Top(text.line), text.page \cup {<<x, Top(text.line) + y, c>>})
        BY <1>1, <1>2, <3>2, <3>3, MatchPut, Zenon
      <4>2. <<x, Top(text.line) + y, c>> = mark
        BY <3>2, <3>4
      <4> QED BY <3>5, <4>1, <4>2, Zenon
    <3>7. PICK t : t = Laid(c)
      OBVIOUS
    <3>8. c # "LF" /\ c # "TAB"
      BY DEF Printable, Finals
    <3>9. t = [length |-> text.length + 1, col |-> IF text.col + 1 >= W THEN 0 ELSE text.col + 1,
               line |-> IF text.col + 1 >= W THEN text.line + 1 ELSE text.line, page |-> page]
      BY <3>4, <3>5, <3>7, <3>8 DEF Laid
    <3>10. k = text.col + 1 /\ k \in Nat /\ k > text.col /\ k >= text.col
      BY <1>4, <3>2, Sizes
    <3>11. /\ t.col = (IF k >= W THEN 0 ELSE k) /\ t.page = page
           /\ t.line = (IF k >= W THEN text.line + 1 ELSE text.line)
      BY <3>9, <3>10
    <3>12. TextOK(t)
      <4>1. \A p \in page : p \in text.page \/ (p[1] = text.col /\ p[2] = text.line /\ k > text.col)
        BY <3>4, <3>5, <3>10
      <4>2. t = [length |-> text.length + 1, col |-> IF k >= W THEN 0 ELSE k,
                 line |-> IF k >= W THEN text.line + 1 ELSE text.line, page |-> page]
        BY <3>9, <3>10, Zenon
      <4> QED BY <1>1, <3>10, <4>1, <4>2, LaidOK, SameText
    <3>13. \A i \in 0..(W - 1), b \in Marks : <<i, text.line + 1, b>> \notin page
      <4>1. \A i \in 0..(W - 1), b \in Marks : <<i, text.line + 1, b>> \notin text.page
        BY <1>1, NothingBelow
      <4>2. \A i, b : <<i, text.line + 1, b>> # mark
        BY <3>2, <3>4
      <4> QED BY <3>5, <4>1, <4>2, Zenon
    <3>14. t.col = u /\ (\/ v = text.line - Top(text.line) /\ t.line = text.line
                         \/ v = text.line - Top(text.line) + 1 /\ t.line = text.line + 1)
      BY <1>5, <1>6, <3>2, <3>11
    <3>15. TextAt(display', cursor'.pos, t)
      BY <1>1, <1>3, <1>9, <3>2, <3>6, <3>11, <3>13, <3>14, PlacedText
    <3> QED BY <2>1, <3>7, <3>12, <3>15
  <2>2. CASE ~stream.plain
    BY <1>1, <2>2
  <2> QED BY <2>1, <2>2
<1> QED BY <1>1, <1>3, <1>11, <1>12 DEF Base

\* A character without.
LEMMA NoGlyphKeeps ==
    ASSUME Base, NEW x \in 0..W, NEW y \in 0..(H - 1), cursor.pos = <<x, y>>, stream' = stream,
           NEW c \in Printable, ~HasGlyph(c),
           color' = color, text' = (IF stream.plain THEN Laid(c) ELSE text),
           Wrap(display, <<x, y>>)
    PROVE  Base' /\ (NoFinal(display) => NoFinal(display'))
<1>1. Good(display) /\ cursor \in Cursors /\ color \in ColorState /\ TextOK(text)
  BY DEF Base
<1>2. PICK k \in 0..(W + 1) : k = x
  BY Sizes
<1>3. PICK u : u = IF k >= W THEN 0 ELSE k
  OBVIOUS
<1>4. PICK v : v = IF k >= W THEN y + 1 ELSE y
  OBVIOUS
<1>5. y \in 0..H /\ y < H /\ (v = H => u = 0)
  BY <1>3, <1>4, Sizes
<1>6. Wrap(display, <<k, y>>)
  BY <1>2
<1>7. u \in 0..(W - 1) /\ v \in 0..H /\ Placed(display, u, v)
  BY <1>1, <1>3, <1>4, <1>5, <1>6, WrapPlaces
<1>8. u \in 0..W
  BY <1>7, Sizes
<1>9. Good(display') /\ cursor' \in Cursors /\ (NoFinal(display) => NoFinal(display'))
  BY <1>1, <1>7, <1>8, PlacedGood
<1>10. TextOK(text') /\ (stream'.plain => TextAt(display', cursor'.pos, text'))
  <2>1. CASE stream.plain
    <3>1. TextAt(display, <<x, y>>, text)
      BY <2>1 DEF Base
    <3>2. /\ x = text.col /\ y = text.line - Top(text.line) /\ text.line = Top(text.line) + y
          /\ x \in 0..(W - 1) /\ text.line \in Nat /\ Top(text.line) \in Nat
          /\ Matches(display, Top(text.line), text.page)
      BY <1>1, <3>1, TextCursor
    <3>3. PICK t : t = Laid(c)
      OBVIOUS
    <3>4. c # "LF" /\ c # "TAB"
      BY DEF Printable, Finals
    <3>5. t = [length |-> text.length + 1, col |-> IF text.col >= W THEN 0 ELSE text.col,
               line |-> IF text.col >= W THEN text.line + 1 ELSE text.line, page |-> text.page]
      BY <3>3, <3>4 DEF Laid
    <3>6. text.col \in Nat /\ ~(text.col >= W) /\ ~(k >= W) /\ k = text.col
      BY <1>2, <3>2, Sizes
    <3>7. t.col = text.col /\ t.page = text.page /\ t.line = text.line
      BY <3>5, <3>6
    <3>8. TextOK(t)
      <4>1. text.col >= text.col
        BY <3>6
      <4> QED BY <1>1, <3>5, <3>6, <4>1, LaidOK, SameText
    <3>9. t.col = u /\ v = text.line - Top(text.line)
      BY <1>3, <1>4, <3>2, <3>6, <3>7
    <3>10. TextAt(display', cursor'.pos, t)
      BY <1>1, <1>7, <3>2, <3>7, <3>9, NothingBelow, PlacedText
    <3> QED BY <2>1, <3>3, <3>8, <3>10
  <2>2. CASE ~stream.plain
    BY <1>1, <2>2
  <2> QED BY <2>1, <2>2
<1> QED BY <1>1, <1>9, <1>10 DEF Base

\* print_char.
LEMMA PrintKeeps ==
    ASSUME Base, stream' = stream, NEW c \in Printable \cup {"LF"}, print_char(c)
    PROVE  /\ Base' /\ fault' = fault
           /\ NoFinal(display) /\ c \notin Finals => NoFinal(display')
<1>1. PICK x \in 0..W, y \in 0..(H - 1) : cursor.pos = <<x, y>> /\ cursor.pos[1] = x /\ cursor.pos[2] = y
  BY CursorLaw DEF Base
<1>2. Index(cursor.pos) \in Cells
  BY <1>1, IndexLaw
<1>3. /\ CASE c = "LF" -> Wrap(clear_line_from_cursor(display, cursor.pos), <<0, cursor.pos[2] + 1>>)
           [] c # "LF" /\ HasGlyph(c) -> Wrap(Put(display, cursor.pos, c), <<cursor.pos[1] + 1, cursor.pos[2]>>)
           [] OTHER -> Wrap(display, cursor.pos)
      /\ Logged(c) /\ UNCHANGED <<color, fault>>
  BY <1>2, Zenon DEF print_char, Put
<1>4. color' = color /\ fault' = fault /\ text' = IF stream.plain THEN Laid(c) ELSE text
  BY <1>3 DEF Logged
<1>5. CASE c = "LF"
  <2>1. Wrap(clear_line_from_cursor(display, <<x, y>>), <<0, y + 1>>)
    BY <1>1, <1>3, <1>5, Zenon
  <2>2. text' = IF stream.plain THEN Laid("LF") ELSE text
    BY <1>4, <1>5
  <2> QED BY <1>1, <1>4, <2>1, <2>2, FeedKeeps
<1>6. CASE c # "LF" /\ HasGlyph(c)
  <2>1. Wrap(Put(display, <<x, y>>, c), <<x + 1, y>>)
    BY <1>1, <1>3, <1>6, Zenon
  <2>2. c \in Printable
    BY <1>6
  <2> QED BY <1>1, <1>4, <1>6, <2>1, <2>2, GlyphKeeps
<1>7. CASE c # "LF" /\ ~HasGlyph(c)
  <2>1. Wrap(display, <<x, y>>)
    BY <1>1, <1>3, <1>7, Zenon
  <2>2. c \in Printable
    BY <1>7
  <2> QED BY <1>1, <1>4, <1>7, <2>1, <2>2, NoGlyphKeeps
<1> QED BY <1>5, <1>6, <1>7

\* handle_tab.
LEMMA TabKeeps ==
    ASSUME Base, stream' = stream, handle_tab
    PROVE  Base' /\ fault' = fault /\ (NoFinal(display) => NoFinal(display'))
<1>1. Good(display) /\ cursor \in Cursors /\ color \in ColorState /\ TextOK(text)
  BY DEF Base
<1>2. PICK x \in 0..W, y \in 0..(H - 1) : cursor.pos = <<x, y>> /\ cursor.pos[1] = x /\ cursor.pos[2] = y
  BY <1>1, CursorLaw
<1>3. PICK k : k = IF x + TAB_SPACES >= W THEN W ELSE ((x + TAB_SPACES) \div TAB_SPACES) * TAB_SPACES
  OBVIOUS
<1>4. x \in Nat /\ k \in 0..W /\ (x < W => k >= x)
  <2>1. x \in Nat
    BY Sizes
  <2>2. CASE x + TAB_SPACES >= W
    BY <1>3, <2>1, <2>2, Sizes
  <2>3. CASE ~(x + TAB_SPACES >= W)
    <3>1. x + TAB_SPACES < W
      BY <2>1, <2>3, Sizes
    <3>2. k = ((x + TAB_SPACES) \div TAB_SPACES) * TAB_SPACES
      BY <1>3, <2>3, Zenon
    <3>3. k \in 0..(W - 1) /\ k > x
      BY <2>1, <3>1, <3>2, TabLaw
    <3> QED BY <2>1, <3>3, Sizes
  <2> QED BY <2>2, <2>3
<1>5. PICK u : u = IF k >= W THEN 0 ELSE k
  OBVIOUS
<1>6. PICK v : v = IF k >= W THEN y + 1 ELSE y
  OBVIOUS
<1>7. x + TAB_SPACES >= W <=> k >= W
  <2>1. CASE x + TAB_SPACES >= W
    BY <1>3, <2>1, Sizes
  <2>2. CASE ~(x + TAB_SPACES >= W)
    <3>1. x + TAB_SPACES < W
      BY <1>4, <2>2, Sizes
    <3>2. k = ((x + TAB_SPACES) \div TAB_SPACES) * TAB_SPACES
      BY <1>3, <2>2, Zenon
    <3>3. k \in 0..(W - 1)
      BY <1>4, <3>1, <3>2, TabLaw
    <3> QED BY <2>2, <3>3, Sizes
  <2> QED BY <2>1, <2>2
<1>8. (IF x + TAB_SPACES >= W THEN <<0, y + 1>>
       ELSE <<((x + TAB_SPACES) \div TAB_SPACES) * TAB_SPACES, y>>) = <<u, v>>
  BY <1>3, <1>5, <1>6, <1>7, Zenon
<1>9. position(display, <<u, v>>)
  BY <1>2, <1>8, Zenon DEF handle_tab
<1>10. text' = IF stream.plain THEN Laid("TAB") ELSE text
  BY DEF handle_tab, Logged
<1>11. u \in 0..W /\ u \in 0..(W - 1) /\ v \in 0..H
  BY <1>4, <1>5, <1>6, Sizes
<1>12. Placed(display, u, v) /\ color' = color /\ fault' = fault
  BY <1>9, <1>11, PositionPlaces
<1>13. Good(display') /\ cursor' \in Cursors /\ (NoFinal(display) => NoFinal(display'))
  BY <1>1, <1>11, <1>12, PlacedGood
<1>14. TextOK(text') /\ (stream'.plain => TextAt(display', cursor'.pos, text'))
  <2>1. CASE stream.plain
    <3>1. TextAt(display, <<x, y>>, text)
      BY <1>2, <2>1 DEF Base
    <3>2. /\ x = text.col /\ y = text.line - Top(text.line) /\ text.line = Top(text.line) + y
          /\ x \in 0..(W - 1) /\ text.line \in Nat /\ Top(text.line) \in Nat
          /\ Matches(display, Top(text.line), text.page)
      BY <1>1, <3>1, TextCursor
    <3>3. PICK t : t = Laid("TAB")
      OBVIOUS
    <3>4. "TAB" \notin Printable
      BY DEF Printable, Finals
    <3>5. (IF text.col + TAB_SPACES >= W THEN W ELSE ((text.col \div TAB_SPACES) + 1) * TAB_SPACES) = k
      <4>1. CASE x + TAB_SPACES >= W
        BY <1>3, <3>2, <4>1, Zenon
      <4>2. CASE ~(x + TAB_SPACES >= W)
        <5>1. x + TAB_SPACES < W
          BY <1>4, <4>2, Sizes
        <5>2. ((x + TAB_SPACES) \div TAB_SPACES) * TAB_SPACES = ((x \div TAB_SPACES) + 1) * TAB_SPACES
          BY <1>4, <5>1, TabLaw
        <5> QED BY <1>3, <3>2, <4>2, <5>2, Zenon
      <4> QED BY <4>1, <4>2
    <3>6. t = [length |-> text.length + 1, col |-> IF k >= W THEN 0 ELSE k,
               line |-> IF k >= W THEN text.line + 1 ELSE text.line, page |-> text.page \cup {}]
      BY <3>3, <3>4, <3>5, Zenon DEF Laid
    <3>7. t = [length |-> text.length + 1, col |-> IF k >= W THEN 0 ELSE k,
               line |-> IF k >= W THEN text.line + 1 ELSE text.line, page |-> text.page]
      BY <3>6
    <3>8. /\ t.col = (IF k >= W THEN 0 ELSE k) /\ t.page = text.page
          /\ t.line = (IF k >= W THEN text.line + 1 ELSE text.line)
      BY <3>7
    <3>9. TextOK(t)
      <4>1. k \in Nat /\ k >= text.col
        BY <1>4, <3>2, Sizes
      <4> QED BY <1>1, <3>7, <4>1, LaidOK, SameText
    <3>10. t.col = u /\ (\/ v = text.line - Top(text.line) /\ t.line = text.line
                         \/ v = text.line - Top(text.line) + 1 /\ t.line = text.line + 1)
      BY <1>5, <1>6, <3>2, <3>8
    <3>11. TextAt(display', cursor'.pos, t)
      BY <1>1, <1>11, <1>12, <3>2, <3>8, <3>10, NothingBelow, PlacedText
    <3> QED BY <1>10, <2>1, <3>3, <3>9, <3>11
  <2>2. CASE ~stream.plain
    BY <1>1, <1>10, <2>2
  <2> QED BY <2>1, <2>2
<1> QED BY <1>1, <1>12, <1>13, <1>14 DEF Base

\* execute.
LEMMA ExecuteKeeps ==
    ASSUME Base, stream' = stream, NEW b \in Controls, execute(b)
    PROVE  Base' /\ fault' = fault /\ (NoFinal(display) => NoFinal(display'))
<1>1. CASE b = "BEL"
  <2>1. handle_bell
    BY <1>1 DEF execute
  <2>2. display' = display /\ cursor' = cursor /\ color' = color /\ text' = text /\ fault' = fault
    BY <2>1 DEF handle_bell
  <2> QED BY <2>2, Zenon DEF Base
<1>2. CASE b = "TAB"
  <2>1. handle_tab
    BY <1>2 DEF execute
  <2> QED BY <2>1, TabKeeps
<1>3. CASE b = "LF"
  <2>1. print_char("LF") /\ "LF" \in Printable \cup {"LF"} /\ "LF" \notin Finals
    BY <1>3 DEF execute, Finals
  <2> QED BY <2>1, PrintKeeps
<1> QED BY <1>1, <1>2, <1>3 DEF Controls

-----------------------------------------------------------------------------
(* Escape sequences.  Text with sequences is not plain. *)

\* What is to be shown for a handler of sequences.
LEMMA KeepsBase ==
    ASSUME Base, ~stream.plain, stream' = stream, text' = text,
           Good(display'), cursor' \in Cursors, color' \in ColorState
    PROVE  Base'
BY Zenon DEF Base

\* All of them place the cursor with position.
LEMMA PositionKeeps ==
    ASSUME Base, ~stream.plain, stream' = stream, text' = text,
           NEW d, Good(d), NEW u \in 0..W, NEW v \in 0..H, position(d, <<u, v>>)
    PROVE  Base' /\ fault' = fault /\ (NoFinal(d) => NoFinal(display'))
<1>1. Placed(d, u, v) /\ color' = color /\ fault' = fault
  BY PositionPlaces
<1>2. cursor \in Cursors /\ color \in ColorState
  BY DEF Base
<1>3. Good(display') /\ cursor' \in Cursors /\ (NoFinal(d) => NoFinal(display'))
  BY <1>1, <1>2, PlacedGood
<1> QED BY <1>1, <1>2, <1>3, KeepsBase

\* Movements that do not overflow end on the screen or in the column to its right.
LEMMA MoveLaw ==
    ASSUME NEW x \in 0..W, NEW y \in 0..(H - 1), NEW n \in Nat,
           NEW b \in {"A", "B", "C", "D", "E", "F", "G"}, NEW p, p = Moved(b, n, x, y),
           p[1] \in Nat, p[2] \in Nat
    PROVE  \E u \in 0..W, v \in 0..H : Clamped(b, p) = <<u, v>>
<1>1. PICK k \in Nat : k = Steps(n) /\ k >= 1
  BY DEF Steps
<1>2. \A i, j \in Int : Min({i, j}) = IF i <= j THEN i ELSE j
  BY MinOfTwo
<1>3. CASE b = "A"
  <2>1. p = <<x, y - k>>
    BY <1>1, <1>3 DEF Moved
  <2>2. p[1] = x /\ p[2] = y - k
    BY <2>1
  <2>3. Clamped(b, p) = <<x, y - k>>
    BY <1>3, <2>2 DEF Clamped
  <2>4. y - k \in 0..H
    BY <1>1, <2>2, Sizes
  <2> QED BY <2>3, <2>4
<1>4. CASE b = "B"
  <2>1. p = <<x, y + k>>
    BY <1>1, <1>4 DEF Moved
  <2>2. p[1] = x /\ p[2] = y + k
    BY <2>1
  <2>3. Clamped(b, p) = <<x, Min({y + k, H - 1})>>
    BY <1>4, <2>2 DEF Clamped
  <2>4. Min({y + k, H - 1}) \in 0..H
    BY <1>1, <1>2, Sizes
  <2> QED BY <2>3, <2>4
<1>5. CASE b = "C"
  <2>1. p = <<x + k, y>>
    BY <1>1, <1>5 DEF Moved
  <2>2. p[1] = x + k /\ p[2] = y
    BY <2>1
  <2>3. Clamped(b, p) = <<Min({x + k, W - 1}), y>>
    BY <1>5, <2>2 DEF Clamped
  <2>4. Min({x + k, W - 1}) \in 0..W /\ y \in 0..H
    BY <1>1, <1>2, Sizes
  <2> QED BY <2>3, <2>4
<1>6. CASE b = "D"
  <2>1. p = <<x - k, y>>
    BY <1>1, <1>6 DEF Moved
  <2>2. p[1] = x - k /\ p[2] = y
    BY <2>1
  <2>3. Clamped(b, p) = <<x - k, y>>
    BY <1>6, <2>2 DEF Clamped
  <2>4. x - k \in 0..W /\ y \in 0..H
    BY <1>1, <2>2, Sizes
  <2> QED BY <2>3, <2>4
<1>7. CASE b = "E"
  <2>1. p = <<0, y + n + 1>>
    BY <1>7 DEF Moved
  <2>2. p[1] = 0 /\ p[2] = y + n + 1
    BY <2>1
  <2>3. Clamped(b, p) = <<0, Min({y + n + 1, H - 1})>>
    BY <1>7, <2>2 DEF Clamped
  <2>4. 0 \in 0..W /\ Min({y + n + 1, H - 1}) \in 0..H
    BY <1>2, Sizes
  <2> QED BY <2>3, <2>4
<1>8. CASE b = "F"
  <2>1. p = <<0, y - n - 1>>
    BY <1>8 DEF Moved
  <2>2. p[1] = 0 /\ p[2] = y - n - 1
    BY <2>1
  <2>3. Clamped(b, p) = <<0, y - n - 1>>
    BY <1>8, <2>2 DEF Clamped
  <2>4. 0 \in 0..W /\ y - n - 1 \in 0..H
    BY <2>2, Sizes
  <2> QED BY <2>3, <2>4
<1>9. CASE b = "G"
  <2>1. p = <<n, y>>
    BY <1>9 DEF Moved
  <2>2. p[1] = n /\ p[2] = y
    BY <2>1
  <2>3. Clamped(b, p) = <<Min({n, W - 1}), y>>
    BY <1>9, <2>2 DEF Clamped
  <2>4. Min({n, W - 1}) \in 0..W /\ y \in 0..H
    BY <1>2, Sizes
  <2> QED BY <2>3, <2>4
<1> QED BY <1>3, <1>4, <1>5, <1>6, <1>7, <1>8, <1>9

\* Those that do panic and change nothing else.
LEMMA PanicKeeps ==
    ASSUME Base, stream' = stream, Panic("overflow")
    PROVE  Base' /\ fault' = "overflow" /\ (NoFinal(display) => NoFinal(display'))
BY Zenon DEF Base, Panic

\* handle_ansi_cursor_sequence.
LEMMA CursorKeeps ==
    ASSUME Base, ~stream.plain, stream' = stream, NEW b, NEW params \in Seq(0..(U16 - 1)), params # <<>>,
           handle_ansi_cursor_sequence(b, params)
    PROVE  Base' /\ fault' \in {fault, "overflow"} /\ (NoFinal(display) => NoFinal(display'))
<1>1. Good(display) /\ cursor \in Cursors /\ color \in ColorState
  BY DEF Base
<1>2. PICK x \in 0..W, y \in 0..(H - 1) : cursor.pos = <<x, y>> /\ cursor.pos[1] = x /\ cursor.pos[2] = y
  BY <1>1, CursorLaw
<1>3. Len(params) >= 1 /\ params[1] \in Nat
  BY WordParams
<1>4. PICK p : p = Moved(b, params[1], x, y)
  OBVIOUS
<1>5. ASSUME b \in {"A", "B", "C", "D", "E", "F", "G"},
             \E i \in {1, 2} : p[i] \notin 0..(U16 - 1), Panic("overflow")
      PROVE  Base' /\ fault' \in {fault, "overflow"} /\ (NoFinal(display) => NoFinal(display'))
  BY <1>5, PanicKeeps
<1>6. ASSUME b \in {"A", "B", "C", "D", "E", "F", "G"},
             \A i \in {1, 2} : p[i] \in 0..(U16 - 1), position(display, Clamped(b, p)), text' = text
      PROVE  Base' /\ fault' \in {fault, "overflow"} /\ (NoFinal(display) => NoFinal(display'))
  <2>1. p[1] \in Nat /\ p[2] \in Nat
    BY <1>6, Words
  <2>2. PICK u \in 0..W, v \in 0..H : Clamped(b, p) = <<u, v>>
    BY <1>3, <1>4, <1>6, <2>1, MoveLaw
  <2>3. position(display, <<u, v>>)
    BY <1>6, <2>2
  <2> QED BY <1>1, <1>6, <2>3, PositionKeeps
<1>7. ASSUME position(display, IF Len(params) >= 2
                               THEN <<IF params[1] > W THEN W - 1 ELSE params[1],
                                      IF params[2] > H THEN H - 1 ELSE params[2]>>
                               ELSE <<0, 0>>), text' = text
      PROVE  Base' /\ fault' \in {fault, "overflow"} /\ (NoFinal(display) => NoFinal(display'))
  <2>1. PICK u \in 0..W, v \in 0..H : (IF Len(params) >= 2
                               THEN <<IF params[1] > W THEN W - 1 ELSE params[1],
                                      IF params[2] > H THEN H - 1 ELSE params[2]>>
                               ELSE <<0, 0>>) = <<u, v>>
    <3>1. CASE Len(params) >= 2
      <4>1. params[1] \in Nat /\ params[2] \in Nat
        BY <3>1, WordParams
      <4>2. PICK u \in 0..W : u = IF params[1] > W THEN W - 1 ELSE params[1]
        BY <4>1, Sizes
      <4>3. PICK v \in 0..H : v = IF params[2] > H THEN H - 1 ELSE params[2]
        BY <4>1, Sizes
      <4> QED BY <3>1, <4>2, <4>3, Zenon
    <3>2. CASE ~(Len(params) >= 2)
      <4>1. 0 \in 0..W /\ 0 \in 0..H
        BY Sizes
      <4> QED BY <3>2, <4>1, Zenon
    <3> QED BY <3>1, <3>2
  <2>2. position(display, <<u, v>>)
    BY <1>7, <2>1, Zenon
  <2> QED BY <1>1, <1>7, <2>2, PositionKeeps
<1>8. ASSUME cursor' = [cursor EXCEPT !.saved_pos = cursor.pos], UNCHANGED <<display, color, text, fault>>
      PROVE  Base' /\ fault' \in {fault, "overflow"} /\ (NoFinal(display) => NoFinal(display'))
  <2>1. cursor' \in Cursors
    BY <1>1, <1>8 DEF Cursors
  <2>2. display' = display /\ color' = color /\ text' = text /\ fault' = fault
    BY <1>8
  <2>3. Base'
    BY <1>1, <2>1, <2>2, KeepsBase
  <2> QED BY <2>2, <2>3
<1>9. ASSUME position(display, cursor.saved_pos), text' = text
      PROVE  Base' /\ fault' \in {fault, "overflow"} /\ (NoFinal(display) => NoFinal(display'))
  <2>1. PICK u \in 0..W, v \in 0..(H - 1) : cursor.saved_pos = <<u, v>>
    BY <1>1, SavedLaw
  <2>2. v \in 0..H /\ position(display, <<u, v>>)
    BY <1>9, <2>1, Sizes
  <2> QED BY <1>1, <1>9, <2>2, PositionKeeps
<1>10. ASSUME UNCHANGED <<display, cursor, color, text, fault>>
       PROVE  Base' /\ fault' \in {fault, "overflow"} /\ (NoFinal(display) => NoFinal(display'))
  <2>1. display' = display /\ cursor' = cursor /\ color' = color /\ text' = text /\ fault' = fault
    BY <1>10
  <2> QED BY <1>1, <2>1, KeepsBase
<1> QED BY <1>2, <1>4, <1>5, <1>6, <1>7, <1>8, <1>9, <1>10, Zenon DEF handle_ansi_cursor_sequence

\* The erased part of the screen.
LEMMA ErasedGood ==
    ASSUME NEW d, Good(d), NEW x \in 0..W, NEW y \in 0..(H - 1), NEW e,
           e \in {clear_screen_from_cursor(d, <<x, y>>), clear_screen_to_cursor(d, <<x, y>>),
                  clear_screen(d), clear_line_from_cursor(d, <<x, y>>),
                  clear_line_to_cursor(d, <<x, y>>), clear_line(d, <<x, y>>), d}
    PROVE  Good(e) /\ (NoFinal(d) => NoFinal(e))
<1>1. PICK k : k = Index(<<x, y>>)
  OBVIOUS
<1>2. PICK row : row = y * W
  OBVIOUS
<1>3. PICK end : end = row + W
  OBVIOUS
<1>4. PICK size : size = CharacterSize * W * H
  OBVIOUS
<1>5. k \in Nat /\ row \in Nat /\ end \in Nat /\ size \in Nat
  <2>1. k \in Cells /\ row \in Nat
    BY <1>1, <1>2, IndexLaw
  <2>2. size \in Nat
    BY <1>4, ScreenLaw
  <2> QED BY <1>3, <2>1, <2>2, ScreenSubset, Sizes
<1>6. <<x, y>>[2] = y
  OBVIOUS
<1>7. /\ clear_screen_from_cursor(d, <<x, y>>) = Fill(d, k, size, Blank)
      /\ clear_screen_to_cursor(d, <<x, y>>) = Fill(d, 0, k, Blank)
      /\ clear_screen(d) = Fill(d, 0, size, Blank)
      /\ clear_line_from_cursor(d, <<x, y>>) = Fill(d, k, end, Blank)
      /\ clear_line_to_cursor(d, <<x, y>>) = Fill(d, row, k, Blank)
      /\ clear_line(d, <<x, y>>) = Fill(d, row, end, "a")
  BY <1>1, <1>2, <1>3, <1>4, <1>6, Zenon DEF clear_screen_from_cursor, clear_screen_to_cursor,
     clear_screen, clear_line_from_cursor, clear_line_to_cursor, clear_line
<1>8. Blank \in {Blank, "a"} /\ "a" \in {Blank, "a"} /\ 0 \in Nat
  OBVIOUS
<1>9. \A from \in Nat, to \in Nat, c \in {Blank, "a"} :
        Good(Fill(d, from, to, c)) /\ (NoFinal(d) => NoFinal(Fill(d, from, to, c)))
  BY FillLaw
<1>10. CASE e = d
  BY <1>10
<1>11. CASE e # d
  <2>1. \E from \in Nat, to \in Nat, c \in {Blank, "a"} : e = Fill(d, from, to, c)
    BY <1>5, <1>7, <1>8, <1>11, Zenon
  <2> QED BY <1>9, <2>1, Zenon
<1> QED BY <1>10, <1>11

\* handle_ansi_erase_sequence.
LEMMA EraseKeeps ==
    ASSUME Base, ~stream.plain, stream' = stream, NEW b, NEW params,
           handle_ansi_erase_sequence(b, params)
    PROVE  Base' /\ fault' = fault /\ (NoFinal(display) => NoFinal(display'))
<1>1. Good(display) /\ cursor \in Cursors /\ color \in ColorState
  BY DEF Base
<1>2. PICK x \in 0..W, y \in 0..(H - 1) : cursor.pos = <<x, y>>
  BY <1>1, CursorLaw
<1>3. PICK n : n = params[1]
  OBVIOUS
<1>4. PICK e : e =
          CASE b = "J" /\ n = 0 -> clear_screen_from_cursor(display, <<x, y>>)
            [] b = "J" /\ n = 1 -> clear_screen_to_cursor(display, <<x, y>>)
            [] b = "J" /\ n = 2 -> clear_screen(display)
            [] b = "K" /\ n = 0 -> clear_line_from_cursor(display, <<x, y>>)
            [] b = "K" /\ n = 1 -> clear_line_to_cursor(display, <<x, y>>)
            [] b = "K" /\ n = 2 -> clear_line(display, <<x, y>>)
            [] OTHER -> display
  OBVIOUS
<1>5. e \in {clear_screen_from_cursor(display, <<x, y>>), clear_screen_to_cursor(display, <<x, y>>),
             clear_screen(display), clear_line_from_cursor(display, <<x, y>>),
             clear_line_to_cursor(display, <<x, y>>), clear_line(display, <<x, y>>), display}
  BY <1>4, Zenon
<1>6. Good(e) /\ (NoFinal(display) => NoFinal(e))
  BY <1>1, <1>5, ErasedGood
<1>7. /\ IF b = "J" /\ n = 2 THEN position(e, <<0, 0>>) ELSE display' = e /\ UNCHANGED <<cursor, color, fault>>
      /\ text' = text
  BY <1>2, <1>3, <1>4, Zenon DEF handle_ansi_erase_sequence
<1>8. CASE b = "J" /\ n = 2
  <2>1. 0 \in 0..W /\ 0 \in 0..H /\ position(e, <<0, 0>>)
    BY <1>7, <1>8, Sizes
  <2> QED BY <1>6, <1>7, <2>1, PositionKeeps
<1>9. CASE ~(b = "J" /\ n = 2)
  <2>1. display' = e /\ cursor' = cursor /\ color' = color /\ fault' = fault
    BY <1>7, <1>9
  <2> QED BY <1>1, <1>6, <1>7, <2>1, KeepsBase
<1> QED BY <1>8, <1>9

\* Terminal::clear.
LEMMA ClearKeeps ==
    ASSUME Base, stream' = stream, clear
    PROVE  Base' /\ fault' = fault /\ (NoFinal(display) => NoFinal(display'))
<1>1. Good(display) /\ ~stream.plain /\ text' = text
  BY DEF Base, clear
<1>2. 0 \in 0..W /\ 0 \in 0..H /\ 0 \in 0..(H - 1) /\ position(clear_screen(display), <<0, 0>>)
  BY Sizes DEF clear
<1>3. PICK e : e = clear_screen(display)
  OBVIOUS
<1>4. Good(e) /\ (NoFinal(display) => NoFinal(e))
  BY <1>1, <1>2, <1>3, ErasedGood
<1> QED BY <1>1, <1>2, <1>3, <1>4, PositionKeeps

\* csi_dispatch.
LEMMA DispatchKeeps ==
    ASSUME Base, ~stream.plain, stream' = stream, NEW b, NEW params \in Seq(0..(U16 - 1)), params # <<>>,
           csi_dispatch(b, params)
    PROVE  Base' /\ fault' \in {fault, "overflow"} /\ (NoFinal(display) => NoFinal(display'))
<1>1. CASE b \in {"A", "B", "C", "D", "E", "F", "G", "H", "f", "n", "s", "u"}
  <2>1. handle_ansi_cursor_sequence(b, params)
    BY <1>1, Zenon DEF csi_dispatch
  <2> QED BY <2>1, CursorKeeps
<1>2. CASE b \in {"J", "K"}
  <2>1. handle_ansi_erase_sequence(b, params)
    BY <1>2, Zenon DEF csi_dispatch
  <2> QED BY <2>1, EraseKeeps
<1>3. CASE b = "m"
  <2>1. color' = handle_ansi_color(color, params) /\ UNCHANGED <<display, cursor, text, fault>>
    BY <1>3, Zenon DEF csi_dispatch
  <2>2. display' = display /\ cursor' = cursor /\ text' = text /\ fault' = fault
    BY <2>1
  <2>3. params \in Seq(Nat)
    BY WordParams
  <2>4. Good(display) /\ cursor \in Cursors /\ color \in ColorState
    BY DEF Base
  <2>5. color' \in ColorState
    BY <2>1, <2>3, <2>4, HandleColorLaw
  <2> QED BY <2>2, <2>4, <2>5, KeepsBase
<1>4. CASE b \notin {"A", "B", "C", "D", "E", "F", "G", "H", "f", "n", "s", "u", "J", "K", "m"}
  <2>1. UNCHANGED <<display, cursor, color, text, fault>>
    BY <1>4, Zenon DEF csi_dispatch
  <2>2. display' = display /\ cursor' = cursor /\ color' = color /\ text' = text /\ fault' = fault
    BY <2>1
  <2>3. Good(display) /\ cursor \in Cursors /\ color \in ColorState
    BY DEF Base
  <2> QED BY <2>2, <2>3, KeepsBase
<1> QED BY <1>1, <1>2, <1>3, <1>4, Zenon

-----------------------------------------------------------------------------
(* Writers. *)

\* What WriterInv says of each writer.
WriterOK(r, s) ==
    /\ DOMAIN r = {"on", "parser", "rest"}
    /\ r.on \in BOOLEAN /\ ParserOK(r.parser) /\ r.rest \in Seq(Item)
    /\ \A i \in DOMAIN r.rest : r.rest[i].byte = "CSI" => r.rest[i].params # <<>> /\ ~s.plain
    /\ s.plain => r.parser = Ground
    /\ s.whole => Complete(r.parser.mode, r.rest)

\* The parser outside of sequences ...
LEMMA GroundLaw ==
    /\ ParserOK(Ground) /\ Ground.mode = "ground"
    /\ \A p : ParserOK(p) /\ p.mode = "ground" => p = Ground
<1>1. Ground \in [mode : {"ground", "csi"}, params : Seq(0..(U16 - 1))]
  <2>1. PICK e : e = <<>>
    OBVIOUS
  <2>2. e \in Seq(0..(U16 - 1))
    BY <2>1
  <2> QED BY <2>1, <2>2 DEF Ground
<1>2. Ground.mode = "ground" /\ Ground.params = <<>>
  BY DEF Ground
<1>3. ASSUME NEW p, ParserOK(p), p.mode = "ground" PROVE p = Ground
  <2>1. p.params = <<>> /\ p = [mode |-> p.mode, params |-> p.params]
    BY <1>3 DEF ParserOK
  <2> QED BY <1>3, <2>1 DEF Ground
<1> QED BY <1>1, <1>2, <1>3 DEF ParserOK

\* ... and in one.
LEMMA CsiLaw ==
    ASSUME NEW params \in Seq(0..(U16 - 1)), params # <<>>
    PROVE  ParserOK(Csi(params)) /\ Csi(params).mode = "csi"
<1>1. Csi(params) \in [mode : {"ground", "csi"}, params : Seq(0..(U16 - 1))]
  BY DEF Csi
<1>2. Csi(params).mode = "csi" /\ Csi(params).params = params
  BY DEF Csi
<1> QED BY <1>1, <1>2 DEF ParserOK

\* Nothing is left to write: the parser is outside of sequences, ...
LEMMA CompleteEnd ==
    ASSUME NEW mode, Complete(mode, <<>>)
    PROVE  mode = "ground"
<1>1. Len(<<>>) = 0
  OBVIOUS
<1> QED BY <1>1, Zenon DEF Complete

\* ... and may be.
LEMMA EndComplete == Complete("ground", <<>>)
<1>1. PICK e : e = <<>>
  OBVIOUS
<1>2. Len(e) = 0
  BY <1>1
<1>3. PICK m : m = [i \in 0..0 |-> "ground"]
  OBVIOUS
<1>4. m \in [0..Len(e) -> {"ground", "csi"}] /\ m[0] = "ground" /\ m[Len(e)] = "ground"
  BY <1>2, <1>3
<1>5. \A i \in 1..Len(e) : FALSE
  BY <1>2
<1>6. Complete("ground", e)
  BY <1>4, <1>5, Zenon DEF Complete
<1> QED BY <1>1, <1>6

\* After a byte, what is left goes on from the parser's new mode; a final byte was
\* in a sequence.
LEMMA CompleteTail ==
    ASSUME NEW mode, NEW s \in Seq(Item), s # <<>>, Complete(mode, s)
    PROVE  /\ Complete(After(mode, s[1].byte), Tail(s))
           /\ s[1].byte \in Finals => mode = "csi"
<1>1. PICK m \in [0..Len(s) -> {"ground", "csi"}] :
        /\ m[0] = mode /\ m[Len(s)] = "ground"
        /\ \A i \in 1..Len(s) :
            /\ m[i] = After(m[i - 1], s[i].byte)
            /\ s[i].byte \in Finals => m[i - 1] = "csi"
  BY DEF Complete
<1>2. PICK n \in Nat : n = Len(s) - 1
  OBVIOUS
<1>3. Len(s) = n + 1
  BY <1>2
<1>4. PICK t \in Seq(Item) : t = Tail(s)
  OBVIOUS
<1>5. Len(t) = n /\ \A i \in 1..n : t[i] = s[i + 1]
  BY <1>2, <1>4
<1>6. PICK k : k = [i \in 0..n |-> m[i + 1]]
  OBVIOUS
<1>7. \A i \in 0..n : k[i] = m[i + 1] /\ k[i] \in {"ground", "csi"}
  BY <1>3, <1>6
<1>8. k \in [0..Len(t) -> {"ground", "csi"}]
  BY <1>5, <1>6, <1>7
<1>9. m[1] = After(mode, s[1].byte) /\ (s[1].byte \in Finals => mode = "csi")
  <2>1. 1 \in 1..Len(s) /\ 1 - 1 = 0
    BY <1>3
  <2> QED BY <1>1, <2>1
<1>10. k[0] = After(mode, s[1].byte) /\ k[Len(t)] = "ground"
  <2>1. k[0] = m[0 + 1] /\ k[n] = m[n + 1] /\ 0 + 1 = 1
    BY <1>7
  <2> QED BY <1>1, <1>3, <1>5, <1>9, <2>1
<1>11. ASSUME NEW i \in 1..Len(t)
       PROVE  k[i] = After(k[i - 1], t[i].byte) /\ (t[i].byte \in Finals => k[i - 1] = "csi")
  <2>1. i \in 1..n /\ i \in 0..n /\ i - 1 \in 0..n /\ i + 1 \in 1..Len(s) /\ (i - 1) + 1 = i
        /\ (i + 1) - 1 = i
    BY <1>3, <1>5
  <2>2. k[i] = m[i + 1] /\ k[i - 1] = m[i] /\ t[i] = s[i + 1]
    BY <1>5, <1>7, <2>1
  <2>3. m[i + 1] = After(m[i], s[i + 1].byte) /\ (s[i + 1].byte \in Finals => m[i] = "csi")
    BY <1>1, <2>1
  <2> QED BY <2>2, <2>3, Zenon
<1>12. Complete(After(mode, s[1].byte), t)
  BY <1>8, <1>10, <1>11, Zenon DEF Complete
<1> QED BY <1>4, <1>9, <1>12

\* WriterInv is made of these.
LEMMA SameWriter ==
    WriterInv <=>
        /\ stream \in Streams
        /\ DOMAIN writer = DOMAIN stream.writes
        /\ ParserOK(parser)
        /\ stream.plain \/ stream.whole => parser = Ground
        /\ \A w \in DOMAIN writer : WriterOK(writer[w], stream)
BY Zenon DEF WriterInv, WriterOK

\* It is kept when one writer changes.
LEMMA NewWriter ==
    ASSUME WriterInv, NEW w \in DOMAIN writer, NEW r, WriterOK(r, stream),
           writer' = [writer EXCEPT ![w] = r], stream' = stream,
           ParserOK(parser'), stream.plain \/ stream.whole => parser' = Ground
    PROVE  WriterInv'
<1>1. stream' \in Streams /\ DOMAIN writer' = DOMAIN stream'.writes /\ DOMAIN writer' = DOMAIN writer
  BY SameWriter
<1>2. \A v \in DOMAIN writer' : WriterOK(writer'[v], stream')
  <2>1. SUFFICES ASSUME NEW v \in DOMAIN writer PROVE WriterOK(writer'[v], stream)
    BY <1>1
  <2>2. WriterOK(writer[v], stream)
    BY SameWriter
  <2>3. writer'[v] = IF v = w THEN r ELSE writer[v]
    OBVIOUS
  <2> QED BY <2>2, <2>3
<1>3. ParserOK(parser') /\ (stream'.plain \/ stream'.whole => parser' = Ground)
  OBVIOUS
<1> QED BY <1>1, <1>2, <1>3, Zenon DEF WriterInv, WriterOK

\* What is assumed of the streams.
LEMMA StreamLaw ==
    ASSUME NEW s \in Streams
    PROVE  /\ s.plain \in BOOLEAN /\ s.whole \in BOOLEAN
           /\ \A w \in DOMAIN s.writes : \A string \in s.writes[w] :
                /\ string \in Seq(Item)
                /\ \A i \in DOMAIN string : string[i].byte = "CSI" => string[i].params # <<>> /\ ~s.plain
                /\ s.whole => Complete("ground", string)
BY TerminalAssumption, Zenon

\* A writer that does not write.
LEMMA IdleOK ==
    ASSUME NEW s
    PROVE  WriterOK(Idle, s)
<1>1. PICK e : e = <<>>
  OBVIOUS
<1>2. e \in Seq(Item) /\ \A i \in DOMAIN e : FALSE
  BY <1>1
<1>3. DOMAIN Idle = {"on", "parser", "rest"} /\ Idle.on = FALSE /\ Idle.parser = Ground /\ Idle.rest = e
  BY <1>1 DEF Idle
<1>4. Complete("ground", e)
  BY <1>1, EndComplete
<1> QED BY <1>2, <1>3, <1>4, GroundLaw, Zenon DEF WriterOK

-----------------------------------------------------------------------------
(* The invariant. *)

\* TerminalInv in terms of what the handlers keep.
TerminalKept ==
    /\ Base /\ WriterInv
    /\ visible \in BOOLEAN /\ fault \in {"none", "overflow"}
    /\ stream.whole => NoFinal(display)

\* It is the invariant.
LEMMA SameInv == TerminalInv <=> TerminalKept
<1>1. ASSUME TerminalInv PROVE TerminalKept
  <2>1. TypeOK /\ WriterInv /\ TextInv /\ NeverOutOfBuffer /\ ShownIsBuffered /\ NothingElseShown
        /\ TextShown /\ NoTornSequence
    BY <1>1 DEF TerminalInv
  <2>2. display \in Displays /\ cursor \in Cursors /\ color \in ColorState /\ visible \in BOOLEAN
        /\ fault \in {"none", "index", "overflow"}
    BY <2>1 DEF TypeOK, Displays, Cursors
  <2>3. Good(display)
    BY <2>1, <2>2, Same DEF Good
  <2>4. TextOK(text) /\ (stream.plain => TextAt(display, cursor.pos, text))
    BY <2>1, SameText
  <2>5. fault \in {"none", "overflow"}
    BY <2>1, <2>2 DEF NeverOutOfBuffer
  <2>6. stream.whole => NoFinal(display)
    BY <2>1 DEF NoTornSequence, NoFinal
  <2> QED BY <2>1, <2>2, <2>3, <2>4, <2>5, <2>6 DEF TerminalKept, Base
<1>2. ASSUME TerminalKept PROVE TerminalInv
  <2>1. /\ Base /\ WriterInv /\ visible \in BOOLEAN /\ fault \in {"none", "overflow"}
        /\ stream.whole => NoFinal(display)
    BY <1>2 DEF TerminalKept
  <2>2. /\ Good(display) /\ cursor \in Cursors /\ color \in ColorState /\ TextOK(text)
        /\ stream.plain => TextAt(display, cursor.pos, text)
    BY <2>1 DEF Base
  <2>3. ParserOK(parser) /\ (stream.whole => parser = Ground)
    BY <2>1 DEF WriterInv
  <2>4. parser.mode \in {"ground", "csi"}
    BY <2>3 DEF ParserOK
  <2>5. TypeOK
    BY <2>1, <2>2, <2>4 DEF TypeOK, Good, Displays, Cursors
  <2>6. ShownIsBuffered /\ NothingElseShown
    BY <2>2, Same DEF Good
  <2>7. TextInv /\ TextShown
    BY <2>2, SameText
  <2>8. NeverOutOfBuffer
    BY <2>1 DEF NeverOutOfBuffer
  <2>9. NoTornSequence
    BY <2>1, <2>3 DEF NoTornSequence, NoFinal
  <2> QED BY <2>1, <2>5, <2>6, <2>7, <2>8, <2>9 DEF TerminalInv
<1> QED BY <1>1, <1>2

\* It holds when the terminal is created.
LEMMA InitKeeps == Init => TerminalKept
<1>1. SUFFICES ASSUME Init PROVE TerminalKept
  OBVIOUS
<1>2. PICK cs : cs = [i \in Cells |-> Blank]
  OBVIOUS
<1>3. PICK bk : bk = [i \in Screen |-> Blank]
  OBVIOUS
<1>4. display = [cells |-> cs, back |-> bk, front |-> bk, stray |-> {}]
  BY <1>1, <1>2, <1>3, Zenon DEF Init
<1>5. display.cells = cs /\ display.back = bk /\ display.front = bk
  BY <1>4
<1>6. cs \in [Cells -> Char] /\ bk \in [Screen -> Char]
  BY <1>2, <1>3, CharLaw
<1>7. display \in Displays
  BY <1>4, <1>6 DEF Displays
<1>8. \A i \in Screen : display.cells[i] = Blank /\ display.back[i] = Blank /\ display.front[i] = Blank
  BY <1>2, <1>3, <1>5, ScreenSubset
<1>9. Good(display)
  BY <1>7, <1>8, Zenon DEF Good, Buffered, Painted
<1>10. NoFinal(display)
  BY <1>2, <1>5, CharLaw DEF NoFinal
<1>11. 0 \in 0..W /\ 0 \in 0..(H - 1) /\ 0 \in 0..(W - 1)
  BY Sizes
<1>12. cursor \in Cursors /\ cursor.pos = <<0, 0>>
  BY <1>1, <1>11 DEF Init, Cursors
<1>13. color \in ColorState
  BY <1>1, ColorNewLaw DEF Init
<1>14. PICK none : none = {}
  OBVIOUS
<1>15. text = [length |-> 0, col |-> 0, line |-> 0, page |-> none]
  BY <1>1, <1>14 DEF Init
<1>16. text.length = 0 /\ text.col = 0 /\ text.line = 0 /\ text.page = none
       /\ DOMAIN text = {"length", "col", "line", "page"}
  BY <1>15
<1>17. TextOK(text)
  BY <1>11, <1>14, <1>16 DEF TextOK
<1>18. Top(0) = 0
  BY MaxOfTwo, Sizes DEF Top
<1>19. Matches(display, 0, none)
  <2>1. SUFFICES ASSUME NEW x \in 0..(W - 1), NEW y \in 0..(H - 1), NEW b \in Marks
                 PROVE  display.back[Index(<<x, y>>)] # b
    BY <1>14, Zenon DEF Matches
  <2>2. x \in 0..W /\ x < W
    BY Sizes
  <2>3. Index(<<x, y>>) \in Screen
    BY <2>2, IndexLaw
  <2> QED BY <1>8, <2>3, CharLaw DEF Marks
<1>20. TextAt(display, cursor.pos, text)
  <2>1. text.line - Top(text.line) = 0
    BY <1>16, <1>18
  <2> QED BY <1>12, <1>16, <1>18, <1>19, <2>1, Zenon DEF TextAt
<1>21. WriterInv
  <2>1. stream \in Streams /\ parser = Ground /\ writer = [w \in DOMAIN stream.writes |-> Idle]
    BY <1>1 DEF Init
  <2>2. DOMAIN writer = DOMAIN stream.writes /\ \A w \in DOMAIN writer : WriterOK(writer[w], stream)
    BY <2>1, IdleOK, Zenon
  <2> QED BY <2>1, <2>2, GroundLaw, SameWriter
<1>22. visible \in BOOLEAN /\ fault \in {"none", "overflow"}
  BY <1>1 DEF Init
<1> QED BY <1>9, <1>10, <1>12, <1>13, <1>17, <1>20, <1>21, <1>22 DEF TerminalKept, Base

\* Steps that leave the display alone.
LEMMA QuietKeeps ==
    ASSUME TerminalKept, WriterInv', UNCHANGED <<display, cursor, color, visible, stream, text, fault>>
    PROVE  TerminalKept'
<1>1. /\ display' = display /\ cursor' = cursor /\ color' = color /\ visible' = visible
      /\ stream' = stream /\ text' = text /\ fault' = fault
  OBVIOUS
<1> QED BY <1>1, Zenon DEF TerminalKept, Base

\* A writer begins with a copy of the parser, ...
LEMMA WriteKeeps ==
    ASSUME TerminalKept, NEW w \in DOMAIN writer, NEW string \in stream.writes[w], write_str(w, string)
    PROVE  TerminalKept'
<1>1. WriterInv
  BY DEF TerminalKept
<1>2. PICK r : r = [on |-> TRUE, parser |-> parser, rest |-> string]
  OBVIOUS
<1>3. writer' = [writer EXCEPT ![w] = r] /\ UNCHANGED <<display, cursor, color, visible, parser, stream, text, fault>>
  BY <1>2 DEF write_str
<1>4. stream \in Streams /\ DOMAIN writer = DOMAIN stream.writes /\ ParserOK(parser)
      /\ (stream.plain \/ stream.whole => parser = Ground)
  BY <1>1, SameWriter
<1>5. /\ string \in Seq(Item)
      /\ \A i \in DOMAIN string : string[i].byte = "CSI" => string[i].params # <<>> /\ ~stream.plain
      /\ stream.whole => Complete("ground", string)
  BY <1>4, StreamLaw, Zenon
<1>6. DOMAIN r = {"on", "parser", "rest"} /\ r.on = TRUE /\ r.parser = parser /\ r.rest = string
  BY <1>2
<1>7. WriterOK(r, stream)
  BY <1>4, <1>5, <1>6, GroundLaw, Zenon DEF WriterOK
<1>8. parser' = parser /\ stream' = stream
  BY <1>3
<1>9. WriterInv'
  BY <1>1, <1>3, <1>4, <1>7, <1>8, NewWriter, Zenon
<1> QED BY <1>3, <1>9, QuietKeeps

\* ... and puts it back at the end.
LEMMA SwapKeeps ==
    ASSUME TerminalKept, NEW w \in DOMAIN writer, swap(w)
    PROVE  TerminalKept'
<1>1. WriterInv
  BY DEF TerminalKept
<1>2. /\ writer[w].rest = <<>> /\ parser' = writer[w].parser /\ writer' = [writer EXCEPT ![w] = Idle]
      /\ UNCHANGED <<display, cursor, color, visible, stream, text, fault>>
  BY DEF swap
<1>3. stream' = stream
  BY <1>2
<1>4. WriterOK(writer[w], stream)
  BY <1>1, SameWriter
<1>5. ParserOK(parser')
  BY <1>2, <1>4, Zenon DEF WriterOK
<1>6. ASSUME stream.whole PROVE parser' = Ground
  <2>1. Complete(parser'.mode, <<>>)
    BY <1>2, <1>4, <1>6, Zenon DEF WriterOK
  <2>2. parser'.mode = "ground"
    BY <2>1, CompleteEnd
  <2> QED BY <1>5, <2>2, GroundLaw
<1>7. stream.plain => parser' = Ground
  BY <1>2, <1>4, Zenon DEF WriterOK
<1>8. WriterInv'
  BY <1>1, <1>2, <1>3, <1>5, <1>6, <1>7, IdleOK, NewWriter
<1> QED BY <1>2, <1>8, QuietKeeps

\* The parser after a byte.
LEMMA ParsedLaw ==
    ASSUME NEW p, ParserOK(p), NEW b \in Item, b.byte = "CSI" => b.params # <<>>
    PROVE  /\ ParserOK(Parsed(p, b)) /\ Parsed(p, b).mode = After(p.mode, b.byte)
           /\ p = Ground /\ b.byte # "CSI" => Parsed(p, b) = Ground
<1>1. "CSI" \notin Controls /\ b.params \in Seq(0..(U16 - 1))
  BY DEF Item, Controls
<1>2. CASE b.byte = "CSI"
  <2>1. Parsed(p, b) = Csi(b.params)
    BY <1>1, <1>2, Zenon DEF Parsed
  <2> QED BY <1>1, <1>2, <2>1, CsiLaw DEF After
<1>3. CASE b.byte \in Controls
  <2>1. Parsed(p, b) = p /\ b.byte # "CSI"
    BY <1>1, <1>3, Zenon DEF Parsed
  <2> QED BY <1>3, <2>1, Zenon DEF After
<1>4. CASE b.byte # "CSI" /\ b.byte \notin Controls
  <2>1. Parsed(p, b) = Ground
    BY <1>4, Zenon DEF Parsed
  <2> QED BY <1>4, <2>1, GroundLaw, Zenon DEF After
<1> QED BY <1>2, <1>3, <1>4

\* The writer feeds a byte to its copy, and the terminal does what it says.
LEMMA AdvanceKeeps ==
    ASSUME TerminalKept, NEW w \in DOMAIN writer, advance(w)
    PROVE  TerminalKept'
<1>1. /\ Base /\ WriterInv /\ visible \in BOOLEAN /\ fault \in {"none", "overflow"}
      /\ stream.whole => NoFinal(display)
  BY DEF TerminalKept
<1>2. PICK s : s = writer[w].rest
  OBVIOUS
<1>3. PICK p : p = writer[w].parser
  OBVIOUS
<1>4. PICK b : b = Head(s)
  OBVIOUS
<1>5. /\ fault = "none" /\ s # <<>>
      /\ \/ b.byte = "CSI" /\ UNCHANGED <<display, cursor, color, text, fault>>
         \/ b.byte \in Controls /\ execute(b.byte)
         \/ b.byte \in Printable /\ p.mode = "ground" /\ print_char(b.byte)
         \/ b.byte \in Printable /\ p.mode = "csi" /\ csi_dispatch(b.byte, p.params)
      /\ UNCHANGED <<visible, parser, stream>>
  BY <1>2, <1>3, <1>4, Zenon DEF advance
<1>6. PICK r : r = [on |-> TRUE, parser |-> Parsed(p, b), rest |-> Tail(s)]
  OBVIOUS
<1>7. writer' = [writer EXCEPT ![w] = r]
  BY <1>2, <1>3, <1>4, <1>6 DEF advance
<1>8. WriterOK(writer[w], stream) /\ stream \in Streams /\ ParserOK(parser)
      /\ (stream.plain \/ stream.whole => parser = Ground)
  BY <1>1, SameWriter
<1>9. /\ DOMAIN writer[w] = {"on", "parser", "rest"} /\ writer[w].on \in BOOLEAN
      /\ ParserOK(p) /\ s \in Seq(Item)
      /\ \A i \in DOMAIN s : s[i].byte = "CSI" => s[i].params # <<>> /\ ~stream.plain
      /\ stream.plain => p = Ground
      /\ stream.whole => Complete(p.mode, s)
  BY <1>2, <1>3, <1>8, Zenon DEF WriterOK
<1>10. PICK t : t = Tail(s)
  OBVIOUS
<1>11. /\ 1 \in DOMAIN s /\ b = s[1] /\ b \in Item /\ t \in Seq(Item)
       /\ \A i \in DOMAIN t : i + 1 \in DOMAIN s /\ t[i] = s[i + 1]
  BY <1>4, <1>5, <1>9, <1>10
<1>12. b.byte = "CSI" => b.params # <<>> /\ ~stream.plain
  BY <1>9, <1>11, Zenon
<1>13. PICK q : q = Parsed(p, b)
  OBVIOUS
<1>14. ParserOK(q) /\ q.mode = After(p.mode, b.byte) /\ (p = Ground /\ b.byte # "CSI" => q = Ground)
  BY <1>9, <1>11, <1>12, <1>13, ParsedLaw
<1>15. r = [on |-> TRUE, parser |-> q, rest |-> t]
  BY <1>6, <1>10, <1>13, Zenon
<1>16. DOMAIN r = {"on", "parser", "rest"} /\ r.on = TRUE /\ r.rest = t /\ r.parser = q
  BY <1>9, <1>15
<1>17. WriterOK(r, stream)
  <2>1. \A i \in DOMAIN t : t[i].byte = "CSI" => t[i].params # <<>> /\ ~stream.plain
    BY <1>9, <1>11, Zenon
  <2>2. stream.plain => q = Ground
    BY <1>9, <1>12, <1>14
  <2>3. ASSUME stream.whole PROVE Complete(q.mode, t)
    <3>1. Complete(p.mode, s)
      BY <1>9, <2>3
    <3>2. Complete(After(p.mode, s[1].byte), Tail(s))
      BY <1>5, <1>9, <3>1, CompleteTail
    <3> QED BY <1>10, <1>11, <1>14, <3>2, Zenon
  <2> QED BY <1>9, <1>11, <1>14, <1>16, <2>1, <2>2, <2>3, Zenon DEF WriterOK
<1>18. visible' = visible /\ parser' = parser /\ stream' = stream
  BY <1>5
<1>19. WriterInv'
  BY <1>1, <1>7, <1>8, <1>17, <1>18, NewWriter, Zenon
<1>20. /\ Base' /\ fault' \in {fault, "overflow"}
       /\ stream.whole /\ NoFinal(display) => NoFinal(display')
  <2>1. CASE b.byte = "CSI" /\ UNCHANGED <<display, cursor, color, text, fault>>
    <3>1. display' = display /\ cursor' = cursor /\ color' = color /\ text' = text /\ fault' = fault
      BY <2>1
    <3> QED BY <1>1, <1>18, <3>1, Zenon DEF Base
  <2>2. CASE b.byte \in Controls /\ execute(b.byte)
    BY <1>1, <1>18, <2>2, ExecuteKeeps
  <2>3. CASE b.byte \in Printable /\ p.mode = "ground" /\ print_char(b.byte)
    <3>1. b.byte \in Printable \cup {"LF"}
      BY <2>3
    <3>2. Base' /\ fault' = fault /\ (NoFinal(display) /\ b.byte \notin Finals => NoFinal(display'))
      BY <1>1, <1>18, <2>3, <3>1, PrintKeeps
    <3>3. ASSUME stream.whole PROVE b.byte \notin Finals
      <4>1. Complete(p.mode, s)
        BY <1>9, <3>3
      <4>2. s[1].byte \in Finals => p.mode = "csi"
        BY <1>5, <1>9, <4>1, CompleteTail
      <4> QED BY <1>11, <2>3, <4>2
    <3> QED BY <3>2, <3>3
  <2>4. CASE b.byte \in Printable /\ p.mode = "csi" /\ csi_dispatch(b.byte, p.params)
    <3>1. p.params \in Seq(0..(U16 - 1)) /\ p.params # <<>>
      BY <1>9, <2>4 DEF ParserOK
    <3>2. ~stream.plain
      BY <1>9, <2>4, GroundLaw
    <3> QED BY <1>1, <1>18, <2>4, <3>1, <3>2, DispatchKeeps
  <2> QED BY <1>5, <2>1, <2>2, <2>3, <2>4
<1>21. fault' \in {"none", "overflow"}
  BY <1>1, <1>20
<1> QED BY <1>1, <1>18, <1>19, <1>20, <1>21 DEF TerminalKept

\* The cursor thread.
LEMMA BlinkKeeps ==
    ASSUME TerminalKept, Blink
    PROVE  TerminalKept'
<1>1. /\ Base /\ WriterInv /\ visible \in BOOLEAN /\ fault \in {"none", "overflow"}
      /\ stream.whole => NoFinal(display)
  BY DEF TerminalKept
<1>2. Good(display) /\ cursor \in Cursors
  BY <1>1 DEF Base
<1>3. PICK x \in 0..W, y \in 0..(H - 1) : cursor.pos = <<x, y>> /\ cursor.pos[1] = x /\ cursor.pos[2] = y
  BY <1>2, CursorLaw
<1>4. PICK k : k = Index(<<x, y>>)
  OBVIOUS
<1>5. k \in Cells /\ (x < W => k \in Screen)
  BY <1>4, IndexLaw
<1>6. PICK c : c = IF visible THEN display.cells[k] ELSE CURSOR
  OBVIOUS
<1>7. PICK fr : fr = draw_char(display.front, <<x, y>>, c)
  OBVIOUS
<1>8. /\ display' = [display EXCEPT !.front = fr]
      /\ visible' = ~visible /\ UNCHANGED <<cursor, color, text, fault>> /\ UNCHANGED <<parser, writer, stream>>
  BY <1>3, <1>4, <1>5, <1>6, <1>7, Zenon DEF Blink
<1>9. /\ cursor' = cursor /\ color' = color /\ text' = text /\ fault' = fault
      /\ parser' = parser /\ writer' = writer /\ stream' = stream
  BY <1>8
<1>10. display \in Displays /\ Buffered(display) /\ Painted(display)
  BY <1>2 DEF Good
<1>11. /\ display.cells \in [Cells -> Char] /\ display.back \in [Screen -> Char]
       /\ display.front \in [Screen -> Char]
  BY <1>10 DEF Displays
<1>12. c \in Char
  BY <1>5, <1>6, <1>11, CharLaw
<1>13. fr = IF x < W THEN [display.front EXCEPT ![k] = c] ELSE display.front
  <2>1. <<x, y>>[1] = x /\ <<x, y>>[2] = y /\ y < H
    BY Sizes
  <2> QED BY <1>4, <1>7, <2>1, Zenon DEF draw_char
<1>14. fr \in [Screen -> Char]
  BY <1>5, <1>11, <1>12, <1>13
<1>15. display' = [cells |-> display.cells, back |-> display.back, front |-> fr,
                   stray |-> display.stray]
  BY <1>8, <1>10 DEF Displays
<1>16. /\ display'.cells = display.cells /\ display'.back = display.back /\ display'.front = fr
       /\ display'.stray = display.stray
  BY <1>15
<1>17. display' \in Displays
  BY <1>10, <1>11, <1>14, <1>15 DEF Displays
<1>18. Buffered(display')
  BY <1>10, <1>16, Zenon DEF Buffered
<1>19. Painted(display')
  <2>1. SUFFICES ASSUME NEW i \in Screen \ display.stray
                 PROVE  fr[i] \in {display.back[i], display.cells[i], CURSOR}
    BY <1>16, Zenon DEF Painted
  <2>2. display.front[i] \in {display.back[i], display.cells[i], CURSOR}
    BY <1>10, <2>1, Zenon DEF Painted
  <2>3. fr[i] = display.front[i] \/ (i = k /\ fr[i] = c)
    BY <1>11, <1>13
  <2> QED BY <1>6, <2>2, <2>3, Zenon
<1>20. Good(display')
  BY <1>17, <1>18, <1>19 DEF Good
<1>21. NoFinal(display) => NoFinal(display')
  BY <1>16, Zenon DEF NoFinal
<1>22. ASSUME NEW pos, NEW t, TextAt(display, pos, t) PROVE TextAt(display', pos, t)
  <2>1. display'.back = display.back
    BY <1>16
  <2>2. ASSUME NEW top, NEW page, Matches(display, top, page) PROVE Matches(display', top, page)
    BY <2>1, <2>2, Zenon DEF Matches
  <2> QED BY <1>22, <2>2, Zenon DEF TextAt
<1>23. Base'
  BY <1>1, <1>9, <1>20, <1>22, Zenon DEF Base
<1>24. WriterInv'
  BY <1>1, <1>9, Zenon DEF WriterInv
<1>25. visible' \in BOOLEAN
  BY <1>8
<1> QED BY <1>1, <1>9, <1>21, <1>23, <1>24, <1>25 DEF TerminalKept

\* Clearing the terminal.
LEMMA ClearStepKeeps ==
    ASSUME TerminalKept, Clear
    PROVE  TerminalKept'
<1>1. /\ Base /\ WriterInv /\ visible \in BOOLEAN /\ fault \in {"none", "overflow"}
      /\ stream.whole => NoFinal(display)
  BY DEF TerminalKept
<1>2. clear /\ visible' = visible /\ parser' = parser /\ writer' = writer /\ stream' = stream
  BY DEF Clear
<1>3. Base' /\ fault' = fault /\ (NoFinal(display) => NoFinal(display'))
  BY <1>1, <1>2, ClearKeeps
<1>4. WriterInv'
  BY <1>1, <1>2, Zenon DEF WriterInv
<1> QED BY <1>1, <1>2, <1>3, <1>4 DEF TerminalKept

\* Every step keeps the invariant.
LEMMA NextKeeps == TerminalKept /\ [Next]_vars => TerminalKept'
<1>1. SUFFICES ASSUME TerminalKept, [Next]_vars PROVE TerminalKept'
  OBVIOUS
<1>2. CASE \E w \in DOMAIN writer : \E string \in stream.writes[w] : write_str(w, string)
  BY <1>1, <1>2, WriteKeeps
<1>3. CASE \E w \in DOMAIN writer : advance(w)
  BY <1>1, <1>3, AdvanceKeeps
<1>4. CASE \E w \in DOMAIN writer : swap(w)
  BY <1>1, <1>4, SwapKeeps
<1>5. CASE Blink
  BY <1>1, <1>5, BlinkKeeps
<1>6. CASE Clear
  BY <1>1, <1>6, ClearStepKeeps
<1>7. CASE UNCHANGED vars
  <2>1. /\ display' = display /\ cursor' = cursor /\ color' = color /\ visible' = visible
        /\ parser' = parser /\ writer' = writer /\ stream' = stream /\ text' = text /\ fault' = fault
    BY <1>7 DEF vars
  <2> QED BY <1>1, <2>1, Zenon DEF TerminalKept, Base, WriterInv
<1> QED BY <1>1, <1>2, <1>3, <1>4, <1>5, <1>6, <1>7, Zenon DEF Next, Halted

-----------------------------------------------------------------------------
(* The theorems. *)

\* TerminalInv is an invariant.
THEOREM TerminalInvariant == Spec => []TerminalInv
<1>1. Spec => []TerminalKept
  BY InitKeeps, NextKeeps, PTL DEF Spec
<1> QED BY <1>1, SameInv, PTL

\* Every variable has its type; the cursor is never below the screen or more than
\* one column to the right of it, whatever tabs, movements, restored positions and
\* scrolling have made of it.
THEOREM TypeCorrect == Spec => []TypeOK
<1>1. TerminalInv => TypeOK
  BY DEF TerminalInv
<1> QED BY <1>1, TerminalInvariant, PTL

\* print_char and the cursor thread never index char_buffer out of bounds, on a
\* screen of any size.
THEOREM IndexSafe == Spec => []NeverOutOfBuffer
<1>1. TerminalInv => NeverOutOfBuffer
  BY DEF TerminalInv
<1> QED BY <1>1, TerminalInvariant, PTL

\* The character buffer and the screen agree in every cell, but for those that hold
\* clear_line's 'a' or a character printed next to the screen, for every screen and
\* whatever is written.
THEOREM BufferShown == Spec => []ShownIsBuffered
<1>1. TerminalInv => ShownIsBuffered
  BY DEF TerminalInv
<1> QED BY <1>1, TerminalInvariant, PTL

\* The frame buffer shows nothing but the buffered text and the cursor, in every cell
\* that holds no character printed next to the screen.
THEOREM OnlyTextShown == Spec => []NothingElseShown
<1>1. TerminalInv => NothingElseShown
  BY DEF TerminalInv
<1> QED BY <1>1, TerminalInvariant, PTL

\* The screen shows the last H lines of a text of any length, laid out by a
\* screen of any size with tabs of any width, and the cursor stands at its end.
THEOREM LastLinesShown == Spec => []TextShown
<1>1. TerminalInv => TextShown
  BY DEF TerminalInv
<1> QED BY <1>1, TerminalInvariant, PTL

\* Whatever whole strings any number of writers write at the same time, no final
\* byte of an escape sequence is printed.
THEOREM SequencesWhole == Spec => []NoTornSequence
<1>1. TerminalInv => NoTornSequence
  BY DEF TerminalInv
<1> QED BY <1>1, TerminalInvariant, PTL

\* The parameters of colour sequences are numbers.
LEMMA SgrLaw ==
    ASSUME stream \in Streams
    PROVE  SgrParams \subseteq Seq(Nat)
<1>1. SUFFICES ASSUME NEW t, t \in UNION Range(stream.writes), Len(t) = 2
               PROVE  t[1].params \in Seq(Nat)
  BY Zenon DEF SgrParams
<1>2. PICK w \in DOMAIN stream.writes : t \in stream.writes[w]
  BY <1>1, Zenon DEF Range
<1>3. t \in Seq(Item)
  BY <1>2, StreamLaw, Zenon
<1>4. t[1] \in Item
  <2>1. \A i \in 1..Len(t) : t[i] \in Item
    BY <1>3, SubSequences
  <2>2. 1 \in 1..Len(t)
    BY <1>1
  <2> QED BY <2>1, <2>2, Zenon
<1>5. t[1].params \in Seq(0..(U16 - 1))
  BY <1>4 DEF Item
<1> QED BY <1>5, WordParams

\* handle_ansi_color takes a sequence with two lists of parameters for the two
\* sequences one after the other, for all lists and in every state of the colours.
THEOREM ColorsCompose == Spec => []SequencesCompose
<1>1. TerminalInv => SequencesCompose
  <2>1. SUFFICES ASSUME TerminalInv, NEW p \in SgrParams, NEW q \in SgrParams,
                        Consume(color, p).want = "code"
                 PROVE  handle_ansi_color(color, p \o q) = handle_ansi_color(handle_ansi_color(color, p), q)
    BY Zenon DEF SequencesCompose
  <2>2. stream \in Streams /\ color \in ColorState
    BY <2>1 DEF TerminalInv, WriterInv, TypeOK
  <2>3. p \in Seq(Nat) /\ q \in Seq(Nat)
    BY <2>2, SgrLaw
  <2> QED BY <2>1, <2>2, <2>3, ComposeLaw
<1> QED BY <1>1, TerminalInvariant, PTL

\* The first 8 entries of COLOR_TABLE_256 look like the colours chosen by number in every
\* state that is reached, the next 8 in those with neither bright nor invert on.
THEOREM TableAgrees == Spec => []TableMatchesAnsi
<1>1. TerminalInv => TableMatchesAnsi
  <2>1. SUFFICES ASSUME TerminalInv, NEW n \in 0..7
                 PROVE  /\ handle_ansi_color(color, <<38, 5, n>>).fg_color =
                             handle_ansi_color(color, <<30 + n>>).fg_color
                        /\ ~color.bright /\ ~color.invert =>
                             handle_ansi_color(color, <<38, 5, 8 + n>>).fg_color =
                             handle_ansi_color(color, <<90 + n>>).fg_color
    BY Zenon DEF TableMatchesAnsi
  <2>2. color \in ColorState
    BY <2>1 DEF TerminalInv, TypeOK
  <2> QED BY <2>1, <2>2, TableIsAnsi
<1> QED BY <1>1, TerminalInvariant, PTL

\* A pixel keeps the high bits of every colour, in each of the formats.
THEOREM PixelsFaithful == Spec => []PixelKeepsColor
<1>1. TerminalInv => PixelKeepsColor
  <2>1. SUFFICES ASSUME TerminalInv
                 PROVE  \A c \in {color.fg_color, color.bg_color} :
                          FromPixel32(Pixel32(c)) = c /\ \A bpp \in {15, 16, 24} : PixelKeeps(c, bpp)
    BY Zenon DEF PixelKeepsColor, PixelKeeps
  <2>2. color \in ColorState
    BY <2>1 DEF TerminalInv, TypeOK
  <2>3. color.fg_color \in Color /\ color.bg_color \in Color
    BY <2>2 DEF ColorState
  <2>4. \A c \in Color : FromPixel32(Pixel32(c)) = c
    BY PixelLaw32
  <2>5. \A c \in Color : PixelKeeps(c, 15) /\ PixelKeeps(c, 16) /\ PixelKeeps(c, 24)
    BY PixelLaw15, PixelLaw16, PixelLaw24
  <2> QED BY <2>3, <2>4, <2>5, Zenon
<1> QED BY <1>1, TerminalInvariant, PTL
=============================================================================
