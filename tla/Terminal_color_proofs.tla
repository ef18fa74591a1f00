----------------------- MODULE Terminal_color_proofs -----------------------
(***************************************************************************)
(* Colours of the terminal, for all parameters and in every state: codes   *)
(* leave a state of the colours, sequences may be joined, the table agrees *)
(* with the 4-bit colours, and pixels keep the high bits of a colour.      *)
(*                                                                         *)
(* The loop over the parameters is a recursive function.  That it exists   *)
(* and what it keeps is shown by induction over a set of numbers.          *)
(***************************************************************************)
EXTENDS Terminal, WellFoundedInduction, TLAPS

-----------------------------------------------------------------------------
(* Numbers. *)

\* Induction over the natural numbers, from the least counterexample.
LEMMA Induction ==
    ASSUME NEW D \in SUBSET Nat, 0 \in D, \A n \in D : n + 1 \in D
    PROVE  D = Nat
<1> DEFINE R == {ss \in Nat \X Nat : ss[1] < ss[2]}
<1>1. IsWellFoundedOn(R, Nat)
  BY NatLessThanWellFounded DEF OpToRel
<1>2. \A x, y \in Nat : y < x => <<y, x>> \in R
  OBVIOUS
<1> HIDE DEF R
<1>3. SUFFICES ASSUME Nat \ D # {} PROVE FALSE
  OBVIOUS
<1>4. PICK x \in Nat \ D : \A y \in Nat \ D : ~(<<y, x>> \in R)
  BY <1>1, <1>3, WFMin
<1>5. x \in Nat /\ x # 0 /\ x - 1 \in Nat /\ x - 1 < x
  BY <1>4
<1>6. x - 1 \in D
  BY <1>2, <1>4, <1>5
<1>7. (x - 1) + 1 \in D /\ (x - 1) + 1 = x
  BY <1>5, <1>6
<1> QED BY <1>4, <1>7

\* The larger ...
LEMMA MaxOfTwo ==
    ASSUME NEW a \in Int, NEW b \in Int
    PROVE  Max({a, b}) = IF a >= b THEN a ELSE b
<1>1. PICK k : k = Max({a, b})
  OBVIOUS
<1>2. \E x \in {a, b} : \A y \in {a, b} : x >= y
  BY SMT
<1>3. k \in {a, b} /\ \A y \in {a, b} : k >= y
  BY <1>1, <1>2 DEF Max
<1>4. k = IF a >= b THEN a ELSE b
  BY <1>3
<1> QED BY <1>1, <1>4

\* ... and the smaller of two numbers.
LEMMA MinOfTwo ==
    ASSUME NEW a \in Int, NEW b \in Int
    PROVE  Min({a, b}) = IF a <= b THEN a ELSE b
<1>1. PICK k : k = Min({a, b})
  OBVIOUS
<1>2. \E x \in {a, b} : \A y \in {a, b} : x =< y
  BY SMT
<1>3. k \in {a, b} /\ \A y \in {a, b} : k =< y
  BY <1>1, <1>2 DEF Min
<1>4. k = IF a <= b THEN a ELSE b
  BY <1>3
<1> QED BY <1>1, <1>4

-----------------------------------------------------------------------------
(* Colours. *)

\* Colours are made of ...
LEMMA RgbaLaw ==
    ASSUME NEW r \in Byte, NEW g \in Byte, NEW b \in Byte, NEW a \in Byte
    PROVE  Rgba(r, g, b, a) \in Color
BY DEF Rgba, Color

\* ... and determined by their channels.
LEMMA ColorLaw ==
    ASSUME NEW c \in Color
    PROVE  /\ c.red \in Byte /\ c.green \in Byte /\ c.blue \in Byte /\ c.alpha \in Byte
           /\ c = Rgba(c.red, c.green, c.blue, c.alpha)
BY DEF Rgba, Color

\* The 4-bit colours are colours.
LEMMA AnsiLaw == AnsiColors \in [0..7 -> Color]
<1>1. ASSUME NEW n \in 0..7
      PROVE  Rgba(170 * (n % 2), 170 * ((n \div 2) % 2), 170 * (n \div 4), 255) \in Color
  <2>1. 170 * (n % 2) \in Byte /\ 170 * ((n \div 2) % 2) \in Byte /\ 170 * (n \div 4) \in Byte
        /\ 255 \in Byte
    BY DEF Byte
  <2> QED BY <2>1, RgbaLaw
<1> QED BY <1>1 DEF AnsiColors

\* So are the two of ColorState::new.
LEMMA BlackWhite == BLACK \in Color /\ WHITE \in Color
BY AnsiLaw DEF BLACK, WHITE

\* The channels of bright and dim: u8::saturating arithmetic.
LEMMA BrightLaw ==
    ASSUME NEW c \in Color
    PROVE  bright(c) \in Color /\ dim(c) \in Color
<1> DEFINE Up(x) == Min({x + BRIGHTNESS_SHIFT, 255})
           Down(x) == Max({x - BRIGHTNESS_SHIFT, 0})
<1>1. ASSUME NEW x \in Byte
      PROVE  Up(x) \in Byte /\ Down(x) \in Byte
  <2>1. x \in Int /\ x + BRIGHTNESS_SHIFT \in Int /\ x - BRIGHTNESS_SHIFT \in Int
    BY DEF Byte, BRIGHTNESS_SHIFT
  <2>2. Up(x) = IF x + BRIGHTNESS_SHIFT <= 255 THEN x + BRIGHTNESS_SHIFT ELSE 255
    BY <2>1, MinOfTwo
  <2>3. Down(x) = IF x - BRIGHTNESS_SHIFT >= 0 THEN x - BRIGHTNESS_SHIFT ELSE 0
    BY <2>1, MaxOfTwo
  <2> HIDE DEF Up, Down
  <2> QED BY <2>2, <2>3 DEF Byte, BRIGHTNESS_SHIFT
<1>2. /\ bright(c) = Rgba(Up(c.red), Up(c.green), Up(c.blue), c.alpha)
      /\ dim(c) = Rgba(Down(c.red), Down(c.green), Down(c.blue), c.alpha)
  BY DEF bright, dim, EachChannel
<1> HIDE DEF Up, Down
<1>3. c.red \in Byte /\ c.green \in Byte /\ c.blue \in Byte /\ c.alpha \in Byte
  BY ColorLaw
<1> QED BY <1>1, <1>2, <1>3, RgbaLaw

\* Every entry of COLOR_TABLE_256 is a colour.
LEMMA TableLaw ==
    ASSUME NEW i \in 0..255
    PROVE  COLOR_TABLE_256(i) \in Color
<1>1. CASE i \in 0..15
  <2>1. i < 8 => AnsiColors[i] \in Color
    BY <1>1, AnsiLaw
  <2>2. ~(i < 8) => bright(AnsiColors[i - 8]) \in Color
    <3>1. ~(i < 8) => i - 8 \in 0..7
      BY <1>1
    <3> QED BY <3>1, AnsiLaw, BrightLaw
  <2>3. Predefined(i) \in Color
    BY <2>1, <2>2 DEF Predefined
  <2>4. COLOR_TABLE_256(i) = Predefined(i)
    BY <1>1 DEF COLOR_TABLE_256
  <2> QED BY <2>3, <2>4
<1>2. CASE i \in 16..231
  <2> DEFINE level(k) == IF k = 0 THEN 0 ELSE 55 + 40 * k
  <2>1. ASSUME NEW k \in 0..5 PROVE level(k) \in Byte
    BY DEF Byte
  <2>2. (i - 16) \div 36 \in 0..5 /\ ((i - 16) \div 6) % 6 \in 0..5 /\ (i - 16) % 6 \in 0..5
    BY <1>2
  <2>3. Cube(i - 16) = Rgba(level((i - 16) \div 36), level(((i - 16) \div 6) % 6), level((i - 16) % 6), 255)
    BY DEF Cube
  <2>4. COLOR_TABLE_256(i) = Cube(i - 16)
    BY <1>2 DEF COLOR_TABLE_256
  <2> HIDE DEF level
  <2>5. level((i - 16) \div 36) \in Byte /\ level(((i - 16) \div 6) % 6) \in Byte
        /\ level((i - 16) % 6) \in Byte /\ 255 \in Byte
    BY <2>1, <2>2 DEF Byte
  <2> QED BY <2>3, <2>4, <2>5, RgbaLaw
<1>3. CASE i \in 232..255
  <2>1. 8 + 10 * (i - 232) \in Byte /\ 255 \in Byte
    BY <1>3 DEF Byte
  <2>2. COLOR_TABLE_256(i) = Grey(i - 232)
    BY <1>3 DEF COLOR_TABLE_256
  <2> QED BY <2>1, <2>2, RgbaLaw DEF Grey
<1> QED BY <1>1, <1>2, <1>3
-----------------------------------------------------------------------------
(* The loop over the parameters of a colour sequence. *)

\* The state of the loop, except for the parts that do not matter.
Acc == [color : ColorState, want : {"code", "mode", "index", "red", "green", "blue"},
        layer : {"fg", "bg"}, rgb : Seq(Byte)]

\* Between two parameters, as many channels are known as were read.
AccOK(a) ==
    /\ a \in Acc
    /\ a.want = "green" => Len(a.rgb) = 1
    /\ a.want = "blue" => Len(a.rgb) = 2

\* The colours the terminal starts with.
LEMMA ColorNewLaw == ColorNew \in ColorState
BY BlackWhite DEF ColorNew, ColorState

\* Each kind of code leaves a state of the colours: renditions, ...
LEMMA RenditionLaw ==
    ASSUME NEW c \in ColorState, NEW n \in Nat
    PROVE  handle_ansi_graphic_rendition(c, n) \in ColorState
<1> DEFINE new == handle_ansi_graphic_rendition(c, n)
<1>1. \/ new = ColorNew \/ new = c
      \/ new = [c EXCEPT !.bright = TRUE] \/ new = [c EXCEPT !.dim = TRUE]
      \/ new = [c EXCEPT !.invert = TRUE] \/ new = [[c EXCEPT !.bright = FALSE] EXCEPT !.dim = FALSE]
      \/ new = [c EXCEPT !.invert = FALSE]
  BY DEF handle_ansi_graphic_rendition
<1>2. ASSUME NEW d \in ColorState, NEW b \in BOOLEAN
      PROVE  /\ [d EXCEPT !.bright = b] \in ColorState /\ [d EXCEPT !.dim = b] \in ColorState
             /\ [d EXCEPT !.invert = b] \in ColorState
  BY DEF ColorState
<1>3. [[c EXCEPT !.bright = FALSE] EXCEPT !.dim = FALSE] \in ColorState
  BY <1>2
<1> QED BY <1>1, <1>2, <1>3, ColorNewLaw

\* ... base colours, ...
LEMMA SetBaseLaw ==
    ASSUME NEW c \in ColorState, NEW layer, NEW col \in Color, NEW b \in BOOLEAN
    PROVE  SetBase(c, layer, col, b) \in ColorState
BY DEF SetBase, ColorState

\* ... within the loop, ...
LEMMA SetColorLaw ==
    ASSUME NEW a, AccOK(a), a.want = "code", NEW c \in ColorState
    PROVE  AccOK([a EXCEPT !.color = c])
<1>1. a \in Acc
  BY DEF AccOK
<1>2. [a EXCEPT !.color = c] \in Acc
  BY <1>1 DEF Acc
<1>3. [a EXCEPT !.color = c].want = "code"
  BY <1>1 DEF Acc
<1> QED BY <1>2, <1>3 DEF AccOK

\* ... the digits of a plain colour, ...
LEMMA AnsiColorLaw ==
    ASSUME NEW a, AccOK(a), a.want = "code", NEW layer \in {"fg", "bg"},
           NEW d \in 0..9, NEW b \in BOOLEAN
    PROVE  AccOK(ansi_color(a, layer, d, b))
<1> DEFINE new == ansi_color(a, layer, d, b)
<1>1. a \in Acc /\ a.color \in ColorState
  BY DEF AccOK, Acc
<1>2. CASE d \in 0..7
  <2>1. PICK col : col = SetBase(a.color, layer, AnsiColors[d], b)
    OBVIOUS
  <2>2. col \in ColorState
    BY <1>1, <1>2, <2>1, AnsiLaw, SetBaseLaw
  <2>3. new = [a EXCEPT !.color = col]
    BY <1>2, <2>1 DEF ansi_color
  <2> QED BY <2>2, <2>3, SetColorLaw
<1>3. CASE d = 8
  <2>1. new = [a EXCEPT !.want = "mode", !.layer = layer]
    BY <1>3 DEF ansi_color
  <2>2. [a EXCEPT !.want = "mode", !.layer = layer] \in Acc
    BY <1>1 DEF Acc
  <2>3. [a EXCEPT !.want = "mode", !.layer = layer].want = "mode"
    BY <1>1 DEF Acc
  <2> QED BY <2>1, <2>2, <2>3 DEF AccOK
<1>4. CASE d = 9
  <2>1. PICK col : col = SetBase(a.color, layer, WHITE, b)
    OBVIOUS
  <2>2. col \in ColorState
    BY <1>1, <2>1, BlackWhite, SetBaseLaw
  <2>3. new = [a EXCEPT !.color = col]
    BY <1>4, <2>1 DEF ansi_color
  <2> QED BY <2>2, <2>3, SetColorLaw
<1> QED BY <1>2, <1>3, <1>4

\* The ranges of codes are disjoint.
LEMMA CodeRanges ==
    ASSUME NEW n \in Nat
    PROVE  /\ n \in 30..39 => n \notin 0..29
           /\ n \in 40..49 => n \notin 0..29 /\ n \notin 30..39
           /\ n \in 90..97 => n \notin 0..29 /\ n \notin 30..39 /\ n \notin 40..49
           /\ n \in 100..107 => n \notin 0..29 /\ n \notin 30..39 /\ n \notin 40..49 /\ n \notin 90..97
OBVIOUS

\* What Code does with a number, whatever the state of the loop.
LEMMA CodeCases ==
    ASSUME NEW n \in Nat
    PROVE  \/ \A a : Code(a, n) = [a EXCEPT !.color = handle_ansi_graphic_rendition(@, n)]
           \/ \E layer \in {"fg", "bg"}, d \in 0..9, b \in BOOLEAN :
                \A a : Code(a, n) = ansi_color(a, layer, d, b)
           \/ \A a : Code(a, n) = a
<1>1. CASE n \in 0..29
  <2>1. \A a : Code(a, n) = [a EXCEPT !.color = handle_ansi_graphic_rendition(@, n)]
    BY <1>1, CodeRanges, Zenon DEF Code
  <2> QED BY <2>1
<1>2. CASE n \in 30..39
  <2>1. n - 30 \in 0..9
    BY <1>2
  <2>2. \A a : Code(a, n) = ansi_color(a, "fg", n - 30, FALSE)
    BY <1>2, CodeRanges, Zenon DEF Code
  <2> QED BY <2>1, <2>2, Zenon
<1>3. CASE n \in 40..49
  <2>1. n - 40 \in 0..9
    BY <1>3
  <2>2. \A a : Code(a, n) = ansi_color(a, "bg", n - 40, FALSE)
    BY <1>3, CodeRanges, Zenon DEF Code
  <2> QED BY <2>1, <2>2, Zenon
<1>4. CASE n \in 90..97
  <2>1. n - 90 \in 0..9
    BY <1>4
  <2>2. \A a : Code(a, n) = ansi_color(a, "fg", n - 90, TRUE)
    BY <1>4, CodeRanges, Zenon DEF Code
  <2> QED BY <2>1, <2>2, Zenon
<1>5. CASE n \in 100..107
  <2>1. n - 100 \in 0..9
    BY <1>5
  <2>2. \A a : Code(a, n) = ansi_color(a, "bg", n - 100, TRUE)
    BY <1>5, CodeRanges, Zenon DEF Code
  <2> QED BY <2>1, <2>2, Zenon
<1>6. CASE n \notin (0..29) \cup (30..39) \cup (40..49) \cup (90..97) \cup (100..107)
  <2>1. \A a : Code(a, n) = a
    BY <1>6, Zenon DEF Code
  <2> QED BY <2>1
<1> QED BY <1>1, <1>2, <1>3, <1>4, <1>5, <1>6

\* ... any code, ...
LEMMA CodeLaw ==
    ASSUME NEW a, AccOK(a), a.want = "code", NEW n \in Nat
    PROVE  AccOK(Code(a, n))
<1>1. a \in Acc /\ a.color \in ColorState
  BY DEF AccOK, Acc
<1>2. CASE \A x : Code(x, n) = [x EXCEPT !.color = handle_ansi_graphic_rendition(@, n)]
  <2>1. PICK col : col = handle_ansi_graphic_rendition(a.color, n)
    OBVIOUS
  <2>2. col \in ColorState
    BY <1>1, <2>1, RenditionLaw
  <2>3. Code(a, n) = [a EXCEPT !.color = col]
    BY <1>2, <2>1
  <2> QED BY <2>2, <2>3, SetColorLaw
<1>3. CASE \E layer \in {"fg", "bg"}, d \in 0..9, b \in BOOLEAN :
             \A x : Code(x, n) = ansi_color(x, layer, d, b)
  <2>1. PICK layer \in {"fg", "bg"}, d \in 0..9, b \in BOOLEAN :
          \A x : Code(x, n) = ansi_color(x, layer, d, b)
    BY <1>3
  <2>2. AccOK(ansi_color(a, layer, d, b))
    BY AnsiColorLaw
  <2> QED BY <2>1, <2>2, Zenon
<1>4. CASE \A x : Code(x, n) = x
  BY <1>4
<1> QED BY <1>2, <1>3, <1>4, CodeCases

\* ... the parts of an extended colour, ...
LEMMA ComplexLaw ==
    ASSUME NEW a, AccOK(a), a.want # "code", NEW n \in Nat
    PROVE  AccOK(parse_complex_color(a, n))
<1> DEFINE new == parse_complex_color(a, n)
<1>1. a \in Acc /\ a.color \in ColorState /\ a.rgb \in Seq(Byte) /\ a.layer \in {"fg", "bg"}
      /\ a.want \in {"mode", "index", "red", "green", "blue"}
  BY DEF AccOK, Acc
<1>2. n % 256 \in Byte /\ 255 \in Byte
  BY DEF Byte
<1>3. CASE a.want = "mode"
  <2>1. PICK w : w = (CASE n = 2 -> "red" [] n = 5 -> "index" [] OTHER -> "code")
    OBVIOUS
  <2>2. w \in {"red", "index", "code"}
    BY <2>1
  <2>3. new = [a EXCEPT !.want = w]
    BY <1>3, <2>1 DEF parse_complex_color
  <2>4. [a EXCEPT !.want = w] \in Acc
    BY <1>1, <2>2 DEF Acc
  <2>5. [a EXCEPT !.want = w].want = w
    BY <1>1 DEF Acc
  <2> QED BY <2>2, <2>3, <2>4, <2>5 DEF AccOK
<1>4. CASE a.want = "index"
  <2>1. PICK col : col = IF n <= 255 THEN SetBase(a.color, a.layer, COLOR_TABLE_256(n), FALSE) ELSE a.color
    OBVIOUS
  <2>2. n <= 255 => SetBase(a.color, a.layer, COLOR_TABLE_256(n), FALSE) \in ColorState
    <3>1. n <= 255 => n \in 0..255
      OBVIOUS
    <3> QED BY <1>1, <3>1, TableLaw, SetBaseLaw
  <2>3. col \in ColorState
    BY <1>1, <2>1, <2>2
  <2>4. new = [a EXCEPT !.want = "code", !.color = col]
    BY <1>4, <2>1 DEF parse_complex_color
  <2>5. [a EXCEPT !.want = "code", !.color = col] \in Acc
    BY <1>1, <2>3 DEF Acc
  <2>6. [a EXCEPT !.want = "code", !.color = col].want = "code"
    BY <1>1 DEF Acc
  <2> QED BY <2>4, <2>5, <2>6 DEF AccOK
<1>5. CASE a.want = "red"
  <2>1. PICK b \in Byte : b = n % 256
    BY <1>2
  <2>2. PICK s : s = <<b>>
    OBVIOUS
  <2>3. s \in Seq(Byte) /\ Len(s) = 1
    BY <2>2
  <2>4. new = [a EXCEPT !.want = "green", !.rgb = s]
    BY <1>5, <2>1, <2>2 DEF parse_complex_color
  <2>5. [a EXCEPT !.want = "green", !.rgb = s] \in Acc
    BY <1>1, <2>3 DEF Acc
  <2>6. [a EXCEPT !.want = "green", !.rgb = s].want = "green"
        /\ [a EXCEPT !.want = "green", !.rgb = s].rgb = s
    BY <1>1 DEF Acc
  <2> QED BY <2>3, <2>4, <2>5, <2>6 DEF AccOK
<1>6. CASE a.want = "green"
  <2>1. PICK b \in Byte : b = n % 256
    BY <1>2
  <2>2. PICK s : s = Append(a.rgb, b)
    OBVIOUS
  <2>3. s \in Seq(Byte) /\ Len(s) = 2
    BY <1>1, <1>6, <2>2 DEF AccOK
  <2>4. new = [a EXCEPT !.want = "blue", !.rgb = s]
    BY <1>6, <2>1, <2>2 DEF parse_complex_color
  <2>5. [a EXCEPT !.want = "blue", !.rgb = s] \in Acc
    BY <1>1, <2>3 DEF Acc
  <2>6. [a EXCEPT !.want = "blue", !.rgb = s].want = "blue"
        /\ [a EXCEPT !.want = "blue", !.rgb = s].rgb = s
    BY <1>1 DEF Acc
  <2> QED BY <2>3, <2>4, <2>5, <2>6 DEF AccOK
<1>7. CASE a.want = "blue"
  <2>1. PICK col : col = SetBase(a.color, a.layer, Rgba(a.rgb[1], a.rgb[2], n % 256, 255), FALSE)
    OBVIOUS
  <2>2. a.rgb[1] \in Byte /\ a.rgb[2] \in Byte
    BY <1>1, <1>7 DEF AccOK
  <2>3. Rgba(a.rgb[1], a.rgb[2], n % 256, 255) \in Color
    BY <1>2, <2>2, RgbaLaw
  <2>4. col \in ColorState
    <3>1. PICK q \in Color : q = Rgba(a.rgb[1], a.rgb[2], n % 256, 255)
      BY <2>3
    <3>2. PICK c \in ColorState : c = a.color
      BY <1>1
    <3>3. col = SetBase(c, a.layer, q, FALSE)
      BY <2>1, <3>1, <3>2
    <3>4. SetBase(c, a.layer, q, FALSE) \in ColorState
      BY SetBaseLaw
    <3> QED BY <3>3, <3>4
  <2>4a. PICK s : s = <<>>
    OBVIOUS
  <2>4b. s \in Seq(Byte)
    BY <2>4a
  <2>5. new = [a EXCEPT !.want = "code", !.rgb = s, !.color = col]
    BY <1>7, <2>1, <2>4a DEF parse_complex_color
  <2>6. [a EXCEPT !.want = "code", !.rgb = s, !.color = col] \in Acc
    <3>1. [a EXCEPT !.want = "code"] \in Acc
      BY <1>1 DEF Acc
    <3>2. [[a EXCEPT !.want = "code"] EXCEPT !.rgb = s] \in Acc
      BY <2>4b, <3>1 DEF Acc
    <3>3. [[[a EXCEPT !.want = "code"] EXCEPT !.rgb = s] EXCEPT !.color = col] \in Acc
      BY <2>4, <3>2 DEF Acc
    <3> QED BY <3>3
  <2>7. [a EXCEPT !.want = "code", !.rgb = s, !.color = col].want = "code"
    BY <1>1 DEF Acc
  <2> QED BY <2>5, <2>6, <2>7 DEF AccOK
<1> QED BY <1>1, <1>3, <1>4, <1>5, <1>6, <1>7

\* ... and any parameter.
LEMMA ParamLaw ==
    ASSUME NEW a, AccOK(a), NEW n \in Nat
    PROVE  AccOK(Param(a, n))
BY CodeLaw, ComplexLaw DEF Param

\* The state before the first parameter.
Start(c) == [color |-> c, want |-> "code", layer |-> "fg", rgb |-> <<>>]

\* It is well formed.
LEMMA StartLaw ==
    ASSUME NEW c \in ColorState
    PROVE  AccOK(Start(c))
<1>1. PICK s : s = <<>>
  OBVIOUS
<1>2. s \in Seq(Byte)
  BY <1>1
<1>3. Start(c) = [color |-> c, want |-> "code", layer |-> "fg", rgb |-> s]
  BY <1>1 DEF Start
<1> QED BY <1>2, <1>3 DEF AccOK, Acc

\* f has the states of the loop that begins with a and is given params.
Trace(f, a, params) ==
    /\ f[0] = a
    /\ \A i \in 1..Len(params) : f[i] = Param(f[i - 1], params[i])

\* The recursive definition of the loop, for n parameters ...
IsLoop(f, a, params, n) ==
    f = [i \in 0..n |-> IF i = 0 THEN a ELSE Param(f[i - 1], params[i])]

\* ... defines a function.
LEMMA LoopExists ==
    ASSUME NEW a, NEW params, NEW n \in Nat
    PROVE  \E f : IsLoop(f, a, params, n)
<1> DEFINE Is(f, k) == IsLoop(f, a, params, k)
           D == {k \in Nat : \E f : Is(f, k)}
<1> USE DEF IsLoop
<1>1. 0 \in D
  <2> DEFINE f == [i \in 0..0 |-> a]
  <2>1. Is(f, 0)
    OBVIOUS
  <2> HIDE DEF f, Is
  <2> QED BY <2>1
<1>2. ASSUME NEW k \in D
      PROVE  k + 1 \in D
  <2>1. PICK f : Is(f, k)
    OBVIOUS
  <2> DEFINE g == [i \in 0..(k + 1) |-> IF i = k + 1 THEN Param(f[k], params[k + 1]) ELSE f[i]]
  <2>2. k \in Nat
    OBVIOUS
  <2>3. ASSUME NEW i \in 0..(k + 1)
        PROVE  g[i] = IF i = 0 THEN a ELSE Param(g[i - 1], params[i])
    <3>1. CASE i = 0
      <4>1. g[i] = f[0] /\ f[0] = a
        BY <2>1, <2>2, <3>1
      <4> QED BY <3>1, <4>1
    <3>2. CASE i # 0 /\ i # k + 1
      <4>1. i \in 0..k /\ i - 1 \in 0..k /\ i - 1 \in 0..(k + 1) /\ i - 1 # k + 1
        BY <2>2, <3>2
      <4>2. g[i] = f[i] /\ g[i - 1] = f[i - 1]
        BY <3>2, <4>1
      <4>3. f[i] = Param(f[i - 1], params[i])
        BY <2>1, <3>2, <4>1
      <4> QED BY <3>2, <4>2, <4>3
    <3>3. CASE i = k + 1
      <4>1. i # 0 /\ i - 1 = k /\ k \in 0..(k + 1) /\ k # k + 1
        BY <2>2, <3>3
      <4>2. g[i - 1] = f[k]
        BY <4>1
      <4>3. g[i] = Param(f[k], params[k + 1])
        BY <3>3
      <4> QED BY <3>3, <4>1, <4>2, <4>3
    <3> QED BY <3>1, <3>2, <3>3
  <2>4. g = [i \in 0..(k + 1) |-> g[i]]
    OBVIOUS
  <2> HIDE DEF g
  <2>5. Is(g, k + 1)
    BY <2>3, <2>4
  <2> HIDE DEF Is
  <2> QED BY <2>2, <2>5
<1>3. D \in SUBSET Nat
  OBVIOUS
<1> HIDE DEF D
<1>4. D = Nat
  BY <1>1, <1>2, <1>3, Induction
<1> QED BY <1>4 DEF D

\* Consume is the end of a trace.
LEMMA ConsumeTrace ==
    ASSUME NEW c, NEW params \in Seq(Nat)
    PROVE  \E f : Trace(f, Start(c), params) /\ Consume(c, params) = f[Len(params)]
<1>1. Len(params) \in Nat
  OBVIOUS
<1>2. \E f : IsLoop(f, Start(c), params, Len(params))
  BY <1>1, LoopExists
<1>3. PICK f : IsLoop(f, Start(c), params, Len(params)) /\ Consume(c, params) = f[Len(params)]
  BY <1>2, Zenon DEF Consume, Start, IsLoop
<1>4. f[0] = Start(c)
  BY <1>1, <1>3 DEF IsLoop
<1>5. ASSUME NEW i \in 1..Len(params)
      PROVE  f[i] = Param(f[i - 1], params[i])
  <2>1. i \in 0..Len(params) /\ i # 0
    BY <1>1
  <2> QED BY <1>3, <2>1 DEF IsLoop
<1> QED BY <1>3, <1>4, <1>5 DEF Trace

\* A trace stays well formed.
LEMMA TraceLaw ==
    ASSUME NEW a, AccOK(a), NEW params \in Seq(Nat), NEW f, Trace(f, a, params)
    PROVE  \A i \in 0..Len(params) : AccOK(f[i])
<1> DEFINE D == {i \in Nat : i <= Len(params) => AccOK(f[i])}
<1>1. 0 \in D
  BY DEF Trace
<1>2. ASSUME NEW i \in D
      PROVE  i + 1 \in D
  <2>1. SUFFICES ASSUME i + 1 <= Len(params) PROVE AccOK(f[i + 1])
    OBVIOUS
  <2>2. i \in Nat /\ i <= Len(params) /\ i + 1 \in 1..Len(params) /\ (i + 1) - 1 = i
    BY <2>1
  <2>3. params[i + 1] \in Nat
    BY <2>2
  <2>4. AccOK(f[i])
    BY <2>2
  <2>5. f[i + 1] = Param(f[i], params[i + 1])
    BY <2>2 DEF Trace
  <2> QED BY <2>3, <2>4, <2>5, ParamLaw
<1>3. D \in SUBSET Nat
  OBVIOUS
<1> HIDE DEF D
<1>4. D = Nat
  BY <1>1, <1>2, <1>3, Induction
<1> QED BY <1>4 DEF D

\* The shown colours are colours.
LEMMA RenderedLaw ==
    ASSUME NEW c \in ColorState
    PROVE  Rendered(c) \in ColorState
<1> DEFINE fg == IF c.invert THEN c.bg_base ELSE c.fg_base
           bg == IF c.invert THEN c.fg_base ELSE c.bg_base
           lit == IF c.bright \/ c.fg_bright THEN bright(fg) ELSE fg
<1>1. fg \in Color /\ bg \in Color
  BY DEF ColorState
<1>2. lit \in Color
  BY <1>1, BrightLaw
<1>3. PICK x : x = IF c.dim THEN dim(lit) ELSE lit
  OBVIOUS
<1>4. PICK y : y = IF c.bg_bright THEN bright(bg) ELSE bg
  OBVIOUS
<1>5. x \in Color /\ y \in Color
  <2> HIDE DEF fg, bg, lit
  <2> QED BY <1>1, <1>2, <1>3, <1>4, BrightLaw
<1>6. Rendered(c) = [c EXCEPT !.fg_color = x, !.bg_color = y]
  BY <1>3, <1>4 DEF Rendered
<1> QED BY <1>5, <1>6 DEF ColorState

\* handle_ansi_color makes a state of the colours of one, for all parameters.
LEMMA HandleColorLaw ==
    ASSUME NEW c \in ColorState, NEW params \in Seq(Nat)
    PROVE  handle_ansi_color(c, params) \in ColorState /\ Consume(c, params).color \in ColorState
<1>1. PICK f : Trace(f, Start(c), params) /\ Consume(c, params) = f[Len(params)]
  BY ConsumeTrace
<1>2. Len(params) \in 0..Len(params)
  OBVIOUS
<1>3. AccOK(Consume(c, params))
  BY <1>1, <1>2, StartLaw, TraceLaw
<1>4. Consume(c, params).color \in ColorState
  BY <1>3 DEF AccOK, Acc
<1> QED BY <1>4, RenderedLaw DEF handle_ansi_color

-----------------------------------------------------------------------------
(* Sequences compose. *)

\* Colours that differ only in what Rendered computes.
SameColor(c, d) ==
    /\ c.fg_base = d.fg_base /\ c.bg_base = d.bg_base
    /\ c.fg_bright = d.fg_bright /\ c.bg_bright = d.bg_bright
    /\ c.invert = d.invert /\ c.bright = d.bright /\ c.dim = d.dim

\* States of the loop between which the parameters to come cannot tell.
SameAcc(a, b) ==
    /\ a.want = b.want /\ SameColor(a.color, b.color)
    /\ a.want # "code" => a.layer = b.layer
    /\ a.want \in {"green", "blue"} => a.rgb = b.rgb

\* With the shown colours, states are equal.
LEMMA ColorEqual ==
    ASSUME NEW c \in ColorState, NEW d \in ColorState, SameColor(c, d),
           c.fg_color = d.fg_color, c.bg_color = d.bg_color
    PROVE  c = d
BY DEF SameColor, ColorState

\* What is shown follows from the rest of the state.
LEMMA RenderedSame ==
    ASSUME NEW c \in ColorState, NEW d \in ColorState, SameColor(c, d)
    PROVE  Rendered(c) = Rendered(d)
<1>1. PICK x : x = Rendered(c).fg_color
  OBVIOUS
<1>2. PICK y : y = Rendered(c).bg_color
  OBVIOUS
<1>3. Rendered(c) \in ColorState /\ Rendered(d) \in ColorState
  BY RenderedLaw
<1>4. Rendered(c).fg_color = Rendered(d).fg_color /\ Rendered(c).bg_color = Rendered(d).bg_color
  BY DEF Rendered, SameColor, ColorState
<1>5. SameColor(Rendered(c), c) /\ SameColor(Rendered(d), d)
  BY DEF Rendered, SameColor, ColorState
<1>6. SameColor(Rendered(c), Rendered(d))
  BY <1>5 DEF SameColor
<1> QED BY <1>3, <1>4, <1>6, ColorEqual

\* No step tells such states apart: not renditions, ...
LEMMA RenditionSame ==
    ASSUME NEW c \in ColorState, NEW d \in ColorState, SameColor(c, d), NEW n \in Nat
    PROVE  SameColor(handle_ansi_graphic_rendition(c, n), handle_ansi_graphic_rendition(d, n))
<1> DEFINE new(e) == handle_ansi_graphic_rendition(e, n)
<1>1. ASSUME NEW e \in ColorState, NEW f \in ColorState, SameColor(e, f), NEW b \in BOOLEAN
      PROVE  /\ SameColor([e EXCEPT !.bright = b], [f EXCEPT !.bright = b])
             /\ SameColor([e EXCEPT !.dim = b], [f EXCEPT !.dim = b])
             /\ SameColor([e EXCEPT !.invert = b], [f EXCEPT !.invert = b])
             /\ [e EXCEPT !.bright = b] \in ColorState
  BY <1>1 DEF SameColor, ColorState
<1>2. CASE n = 0
  <2>1. new(c) = ColorNew /\ new(d) = ColorNew
    BY <1>2 DEF handle_ansi_graphic_rendition
  <2> QED BY <2>1 DEF SameColor
<1>3. CASE n = 1
  <2>1. new(c) = [c EXCEPT !.bright = TRUE] /\ new(d) = [d EXCEPT !.bright = TRUE]
    BY <1>3 DEF handle_ansi_graphic_rendition
  <2> QED BY <1>1, <2>1
<1>4. CASE n = 2
  <2>1. new(c) = [c EXCEPT !.dim = TRUE] /\ new(d) = [d EXCEPT !.dim = TRUE]
    BY <1>4 DEF handle_ansi_graphic_rendition
  <2> QED BY <1>1, <2>1
<1>5. CASE n = 7
  <2>1. new(c) = [c EXCEPT !.invert = TRUE] /\ new(d) = [d EXCEPT !.invert = TRUE]
    BY <1>5 DEF handle_ansi_graphic_rendition
  <2> QED BY <1>1, <2>1
<1>6. CASE n = 22
  <2>1. PICK e : e = [c EXCEPT !.bright = FALSE]
    OBVIOUS
  <2>2. PICK f : f = [d EXCEPT !.bright = FALSE]
    OBVIOUS
  <2>3. e \in ColorState
    BY <2>1 DEF ColorState
  <2>4. f \in ColorState
    BY <2>2 DEF ColorState
  <2>5. SameColor(e, f)
    BY <1>1, <2>1, <2>2
  <2>6. new(c) = [e EXCEPT !.dim = FALSE] /\ new(d) = [f EXCEPT !.dim = FALSE]
    BY <1>6, <2>1, <2>2 DEF handle_ansi_graphic_rendition
  <2> QED BY <1>1, <2>3, <2>4, <2>5, <2>6
<1>7. CASE n = 27
  <2>1. new(c) = [c EXCEPT !.invert = FALSE] /\ new(d) = [d EXCEPT !.invert = FALSE]
    BY <1>7 DEF handle_ansi_graphic_rendition
  <2> QED BY <1>1, <2>1
<1>8. CASE n \notin {0, 1, 2, 7, 22, 27}
  BY <1>8 DEF handle_ansi_graphic_rendition
<1> QED BY <1>2, <1>3, <1>4, <1>5, <1>6, <1>7, <1>8

\* ... base colours, ...
LEMMA SetBaseSame ==
    ASSUME NEW c \in ColorState, NEW d \in ColorState, SameColor(c, d),
           NEW layer, NEW col \in Color, NEW b \in BOOLEAN
    PROVE  SameColor(SetBase(c, layer, col, b), SetBase(d, layer, col, b))
BY DEF SetBase, SameColor, ColorState

\* A step that only sets the colour, and stays with "code".
LEMMA SetColorSame ==
    ASSUME NEW a \in Acc, NEW b \in Acc, a.want = "code", b.want = "code",
           NEW c \in ColorState, NEW d \in ColorState, SameColor(c, d)
    PROVE  SameAcc([a EXCEPT !.color = c], [b EXCEPT !.color = d])
<1>1. /\ [a EXCEPT !.color = c].want = "code" /\ [b EXCEPT !.color = d].want = "code"
      /\ [a EXCEPT !.color = c].color = c /\ [b EXCEPT !.color = d].color = d
  BY DEF Acc
<1> QED BY <1>1 DEF SameAcc

\* What two such states have in common.
LEMMA AccParts ==
    ASSUME NEW a, NEW b, AccOK(a), AccOK(b), SameAcc(a, b)
    PROVE  /\ a \in Acc /\ b \in Acc /\ a.color \in ColorState /\ b.color \in ColorState
           /\ SameColor(a.color, b.color) /\ a.want = b.want
           /\ a.want \in {"code", "mode", "index", "red", "green", "blue"}
           /\ a.want # "code" => a.layer = b.layer
           /\ a.want \in {"green", "blue"} => a.rgb = b.rgb
BY DEF AccOK, Acc, SameAcc

\* ... codes, ...
LEMMA CodeSame ==
    ASSUME NEW a, NEW b, AccOK(a), AccOK(b), SameAcc(a, b), a.want = "code", NEW n \in Nat
    PROVE  SameAcc(Code(a, n), Code(b, n))
<1>1. /\ a \in Acc /\ b \in Acc /\ a.color \in ColorState /\ b.color \in ColorState
      /\ SameColor(a.color, b.color) /\ b.want = "code"
  BY AccParts
<1>2. CASE \A x : Code(x, n) = [x EXCEPT !.color = handle_ansi_graphic_rendition(@, n)]
  <2>1. PICK c : c = handle_ansi_graphic_rendition(a.color, n)
    OBVIOUS
  <2>2. PICK d : d = handle_ansi_graphic_rendition(b.color, n)
    OBVIOUS
  <2>3. c \in ColorState /\ d \in ColorState /\ SameColor(c, d)
    BY <1>1, <2>1, <2>2, RenditionLaw, RenditionSame
  <2>4. Code(a, n) = [a EXCEPT !.color = c] /\ Code(b, n) = [b EXCEPT !.color = d]
    BY <1>2, <2>1, <2>2
  <2> QED BY <1>1, <2>3, <2>4, SetColorSame
<1>3. CASE \E layer \in {"fg", "bg"}, k \in 0..9, l \in BOOLEAN :
             \A x : Code(x, n) = ansi_color(x, layer, k, l)
  <2>1. PICK layer \in {"fg", "bg"}, k \in 0..9, l \in BOOLEAN :
          \A x : Code(x, n) = ansi_color(x, layer, k, l)
    BY <1>3
  <2>2. CASE k \in 0..7 \/ k = 9
    <3>1. PICK col : col = IF k = 9 THEN WHITE ELSE AnsiColors[k]
      OBVIOUS
    <3>2. col \in Color
      BY <2>2, <3>1, AnsiLaw, BlackWhite
    <3>3. PICK c : c = SetBase(a.color, layer, col, l)
      OBVIOUS
    <3>4. PICK d : d = SetBase(b.color, layer, col, l)
      OBVIOUS
    <3>5. c \in ColorState /\ d \in ColorState /\ SameColor(c, d)
      BY <1>1, <3>2, <3>3, <3>4, SetBaseLaw, SetBaseSame
    <3>6. ansi_color(a, layer, k, l) = [a EXCEPT !.color = c]
      BY <2>2, <3>1, <3>3 DEF ansi_color
    <3>7. ansi_color(b, layer, k, l) = [b EXCEPT !.color = d]
      BY <2>2, <3>1, <3>4 DEF ansi_color
    <3>8. Code(a, n) = [a EXCEPT !.color = c] /\ Code(b, n) = [b EXCEPT !.color = d]
      BY <2>1, <3>6, <3>7, Zenon
    <3> QED BY <1>1, <3>5, <3>8, SetColorSame
  <2>3. CASE k = 8
    <3>1. ansi_color(a, layer, k, l) = [a EXCEPT !.want = "mode", !.layer = layer]
      BY <2>3 DEF ansi_color
    <3>2. ansi_color(b, layer, k, l) = [b EXCEPT !.want = "mode", !.layer = layer]
      BY <2>3 DEF ansi_color
    <3>3. ASSUME NEW x \in Acc, NEW y, y = [x EXCEPT !.want = "mode", !.layer = layer]
          PROVE  y.want = "mode" /\ y.layer = layer /\ y.color = x.color
      BY <3>3 DEF Acc
    <3>4. PICK y : y = ansi_color(a, layer, k, l)
      OBVIOUS
    <3>5. PICK z : z = ansi_color(b, layer, k, l)
      OBVIOUS
    <3>6. /\ y.want = "mode" /\ y.layer = layer /\ y.color = a.color
          /\ z.want = "mode" /\ z.layer = layer /\ z.color = b.color
      BY <1>1, <3>1, <3>2, <3>3, <3>4, <3>5
    <3>7. SameAcc(y, z)
      BY <1>1, <3>6 DEF SameAcc
    <3>8. Code(a, n) = y /\ Code(b, n) = z
      BY <2>1, <3>4, <3>5, Zenon
    <3> QED BY <3>7, <3>8
  <2> QED BY <2>2, <2>3
<1>4. CASE \A x : Code(x, n) = x
  BY <1>4
<1> QED BY <1>2, <1>3, <1>4, CodeCases

\* ... parts of extended colours ...
LEMMA ComplexSame ==
    ASSUME NEW a, NEW b, AccOK(a), AccOK(b), SameAcc(a, b), a.want # "code", NEW n \in Nat
    PROVE  SameAcc(parse_complex_color(a, n), parse_complex_color(b, n))
<1>1. /\ a \in Acc /\ b \in Acc /\ a.color \in ColorState /\ b.color \in ColorState
      /\ SameColor(a.color, b.color) /\ b.want = a.want /\ a.layer = b.layer
      /\ a.want \in {"mode", "index", "red", "green", "blue"}
      /\ a.want \in {"green", "blue"} => a.rgb = b.rgb
  BY AccParts
<1>2. CASE a.want = "mode"
  <2>1. PICK w : w = (CASE n = 2 -> "red" [] n = 5 -> "index" [] OTHER -> "code")
    OBVIOUS
  <2>2. w \in {"red", "index", "code"}
    BY <2>1
  <2>3. parse_complex_color(a, n) = [a EXCEPT !.want = w] /\ parse_complex_color(b, n) = [b EXCEPT !.want = w]
    BY <1>1, <1>2, <2>1 DEF parse_complex_color
  <2>4. ASSUME NEW x \in Acc, NEW y, y = [x EXCEPT !.want = w]
        PROVE  y.want = w /\ y.layer = x.layer /\ y.color = x.color
    BY <2>4 DEF Acc
  <2> QED BY <1>1, <2>2, <2>3, <2>4 DEF SameAcc
<1>3. CASE a.want = "index"
  <2>1. PICK c : c = IF n <= 255 THEN SetBase(a.color, a.layer, COLOR_TABLE_256(n), FALSE) ELSE a.color
    OBVIOUS
  <2>2. PICK d : d = IF n <= 255 THEN SetBase(b.color, b.layer, COLOR_TABLE_256(n), FALSE) ELSE b.color
    OBVIOUS
  <2>3. SameColor(c, d)
    <3>1. n <= 255 => n \in 0..255
      OBVIOUS
    <3>2. n <= 255 => SameColor(SetBase(a.color, a.layer, COLOR_TABLE_256(n), FALSE),
                                SetBase(b.color, a.layer, COLOR_TABLE_256(n), FALSE))
      BY <1>1, <3>1, TableLaw, SetBaseSame
    <3> QED BY <1>1, <2>1, <2>2, <3>2
  <2>4. parse_complex_color(a, n) = [a EXCEPT !.want = "code", !.color = c]
    BY <1>3, <2>1 DEF parse_complex_color
  <2>5. parse_complex_color(b, n) = [b EXCEPT !.want = "code", !.color = d]
    BY <1>1, <1>3, <2>2 DEF parse_complex_color
  <2>6. PICK y : y = parse_complex_color(a, n)
    OBVIOUS
  <2>7. PICK z : z = parse_complex_color(b, n)
    OBVIOUS
  <2>8. /\ y.want = "code" /\ y.color = c
        /\ z.want = "code" /\ z.color = d
    <3>1. y.want = "code" /\ y.color = c
      BY <1>1, <2>4, <2>6 DEF Acc
    <3>2. z.want = "code" /\ z.color = d
      BY <1>1, <2>5, <2>7 DEF Acc
    <3> QED BY <3>1, <3>2
  <2>9. SameAcc(y, z)
    BY <1>1, <2>8, <2>3 DEF SameAcc
  <2> QED BY <2>6, <2>7, <2>9
<1>4. CASE a.want = "red"
  <2>1. PICK s : s = <<n % 256>>
    OBVIOUS
  <2>2. parse_complex_color(a, n) = [a EXCEPT !.want = "green", !.rgb = s]
    BY <1>4, <2>1 DEF parse_complex_color
  <2>3. parse_complex_color(b, n) = [b EXCEPT !.want = "green", !.rgb = s]
    BY <1>1, <1>4, <2>1 DEF parse_complex_color
  <2>4. ASSUME NEW x \in Acc, NEW y, y = [x EXCEPT !.want = "green", !.rgb = s]
        PROVE  y.want = "green" /\ y.layer = x.layer /\ y.color = x.color /\ y.rgb = s
    BY <2>4 DEF Acc
  <2>5. PICK y : y = parse_complex_color(a, n)
    OBVIOUS
  <2>6. PICK z : z = parse_complex_color(b, n)
    OBVIOUS
  <2>7. /\ y.want = "green" /\ y.layer = a.layer /\ y.color = a.color /\ y.rgb = s
        /\ z.want = "green" /\ z.layer = b.layer /\ z.color = b.color /\ z.rgb = s
    BY <1>1, <2>2, <2>3, <2>4, <2>5, <2>6
  <2>8. SameAcc(y, z)
    BY <1>1, <2>7 DEF SameAcc
  <2> QED BY <2>5, <2>6, <2>8
<1>5. CASE a.want = "green"
  <2>1. PICK s : s = Append(a.rgb, n % 256)
    OBVIOUS
  <2>2. parse_complex_color(a, n) = [a EXCEPT !.want = "blue", !.rgb = s]
    BY <1>5, <2>1 DEF parse_complex_color
  <2>3. parse_complex_color(b, n) = [b EXCEPT !.want = "blue", !.rgb = s]
    BY <1>1, <1>5, <2>1 DEF parse_complex_color
  <2>4. ASSUME NEW x \in Acc, NEW y, y = [x EXCEPT !.want = "blue", !.rgb = s]
        PROVE  y.want = "blue" /\ y.layer = x.layer /\ y.color = x.color /\ y.rgb = s
    BY <2>4 DEF Acc
  <2>5. PICK y : y = parse_complex_color(a, n)
    OBVIOUS
  <2>6. PICK z : z = parse_complex_color(b, n)
    OBVIOUS
  <2>7. /\ y.want = "blue" /\ y.layer = a.layer /\ y.color = a.color /\ y.rgb = s
        /\ z.want = "blue" /\ z.layer = b.layer /\ z.color = b.color /\ z.rgb = s
    BY <1>1, <2>2, <2>3, <2>4, <2>5, <2>6
  <2>8. SameAcc(y, z)
    BY <1>1, <2>7 DEF SameAcc
  <2> QED BY <2>5, <2>6, <2>8
<1>6. CASE a.want = "blue"
  <2>1. PICK col : col = Rgba(a.rgb[1], a.rgb[2], n % 256, 255)
    OBVIOUS
  <2>2. col \in Color
    <3>1. a.rgb[1] \in Byte /\ a.rgb[2] \in Byte
      BY <1>6 DEF AccOK, Acc
    <3>2. n % 256 \in Byte /\ 255 \in Byte
      BY DEF Byte
    <3> QED BY <2>1, <3>1, <3>2, RgbaLaw
  <2>3. PICK c : c = SetBase(a.color, a.layer, col, FALSE)
    OBVIOUS
  <2>4. PICK d : d = SetBase(b.color, a.layer, col, FALSE)
    OBVIOUS
  <2>5. SameColor(c, d)
    BY <1>1, <2>2, <2>3, <2>4, SetBaseSame
  <2>6. PICK s : s = <<>>
    OBVIOUS
  <2>7. parse_complex_color(a, n) = [a EXCEPT !.want = "code", !.rgb = s, !.color = c]
    BY <1>6, <2>1, <2>3, <2>6 DEF parse_complex_color
  <2>8. parse_complex_color(b, n) = [b EXCEPT !.want = "code", !.rgb = s, !.color = d]
    BY <1>1, <1>6, <2>1, <2>4, <2>6 DEF parse_complex_color
  <2>9. PICK y : y = parse_complex_color(a, n)
    OBVIOUS
  <2>10. PICK z : z = parse_complex_color(b, n)
    OBVIOUS
  <2>11. /\ y.want = "code" /\ y.color = c
        /\ z.want = "code" /\ z.color = d
    <3>1. y.want = "code" /\ y.color = c
      BY <1>1, <2>7, <2>9 DEF Acc
    <3>2. z.want = "code" /\ z.color = d
      BY <1>1, <2>8, <2>10 DEF Acc
    <3> QED BY <3>1, <3>2
  <2>12. SameAcc(y, z)
    BY <1>1, <2>11, <2>5 DEF SameAcc
  <2> QED BY <2>9, <2>10, <2>12
<1> QED BY <1>1, <1>2, <1>3, <1>4, <1>5, <1>6

\* ... or any parameter.
LEMMA ParamSame ==
    ASSUME NEW a, NEW b, AccOK(a), AccOK(b), SameAcc(a, b), NEW n \in Nat
    PROVE  SameAcc(Param(a, n), Param(b, n))
<1>1. CASE a.want = "code"
  <2>1. b.want = "code"
    BY <1>1 DEF SameAcc
  <2> QED BY <1>1, <2>1, CodeSame DEF Param
<1>2. CASE a.want # "code"
  <2>1. b.want # "code"
    BY <1>2 DEF SameAcc
  <2> QED BY <1>2, <2>1, ComplexSame DEF Param
<1> QED BY <1>1, <1>2

\* The loop over two lists begins as the loop over the first ...
LEMMA SamePrefix ==
    ASSUME NEW a, NEW p \in Seq(Nat), NEW q \in Seq(Nat),
           NEW f, Trace(f, a, p \o q), NEW g, Trace(g, a, p)
    PROVE  f[Len(p)] = g[Len(p)]
<1> DEFINE D == {i \in Nat : i <= Len(p) => f[i] = g[i]}
<1>1. /\ Len(p) \in Nat /\ Len(q) \in Nat /\ Len(p \o q) = Len(p) + Len(q)
      /\ \A i \in 1..Len(p) : (p \o q)[i] = p[i]
  OBVIOUS
<1>2. 0 \in D
  BY DEF Trace
<1>3. ASSUME NEW i \in D
      PROVE  i + 1 \in D
  <2>1. SUFFICES ASSUME i + 1 <= Len(p) PROVE f[i + 1] = g[i + 1]
    OBVIOUS
  <2>2. i \in Nat /\ i <= Len(p) /\ i + 1 \in 1..Len(p) /\ i + 1 \in 1..(Len(p) + Len(q)) /\ (i + 1) - 1 = i
    BY <1>1, <2>1
  <2>3. f[i] = g[i] /\ (p \o q)[i + 1] = p[i + 1]
    BY <1>1, <2>2
  <2>4. f[i + 1] = Param(f[i], (p \o q)[i + 1])
    BY <1>1, <2>2 DEF Trace
  <2>5. g[i + 1] = Param(g[i], p[i + 1])
    BY <2>2 DEF Trace
  <2> QED BY <2>3, <2>4, <2>5
<1>4. D \in SUBSET Nat
  OBVIOUS
<1> HIDE DEF D
<1>5. D = Nat
  BY <1>2, <1>3, <1>4, Induction
<1>6. Len(p) \in D
  BY <1>1, <1>5
<1> QED BY <1>1, <1>6 DEF D

\* ... and goes on as the loop over the second.
LEMMA SameSuffix ==
    ASSUME NEW a, AccOK(a), NEW p \in Seq(Nat), NEW q \in Seq(Nat), NEW f, Trace(f, a, p \o q),
           NEW b, AccOK(b), NEW h, Trace(h, b, q), SameAcc(f[Len(p)], b)
    PROVE  SameAcc(f[Len(p) + Len(q)], h[Len(q)])
<1> DEFINE D == {j \in Nat : j <= Len(q) => SameAcc(f[Len(p) + j], h[j])}
<1>1. /\ Len(p) \in Nat /\ Len(q) \in Nat /\ Len(p \o q) = Len(p) + Len(q) /\ p \o q \in Seq(Nat)
      /\ \A j \in 1..Len(q) : (p \o q)[Len(p) + j] = q[j] /\ q[j] \in Nat
  OBVIOUS
<1>2. 0 \in D
  <2>1. h[0] = b /\ Len(p) + 0 = Len(p)
    BY <1>1 DEF Trace
  <2> QED BY <2>1
<1>3. ASSUME NEW j \in D
      PROVE  j + 1 \in D
  <2>1. SUFFICES ASSUME j + 1 <= Len(q) PROVE SameAcc(f[Len(p) + (j + 1)], h[j + 1])
    OBVIOUS
  <2>2. j \in Nat /\ j <= Len(q) /\ j + 1 \in 1..Len(q) /\ (j + 1) - 1 = j /\ j \in 0..Len(q)
    BY <1>1, <2>1
  <2>3. PICK m : m = Len(p) + (j + 1)
    OBVIOUS
  <2>4. m \in 1..(Len(p) + Len(q)) /\ m - 1 = Len(p) + j /\ m - 1 \in 0..(Len(p) + Len(q))
    BY <1>1, <2>2, <2>3
  <2>5. AccOK(f[m - 1]) /\ AccOK(h[j])
    BY <1>1, <2>2, <2>4, TraceLaw
  <2>6. SameAcc(f[m - 1], h[j])
    BY <2>2, <2>4
  <2>7. f[m] = Param(f[m - 1], (p \o q)[m])
    BY <1>1, <2>4 DEF Trace
  <2>8. h[j + 1] = Param(h[j], q[j + 1])
    BY <2>2 DEF Trace
  <2>9. (p \o q)[m] = q[j + 1] /\ q[j + 1] \in Nat
    BY <1>1, <2>2, <2>3
  <2> QED BY <2>3, <2>5, <2>6, <2>7, <2>8, <2>9, ParamSame
<1>4. D \in SUBSET Nat
  OBVIOUS
<1> HIDE DEF D
<1>5. D = Nat
  BY <1>2, <1>3, <1>4, Induction
<1>6. Len(q) \in D
  BY <1>1, <1>5
<1> QED BY <1>1, <1>6 DEF D

\* A list of parameters that ends outside of an extended colour may be cut off
\* and sent as a sequence of its own: rendering in between changes nothing.
LEMMA ComposeLaw ==
    ASSUME NEW c \in ColorState, NEW p \in Seq(Nat), NEW q \in Seq(Nat), Consume(c, p).want = "code"
    PROVE  handle_ansi_color(c, p \o q) = handle_ansi_color(handle_ansi_color(c, p), q)
<1>1. p \o q \in Seq(Nat) /\ Len(p \o q) = Len(p) + Len(q) /\ Len(p) \in Nat /\ Len(q) \in Nat
  OBVIOUS
<1>2. PICK d : d = handle_ansi_color(c, p)
  OBVIOUS
<1>3. d \in ColorState /\ Consume(c, p).color \in ColorState /\ d = Rendered(Consume(c, p).color)
  BY <1>2, HandleColorLaw DEF handle_ansi_color
<1>4. PICK f : Trace(f, Start(c), p \o q) /\ Consume(c, p \o q) = f[Len(p \o q)]
  BY <1>1, ConsumeTrace
<1>5. PICK g : Trace(g, Start(c), p) /\ Consume(c, p) = g[Len(p)]
  BY ConsumeTrace
<1>6. PICK h : Trace(h, Start(d), q) /\ Consume(d, q) = h[Len(q)]
  BY ConsumeTrace
<1>7. AccOK(Start(c)) /\ AccOK(Start(d))
  BY <1>3, StartLaw
<1>8. f[Len(p)] = Consume(c, p)
  BY <1>4, <1>5, SamePrefix
<1>9. SameAcc(f[Len(p)], Start(d))
  <2>1. SameColor(Consume(c, p).color, d)
    BY <1>3 DEF Rendered, SameColor, ColorState
  <2>2. Start(d).want = "code" /\ Start(d).color = d
    BY DEF Start
  <2> QED BY <1>8, <2>1, <2>2 DEF SameAcc
<1>10. SameAcc(f[Len(p) + Len(q)], h[Len(q)])
  BY <1>4, <1>6, <1>7, <1>9, SameSuffix
<1>11. SameColor(Consume(c, p \o q).color, Consume(d, q).color)
  BY <1>1, <1>4, <1>6, <1>10 DEF SameAcc
<1>12. Consume(c, p \o q).color \in ColorState /\ Consume(d, q).color \in ColorState
  BY <1>1, <1>3, HandleColorLaw
<1> QED BY <1>2, <1>11, <1>12, RenderedSame DEF handle_ansi_color

-----------------------------------------------------------------------------
(* The table of 256 colours agrees with the 16 ANSI colours. *)

\* Codes 30 to 39 ...
LEMMA CodePlain ==
    ASSUME NEW n \in 30..39, NEW d, d = n - 30
    PROVE  \A a : Code(a, n) = ansi_color(a, "fg", d, FALSE)
<1>1. n \in Nat
  OBVIOUS
<1> QED BY <1>1, CodeRanges, Zenon DEF Code

\* ... and 90 to 97.
LEMMA CodeBright ==
    ASSUME NEW n \in 90..97, NEW d, d = n - 90
    PROVE  \A a : Code(a, n) = ansi_color(a, "fg", d, TRUE)
<1>1. n \in Nat
  OBVIOUS
<1> QED BY <1>1, CodeRanges, Zenon DEF Code

\* A sequence with the code of a colour.
LEMMA OneParam ==
    ASSUME NEW c \in ColorState, NEW n \in Nat, NEW layer \in {"fg", "bg"}, NEW d \in 0..7,
           NEW l \in BOOLEAN, \A a : Code(a, n) = ansi_color(a, layer, d, l)
    PROVE  handle_ansi_color(c, <<n>>) = Rendered(SetBase(c, layer, AnsiColors[d], l))
<1>1. PICK p : p = <<n>>
  OBVIOUS
<1>2. p \in Seq(Nat) /\ Len(p) = 1 /\ p[1] = n
  BY <1>1
<1>3. PICK f : Trace(f, Start(c), p) /\ Consume(c, p) = f[Len(p)]
  BY <1>2, ConsumeTrace
<1>4. f[0] = Start(c) /\ f[1] = Param(f[0], n)
  BY <1>2, <1>3 DEF Trace
<1>5. PICK a : a = Start(c)
  OBVIOUS
<1>6. a \in Acc /\ a.want = "code" /\ a.color = c
  BY <1>5, StartLaw DEF AccOK, Start
<1>7. f[1] = ansi_color(a, layer, d, l)
  BY <1>4, <1>5, <1>6, Zenon DEF Param
<1>8. PICK e : e = SetBase(a.color, layer, AnsiColors[d], l)
  OBVIOUS
<1>9. ansi_color(a, layer, d, l) = [a EXCEPT !.color = e]
  <2>1. d \in 0..7 /\ d # 8 /\ d # 9
    OBVIOUS
  <2> QED BY <1>8, <2>1 DEF ansi_color
<1>10. Consume(c, p).color = e
  BY <1>2, <1>3, <1>6, <1>7, <1>9 DEF Acc
<1> QED BY <1>1, <1>6, <1>8, <1>10 DEF handle_ansi_color

\* A sequence that chooses an entry of the table.
LEMMA IndexParam ==
    ASSUME NEW c \in ColorState, NEW n \in 0..255
    PROVE  handle_ansi_color(c, <<38, 5, n>>) = Rendered(SetBase(c, "fg", COLOR_TABLE_256(n), FALSE))
<1>1. PICK p : p = <<38, 5, n>>
  OBVIOUS
<1>2. p \in Seq(Nat) /\ Len(p) = 3 /\ p[1] = 38 /\ p[2] = 5 /\ p[3] = n
  BY <1>1
<1>3. PICK f : Trace(f, Start(c), p) /\ Consume(c, p) = f[Len(p)]
  BY <1>2, ConsumeTrace
<1>4. f[0] = Start(c) /\ f[1] = Param(f[0], 38) /\ f[2] = Param(f[1], 5) /\ f[3] = Param(f[2], n)
  BY <1>2, <1>3 DEF Trace
<1>5. PICK a : a = Start(c)
  OBVIOUS
<1>6. a \in Acc /\ a.want = "code" /\ a.color = c
  BY <1>5, StartLaw DEF AccOK, Start
<1>7. PICK b : b = [a EXCEPT !.want = "mode", !.layer = "fg"]
  OBVIOUS
<1>8. f[1] = b
  <2>1. 38 \in 30..39 /\ 8 = 38 - 30
    OBVIOUS
  <2>2. \A x : Code(x, 38) = ansi_color(x, "fg", 8, FALSE)
    BY <2>1, CodePlain
  <2>3. ansi_color(a, "fg", 8, FALSE) = b
    BY <1>7 DEF ansi_color
  <2>4. Code(a, 38) = b
    BY <2>2, <2>3, Zenon
  <2> QED BY <1>4, <1>5, <1>6, <2>4 DEF Param
<1>9. b \in Acc
  BY <1>6, <1>7 DEF Acc
<1>10. b.want = "mode" /\ b.layer = "fg" /\ b.color = c
  BY <1>6, <1>7 DEF Acc
<1>11. PICK d : d = [b EXCEPT !.want = "index"]
  OBVIOUS
<1>12. f[2] = d
  <2>1. parse_complex_color(b, 5) = d
    BY <1>10, <1>11 DEF parse_complex_color
  <2> QED BY <1>4, <1>8, <1>10, <2>1 DEF Param
<1>13. d \in Acc
  BY <1>9, <1>11 DEF Acc
<1>14. d.want = "index" /\ d.layer = "fg" /\ d.color = c
  BY <1>9, <1>10, <1>11 DEF Acc
<1>15. PICK e : e = SetBase(d.color, d.layer, COLOR_TABLE_256(n), FALSE)
  OBVIOUS
<1>16. f[3] = [d EXCEPT !.want = "code", !.color = e]
  <2>1. parse_complex_color(d, n) = [d EXCEPT !.want = "code", !.color = e]
    <3>1. n <= 255
      OBVIOUS
    <3>2. e = IF n <= 255 THEN SetBase(d.color, d.layer, COLOR_TABLE_256(n), FALSE) ELSE d.color
      BY <1>15, <3>1
    <3> QED BY <1>14, <3>2 DEF parse_complex_color
  <2> QED BY <1>4, <1>12, <1>14, <2>1 DEF Param
<1>17. Consume(c, p).color = e
  BY <1>2, <1>3, <1>13, <1>16 DEF Acc
<1> QED BY <1>1, <1>14, <1>15, <1>17 DEF handle_ansi_color

\* Chosen by index or by number, the 8 plain colours look the same, and the 8 bright ones
\* while neither bright nor invert is on.
LEMMA TableIsAnsi ==
    ASSUME NEW c \in ColorState, NEW n \in 0..7
    PROVE  /\ handle_ansi_color(c, <<38, 5, n>>).fg_color = handle_ansi_color(c, <<30 + n>>).fg_color
           /\ ~c.bright /\ ~c.invert =>
                handle_ansi_color(c, <<38, 5, 8 + n>>).fg_color = handle_ansi_color(c, <<90 + n>>).fg_color
<1>1. /\ n \in 0..255 /\ 8 + n \in 0..255 /\ n \in 0..15 /\ 8 + n \in 0..15 /\ n < 8 /\ ~(8 + n < 8)
      /\ (8 + n) - 8 = n /\ 30 + n \in Nat /\ 90 + n \in Nat /\ 30 + n \in 30..39 /\ 90 + n \in 90..97
      /\ (30 + n) - 30 = n /\ (90 + n) - 90 = n
  OBVIOUS
<1>2. PICK x : x = AnsiColors[n]
  OBVIOUS
<1>3. x \in Color /\ bright(x) \in Color
  BY <1>2, AnsiLaw, BrightLaw
<1>4. COLOR_TABLE_256(n) = x /\ COLOR_TABLE_256(8 + n) = bright(x)
  BY <1>1, <1>2 DEF COLOR_TABLE_256, Predefined
<1>5. handle_ansi_color(c, <<38, 5, n>>) = Rendered(SetBase(c, "fg", x, FALSE))
  BY <1>1, <1>4, IndexParam
<1>6. handle_ansi_color(c, <<38, 5, 8 + n>>) = Rendered(SetBase(c, "fg", bright(x), FALSE))
  BY <1>1, <1>4, IndexParam
<1>7. handle_ansi_color(c, <<30 + n>>) = Rendered(SetBase(c, "fg", x, FALSE))
  <2>1. PICK m : m = 30 + n
    OBVIOUS
  <2>2. m \in 30..39 /\ n = m - 30 /\ m \in Nat
    BY <2>1
  <2>3. \A a : Code(a, m) = ansi_color(a, "fg", n, FALSE)
    BY <2>2, CodePlain
  <2>4. handle_ansi_color(c, <<m>>) = Rendered(SetBase(c, "fg", x, FALSE))
    BY <1>2, <2>2, <2>3, OneParam
  <2> QED BY <2>1, <2>4
<1>8. handle_ansi_color(c, <<90 + n>>) = Rendered(SetBase(c, "fg", x, TRUE))
  <2>1. PICK m : m = 90 + n
    OBVIOUS
  <2>2. m \in 90..97 /\ n = m - 90 /\ m \in Nat
    BY <2>1
  <2>3. \A a : Code(a, m) = ansi_color(a, "fg", n, TRUE)
    BY <2>2, CodeBright
  <2>4. handle_ansi_color(c, <<m>>) = Rendered(SetBase(c, "fg", x, TRUE))
    BY <1>2, <2>2, <2>3, OneParam
  <2> QED BY <2>1, <2>4
<1>9. ASSUME ~c.bright, ~c.invert, NEW y \in Color, NEW l \in BOOLEAN
      PROVE  Rendered(SetBase(c, "fg", y, l)).fg_color =
               LET lit == IF l THEN bright(y) ELSE y IN IF c.dim THEN dim(lit) ELSE lit
  <2>1. PICK s : s = SetBase(c, "fg", y, l)
    OBVIOUS
  <2>2. s = [c EXCEPT !.fg_base = y, !.fg_bright = l]
    BY <2>1 DEF SetBase
  <2>3. s \in ColorState /\ s.fg_base = y /\ s.fg_bright = l /\ ~s.bright /\ ~s.invert /\ s.dim = c.dim
    BY <1>9, <2>2 DEF ColorState
  <2>4. Rendered(s).fg_color = LET lit == IF l THEN bright(y) ELSE y IN IF s.dim THEN dim(lit) ELSE lit
    BY <2>3 DEF Rendered, ColorState
  <2> QED BY <2>1, <2>3, <2>4
<1>10. ~c.bright /\ ~c.invert =>
         Rendered(SetBase(c, "fg", bright(x), FALSE)).fg_color = Rendered(SetBase(c, "fg", x, TRUE)).fg_color
  BY <1>3, <1>9
<1> QED BY <1>5, <1>6, <1>7, <1>8, <1>10

-----------------------------------------------------------------------------
(* Pixels. *)

\* The high bits of a byte, and what is lost without the low ones.
LEMMA ByteSplit ==
    ASSUME NEW x \in Byte
    PROVE  /\ x \div 8 \in 0..31 /\ x - (x \div 8) * 8 \in 0..7 /\ (x \div 8) * 8 \in Byte
           /\ ((x \div 8) * 8) \div 8 = x \div 8
           /\ x \div 4 \in 0..63 /\ x - (x \div 4) * 4 \in 0..3 /\ (x \div 4) * 4 \in Byte
           /\ ((x \div 4) * 4) \div 4 = x \div 4
           /\ x \div 1 = x
BY DEF Byte

\* A pixel says as much of c as it has bits.
PixelKeeps(c, bpp) ==
    LET seen == FromPixel(Pixel(c, bpp), bpp) IN
    /\ Pixel(seen, bpp) = Pixel(c, bpp)
    /\ c.red - seen.red \in 0..(2^(8 - Depth[bpp][1]) - 1)
    /\ c.green - seen.green \in 0..(2^(8 - Depth[bpp][2]) - 1)
    /\ c.blue - seen.blue \in 0..(2^(8 - Depth[bpp][3]) - 1)

\* The 15-bit format.
LEMMA PixelLaw15 ==
    ASSUME NEW c \in Color
    PROVE  PixelKeeps(c, 15)
<1>1. c.red \in Byte /\ c.green \in Byte /\ c.blue \in Byte
  BY ColorLaw
<1>2. PICK r \in 0..31 : /\ r = c.red \div 8 /\ c.red - r * 8 \in 0..7 /\ (r * 8) \div 8 = r
  BY <1>1, ByteSplit
<1>3. PICK g \in 0..31 : /\ g = c.green \div 8 /\ c.green - g * 8 \in 0..7 /\ (g * 8) \div 8 = g
  BY <1>1, ByteSplit
<1>4. PICK b \in 0..31 : /\ b = c.blue \div 8 /\ c.blue - b * 8 \in 0..7 /\ (b * 8) \div 8 = b
  BY <1>1, ByteSplit
<1>5. PICK i \in Nat, j \in Nat, k \in Nat, m \in Nat, h \in Nat, n \in Nat :
        i = 8 /\ j = 8 /\ k = 8 /\ m = 1024 /\ h = 32 /\ n = 32
  OBVIOUS
<1>6. /\ 2^(8 - 5) = i /\ 2^(8 - 5) = j /\ 2^(8 - 5) = k
      /\ 2^(5 + 5) = m /\ 2^5 = h /\ 2^5 = n
  BY <1>5
<1>7. Depth[15] = <<5, 5, 5>>
  BY DEF Depth
<1>8. Depth[15][1] = 5 /\ Depth[15][2] = 5 /\ Depth[15][3] = 5
  BY <1>7
<1>9. PICK x \in Nat : x = r * 1024 + g * 32 + b
  OBVIOUS
<1>10. Pixel(c, 15) = (c.red \div i) * m + (c.green \div j) * n + (c.blue \div k)
  BY <1>6, <1>8, Zenon DEF Pixel, Kept
<1>11. Pixel(c, 15) = x
  BY <1>2, <1>3, <1>4, <1>5, <1>9, <1>10
<1>12. x \div m = r /\ (x \div n) % h = g /\ x % n = b
  BY <1>5, <1>9
<1>13. PICK s : s = FromPixel(x, 15)
  OBVIOUS
<1>14. s = Rgba((x \div m) * i, ((x \div n) % h) * j, (x % n) * k, 0)
  BY <1>6, <1>13, <1>8, Zenon DEF FromPixel
<1>15. s = Rgba(r * i, g * j, b * k, 0)
  BY <1>12, <1>14, Zenon
<1>16. s.red = r * 8 /\ s.green = g * 8 /\ s.blue = b * 8
  BY <1>5, <1>15 DEF Rgba
<1>17. Pixel(s, 15) = (s.red \div i) * m + (s.green \div j) * n + (s.blue \div k)
  BY <1>6, <1>8, Zenon DEF Pixel, Kept
<1>18. Pixel(s, 15) = x
  BY <1>2, <1>3, <1>4, <1>5, <1>9, <1>16, <1>17
<1>19. c.red - s.red \in 0..(i - 1) /\ c.green - s.green \in 0..(j - 1) /\ c.blue - s.blue \in 0..(k - 1)
  BY <1>2, <1>3, <1>4, <1>5, <1>16
<1> QED BY <1>6, <1>11, <1>13, <1>18, <1>19, <1>8, Zenon DEF PixelKeeps

\* The 16-bit format.
LEMMA PixelLaw16 ==
    ASSUME NEW c \in Color
    PROVE  PixelKeeps(c, 16)
<1>1. c.red \in Byte /\ c.green \in Byte /\ c.blue \in Byte
  BY ColorLaw
<1>2. PICK r \in 0..31 : /\ r = c.red \div 8 /\ c.red - r * 8 \in 0..7 /\ (r * 8) \div 8 = r
  BY <1>1, ByteSplit
<1>3. PICK g \in 0..63 : /\ g = c.green \div 4 /\ c.green - g * 4 \in 0..3 /\ (g * 4) \div 4 = g
  BY <1>1, ByteSplit
<1>4. PICK b \in 0..31 : /\ b = c.blue \div 8 /\ c.blue - b * 8 \in 0..7 /\ (b * 8) \div 8 = b
  BY <1>1, ByteSplit
<1>5. PICK i \in Nat, j \in Nat, k \in Nat, m \in Nat, h \in Nat, n \in Nat :
        i = 8 /\ j = 4 /\ k = 8 /\ m = 2048 /\ h = 64 /\ n = 32
  OBVIOUS
<1>6. /\ 2^(8 - 5) = i /\ 2^(8 - 6) = j /\ 2^(8 - 5) = k
      /\ 2^(6 + 5) = m /\ 2^6 = h /\ 2^5 = n
  BY <1>5
<1>7. Depth[16] = <<5, 6, 5>>
  BY DEF Depth
<1>8. Depth[16][1] = 5 /\ Depth[16][2] = 6 /\ Depth[16][3] = 5
  BY <1>7
<1>9. PICK x \in Nat : x = r * 2048 + g * 32 + b
  OBVIOUS
<1>10. Pixel(c, 16) = (c.red \div i) * m + (c.green \div j) * n + (c.blue \div k)
  BY <1>6, <1>8, Zenon DEF Pixel, Kept
<1>11. Pixel(c, 16) = x
  BY <1>2, <1>3, <1>4, <1>5, <1>9, <1>10
<1>12. x \div m = r /\ (x \div n) % h = g /\ x % n = b
  BY <1>5, <1>9
<1>13. PICK s : s = FromPixel(x, 16)
  OBVIOUS
<1>14. s = Rgba((x \div m) * i, ((x \div n) % h) * j, (x % n) * k, 0)
  BY <1>6, <1>13, <1>8, Zenon DEF FromPixel
<1>15. s = Rgba(r * i, g * j, b * k, 0)
  BY <1>12, <1>14, Zenon
<1>16. s.red = r * 8 /\ s.green = g * 4 /\ s.blue = b * 8
  BY <1>5, <1>15 DEF Rgba
<1>17. Pixel(s, 16) = (s.red \div i) * m + (s.green \div j) * n + (s.blue \div k)
  BY <1>6, <1>8, Zenon DEF Pixel, Kept
<1>18. Pixel(s, 16) = x
  BY <1>2, <1>3, <1>4, <1>5, <1>9, <1>16, <1>17
<1>19. c.red - s.red \in 0..(i - 1) /\ c.green - s.green \in 0..(j - 1) /\ c.blue - s.blue \in 0..(k - 1)
  BY <1>2, <1>3, <1>4, <1>5, <1>16
<1> QED BY <1>6, <1>11, <1>13, <1>18, <1>19, <1>8, Zenon DEF PixelKeeps

\* The 24-bit format.
LEMMA PixelLaw24 ==
    ASSUME NEW c \in Color
    PROVE  PixelKeeps(c, 24)
<1>1. c.red \in Byte /\ c.green \in Byte /\ c.blue \in Byte
  BY ColorLaw
<1>2. PICK r \in 0..255 : /\ r = c.red \div 1 /\ c.red - r * 1 \in 0..0 /\ (r * 1) \div 1 = r
  BY <1>1 DEF Byte
<1>3. PICK g \in 0..255 : /\ g = c.green \div 1 /\ c.green - g * 1 \in 0..0 /\ (g * 1) \div 1 = g
  BY <1>1 DEF Byte
<1>4. PICK b \in 0..255 : /\ b = c.blue \div 1 /\ c.blue - b * 1 \in 0..0 /\ (b * 1) \div 1 = b
  BY <1>1 DEF Byte
<1>5. PICK i \in Nat, j \in Nat, k \in Nat, m \in Nat, h \in Nat, n \in Nat :
        i = 1 /\ j = 1 /\ k = 1 /\ m = 65536 /\ h = 256 /\ n = 256
  OBVIOUS
<1>6. /\ 2^(8 - 8) = i /\ 2^(8 - 8) = j /\ 2^(8 - 8) = k
      /\ 2^(8 + 8) = m /\ 2^8 = h /\ 2^8 = n
  BY <1>5
<1>7. Depth[24] = <<8, 8, 8>>
  BY DEF Depth
<1>8. Depth[24][1] = 8 /\ Depth[24][2] = 8 /\ Depth[24][3] = 8
  BY <1>7
<1>9. PICK x \in Nat : x = r * 65536 + g * 256 + b
  OBVIOUS
<1>10. Pixel(c, 24) = (c.red \div i) * m + (c.green \div j) * n + (c.blue \div k)
  BY <1>6, <1>8, Zenon DEF Pixel, Kept
<1>11. Pixel(c, 24) = x
  BY <1>2, <1>3, <1>4, <1>5, <1>9, <1>10
<1>12. x \div m = r /\ (x \div n) % h = g /\ x % n = b
  BY <1>5, <1>9
<1>13. PICK s : s = FromPixel(x, 24)
  OBVIOUS
<1>14. s = Rgba((x \div m) * i, ((x \div n) % h) * j, (x % n) * k, 0)
  BY <1>6, <1>13, <1>8, Zenon DEF FromPixel
<1>15. s = Rgba(r * i, g * j, b * k, 0)
  BY <1>12, <1>14, Zenon
<1>16. s.red = r * 1 /\ s.green = g * 1 /\ s.blue = b * 1
  BY <1>5, <1>15 DEF Rgba
<1>17. Pixel(s, 24) = (s.red \div i) * m + (s.green \div j) * n + (s.blue \div k)
  BY <1>6, <1>8, Zenon DEF Pixel, Kept
<1>18. Pixel(s, 24) = x
  BY <1>2, <1>3, <1>4, <1>5, <1>9, <1>16, <1>17
<1>19. c.red - s.red \in 0..(i - 1) /\ c.green - s.green \in 0..(j - 1) /\ c.blue - s.blue \in 0..(k - 1)
  BY <1>2, <1>3, <1>4, <1>5, <1>16
<1> QED BY <1>6, <1>11, <1>13, <1>18, <1>19, <1>8, Zenon DEF PixelKeeps

\* The 32-bit format loses nothing.
LEMMA PixelLaw32 ==
    ASSUME NEW c \in Color
    PROVE  FromPixel32(Pixel32(c)) = c
<1>1. PICK r \in 0..255, g \in 0..255, b \in 0..255 : r = c.red /\ g = c.green /\ b = c.blue
  BY ColorLaw DEF Byte
<1>2. PICK i \in Nat, m \in Nat, n \in Nat : i = 1 /\ m = 65536 /\ n = 256
  OBVIOUS
<1>3. 2^(8 - 8) = i /\ 2^(8 + 8) = m /\ 2^8 = n
  BY <1>2
<1>4. Depth[32][1] = 8 /\ Depth[32][2] = 8 /\ Depth[32][3] = 8
  BY DEF Depth
<1>5. Pixel(c, 32) = (c.red \div i) * m + (c.green \div i) * n + (c.blue \div i)
  BY <1>3, <1>4, Zenon DEF Pixel, Kept
<1>6. PICK x \in Nat : x = r * 65536 + g * 256 + b
  OBVIOUS
<1>7. Pixel(c, 32) = x
  BY <1>1, <1>2, <1>5, <1>6
<1>8. x \div m = r /\ (x \div n) % n = g /\ x % n = b
  BY <1>2, <1>6
<1>9. FromPixel(x, 32) = Rgba((x \div m) * i, ((x \div n) % n) * i, (x % n) * i, 0)
  BY <1>3, <1>4, Zenon DEF FromPixel
<1>10. r * i = r /\ g * i = g /\ b * i = b
  BY <1>2
<1>11. FromPixel(x, 32) = Rgba(r, g, b, 0)
  BY <1>8, <1>9, <1>10, Zenon
<1>12. PICK a : a = c.alpha
  OBVIOUS
<1>13. Pixel32(c) = <<a, x>>
  BY <1>7, <1>12 DEF Pixel32
<1>14. FromPixel32(Pixel32(c)) = [Rgba(r, g, b, 0) EXCEPT !.alpha = a]
  BY <1>11, <1>13 DEF FromPixel32
<1>15. [Rgba(r, g, b, 0) EXCEPT !.alpha = a] = Rgba(r, g, b, a)
  BY DEF Rgba
<1> QED BY <1>1, <1>12, <1>14, <1>15, ColorLaw
=============================================================================
