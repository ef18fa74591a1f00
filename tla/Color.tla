------------------------------- MODULE Color -------------------------------
(***************************************************************************)
(* Colours of the graphics library: color.rs and the table of ansi.rs.     *)
(* A channel is an unsigned byte.                                          *)
(***************************************************************************)
EXTENDS Integers, Sequences, FiniteSetsExt

Rgba(r, g, b, a) == [red |-> r, green |-> g, blue |-> b, alpha |-> a]

Byte  == 0..255
Color == [red : Byte, green : Byte, blue : Byte, alpha : Byte]

BRIGHTNESS_SHIFT == 85

\* BLACK, RED, GREEN, YELLOW, BLUE, MAGENTA, CYAN, WHITE: bit k of the number of
\* an ANSI colour says whether its channel k is lit.
AnsiColors ==
    [n \in 0..7 |-> Rgba(170 * (n % 2), 170 * ((n \div 2) % 2), 170 * (n \div 4), 255)]

BLACK == AnsiColors[0]
WHITE == AnsiColors[7]

\* A function of one channel, applied to red, green and blue.
EachChannel(c, Op(_)) == Rgba(Op(c.red), Op(c.green), Op(c.blue), c.alpha)

bright(c) == EachChannel(c, LAMBDA x : Min({x + BRIGHTNESS_SHIFT, 255}))

dim(c) == EachChannel(c, LAMBDA x : Max({x - BRIGHTNESS_SHIFT, 0}))

-----------------------------------------------------------------------------
(* COLOR_TABLE_256: colours of 4 bits, a cube of 6 * 6 * 6, and greys. *)

\* Mutant: the bright half of the predefined colours is left out.
PredefinedPlain(i) == AnsiColors[i % 8]

Predefined(i) == IF i < 8 THEN AnsiColors[i] ELSE bright(AnsiColors[i - 8])

Cube(i) ==
    LET level(k) == IF k = 0 THEN 0 ELSE 55 + 40 * k
    IN  Rgba(level(i \div 36), level((i \div 6) % 6), level(i % 6), 255)

Grey(i) == Rgba(8 + 10 * i, 8 + 10 * i, 8 + 10 * i, 255)

COLOR_TABLE_256(i) ==
    CASE i \in 0..15    -> Predefined(i)
      [] i \in 16..231  -> Cube(i - 16)
      [] i \in 232..255 -> Grey(i - 232)

-----------------------------------------------------------------------------
(* Pixel formats.  The width in bits of red, green and blue in a pixel.     *)

Depth == [d \in {15, 16, 24, 32} |->
            CASE d = 15 -> <<5, 5, 5>> [] d = 16 -> <<5, 6, 5>> [] OTHER -> <<8, 8, 8>>]

Kept(x, bits) == x \div 2^(8 - bits)

\* Mutant: green is shifted as in the 15-bit format.
PixelGreen5(c, bpp) ==
    LET w == Depth[bpp] IN
    Kept(c.red, w[1]) * 2^(w[2] + w[3]) + Kept(c.green, 5) * 2^w[3] + Kept(c.blue, w[3])

\* rgb_15, rgb_16, rgb_24: the high bits of each channel, red on top.
\* (rgb_32 has alpha above them.)
Pixel(c, bpp) ==
    LET w == Depth[bpp] IN
    Kept(c.red, w[1]) * 2^(w[2] + w[3]) + Kept(c.green, w[2]) * 2^w[3] + Kept(c.blue, w[3])

\* from_rgb_15, from_rgb_16, from_rgb_24: alpha is not in the pixel.
FromPixel(rgb, bpp) ==
    LET w == Depth[bpp] IN
    Rgba((rgb \div 2^(w[2] + w[3])) * 2^(8 - w[1]),
         ((rgb \div 2^w[3]) % 2^w[2]) * 2^(8 - w[2]),
         (rgb % 2^w[3]) * 2^(8 - w[3]), 0)

\* rgb_32 and from_rgb_32, as a pair: 2^32 is beyond TLC's integers.
Pixel32(c)     == <<c.alpha, Pixel(c, 32)>>
FromPixel32(p) == [FromPixel(p[2], 32) EXCEPT !.alpha = p[1]]
=============================================================================
