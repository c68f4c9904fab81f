------------------------------ MODULE Palette ------------------------------
(***************************************************************************)
(* The shades that the brand package makes of a base colour:               *)
(* T-010-brand-customization/src/brand/color-utils.ts.                     *)
(*                                                                         *)
(* A colour is its three bytes; writing it in hexadecimal and reading it   *)
(* back is left out.  Quotients are rounded exactly where the code rounds  *)
(* doubles, which may differ where a quotient lies halfway.                *)
(***************************************************************************)
EXTENDS Integers, FiniteSets, FiniteSetsExt

CONSTANT BaseLevels    \* the values that a byte of a base colour may have

PaletteAssumption == BaseLevels \subseteq 0 .. 255 /\ BaseLevels # {}
ASSUME PaletteAssumption

VARIABLES base, palette

paletteVars == <<base, palette>>

RGB == [r : 0 .. 255, g : 0 .. 255, b : 0 .. 255]
HSL == [h : 0 .. 360, s : 0 .. 100, l : 0 .. 100]

\* Math.round(n / d), with d > 0: halves go up.
Round(n, d) == (2 * n + d) \div (2 * d)

Brightest(c) == Max({c.r, c.g, c.b})
Darkest(c) == Min({c.r, c.g, c.b})
Magnitude(n) == IF n < 0 THEN -n ELSE n

\* The hue lies in the sextants about the greatest byte, red first.
Hue(c) ==
    LET delta == Brightest(c) - Darkest(c)
    IN  IF delta = 0 THEN 0
        ELSE IF Brightest(c) = c.r
             THEN Round(60 * (c.g - c.b) + (IF c.g < c.b THEN 360 * delta ELSE 0), delta)
        ELSE IF Brightest(c) = c.g THEN Round(60 * (c.b - c.r) + 120 * delta, delta)
        ELSE Round(60 * (c.r - c.g) + 240 * delta, delta)

Saturation(c) ==
    LET delta == Brightest(c) - Darkest(c)
        sum == Brightest(c) + Darkest(c)
    IN  IF delta = 0 THEN 0
        ELSE Round(100 * delta, IF sum > 255 THEN 510 - sum ELSE sum)

rgbToHsl(c) ==
    [h |-> Hue(c), s |-> Saturation(c), l |-> Round(100 * (Brightest(c) + Darkest(c)), 510)]

\* hue2rgb in units of 1 / 10000 for p and q and of degrees for t.
hue2rgb(p, q, t) ==
    LET u == IF t < 0 THEN t + 360 ELSE IF t > 360 THEN t - 360 ELSE t
    IN  IF u < 60 THEN 60 * p + (q - p) * u
        ELSE IF u < 180 THEN 60 * q
        ELSE IF u < 240 THEN 60 * p + (q - p) * (240 - u)
        ELSE 60 * p

\* rgbToHex clamps what it is given to a byte.
Byte(n) == Max({0, Min({255, n})})

\* The q and p of the code: how much of a component there is at most and at least.
Upper(hsl) == IF hsl.l < 50 THEN hsl.l * (100 + hsl.s)
              ELSE 100 * (hsl.l + hsl.s) - hsl.l * hsl.s
Lower(hsl) == 200 * hsl.l - Upper(hsl)

ByteAt(hsl, t) == Byte(Round(255 * hue2rgb(Lower(hsl), Upper(hsl), t), 600000))
Grey(hsl) == Byte(Round(255 * hsl.l, 100))

hslToRgb(hsl) ==
    IF hsl.s = 0 THEN [r |-> Grey(hsl), g |-> Grey(hsl), b |-> Grey(hsl)]
    ELSE [r |-> ByteAt(hsl, hsl.h + 120), g |-> ByteAt(hsl, hsl.h), b |-> ByteAt(hsl, hsl.h - 120)]

ColorShade == {50, 100, 200, 300, 400, 500, 600, 700, 800, 900, 950}

SHADE_LIGHTNESS_MAP ==
    [shade \in ColorShade |->
        CASE shade = 50 -> 97 [] shade = 100 -> 94 [] shade = 200 -> 86 [] shade = 300 -> 77
          [] shade = 400 -> 66 [] shade = 500 -> 50 [] shade = 600 -> 42 [] shade = 700 -> 35
          [] shade = 800 -> 27 [] shade = 900 -> 20 [] shade = 950 -> 12]

\* Light shades are turned by a hundredth of their distance from the middle, dark ones back by half
\* of it.  JavaScript's % keeps the sign, so a hue of a dark shade may be below 0.
ShadeHue(h, shade) ==
    LET turned == IF shade < 500 THEN Round(100 * h + (500 - shade), 100)
                  ELSE Round(200 * h + (500 - shade), 200)
    IN  IF turned >= 360 THEN turned - 360 ELSE turned

ShadeSaturation(s, shade) ==
    Min({100, Round(s * (50000 - 15 * Magnitude(shade - 500)), 50000)})

generatePalette(baseHsl) ==
    [shade \in ColorShade |->
        hslToRgb([h |-> ShadeHue(baseHsl.h, shade), s |-> ShadeSaturation(baseHsl.s, shade),
                  l |-> SHADE_LIGHTNESS_MAP[shade]])]

NoPalette == [shade \in {} |-> base]

PaletteInit ==
    /\ base \in [r : BaseLevels, g : BaseLevels, b : BaseLevels]
    /\ palette = NoPalette

PaletteNext ==
    /\ palette = NoPalette
    /\ palette' = generatePalette(rgbToHsl(base))
    /\ UNCHANGED base

PaletteSpec == PaletteInit /\ [][PaletteNext]_paletteVars

----------------------------------------------------------------------------

PaletteTypeOK ==
    /\ base \in RGB
    /\ rgbToHsl(base) \in HSL
    /\ DOMAIN palette \in {{}, ColorShade}
    /\ \A shade \in DOMAIN palette : palette[shade] \in RGB

Light(c) == Brightest(c) + Darkest(c)

\* Whatever the base colour, every shade is darker than the one before it, greys have grey shades,
\* and the order of the three bytes of a saturated base is that of its middle shade: neither the
\* turned hues nor the wrapping of hue2rgb at both ends give a colour of another kind.
ShadesAreOrdered ==
    palette # NoPalette =>
        /\ \A a, b \in ColorShade : a < b => Light(palette[a]) > Light(palette[b])
        /\ Brightest(base) = Darkest(base) =>
              \A shade \in ColorShade : Brightest(palette[shade]) = Darkest(palette[shade])
        /\ \A x, y \in {"r", "g", "b"} : base[x] > base[y] => palette[500][x] >= palette[500][y]

\* A colour taken apart and put together again is the same to within the rounding of its parts.
ColourIsKept ==
    LET kept == hslToRgb(rgbToHsl(base))
    IN  \A x \in {"r", "g", "b"} : Magnitude(kept[x] - base[x]) <= 5

\* The shades of a colour are shades of that colour.
ColoursKeepTheirKind == ShadesAreOrdered /\ ColourIsKept
=============================================================================
