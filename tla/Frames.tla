------------------------------- MODULE Frames -------------------------------
(***************************************************************************)
(* The pixels of a captured frame on their way into an encoder: BGRA to    *)
(* NV12 (Windows), then a copy into the encoder's buffer, which on Windows *)
(* has the size of the first frame.  A byte of a plane is the pixel, or    *)
(* the 2 x 2 block and the component, that it was computed from; rows,     *)
(* columns and offsets count from 0.                                       *)
(***************************************************************************)
EXTENDS Integers, FiniteSets

CONSTANTS
    MaxWidth, MaxHeight, \* bounds: frame sizes
    Padding              \* bound: bytes after a row of a plane that macOS delivers

ASSUME FramesAssumption == MaxWidth \in Nat /\ MaxHeight \in Nat /\ Padding \subseteq Nat

VARIABLES
    stage,       \* "shot", "planes", "copied" or "panicked"
    shot,        \* the captured size
    planes,      \* NV12: width, height, stride, and what each byte of y and uv is
    target,      \* the size of the encoder's buffer
    buffer       \* what it holds: y and uv, by row and column

frameVars == <<stage, shot, planes, target, buffer>>

Size == [width: 0..MaxWidth, height: 0..MaxHeight]
Even(n)     == (n \div 2) * 2
EvenSize(s) == [width |-> Even(s.width), height |-> Even(s.height)]

Outside == <<"outside">>    \* a read past the end
Blank0  == <<"zero">>       \* a byte that nobody wrote

Luma(row, col)   == <<"y", row, col>>
\* What belongs at a column of the chroma plane: U and V of a block, in turn.
Chroma(row, col) == <<IF col % 2 = 0 THEN "u" ELSE "v", row, col \div 2>>

-----------------------------------------------------------------------------
(* BGRA to NV12.                                                            *)

\* The pixel at an offset of the BGRA buffer, whose rows follow one another.
At(s, offset) ==
    IF offset + 2 >= s.width * s.height * 4 THEN Outside
    ELSE <<"y", offset \div (s.width * 4), (offset % (s.width * 4)) \div 4>>

\* The average of a block: of its own four pixels or of something else.
Average(s, by, bx, part) ==
    LET px(dy, dx) == At(s, (by * 2 + dy) * (s.width * 4) + (bx * 2 + dx) * 4)
    IN IF \A dy, dx \in 0..1 : px(dy, dx) = Luma(by * 2 + dy, bx * 2 + dx)
       THEN <<part, by, bx>> ELSE Outside

\* A plane of n bytes after these writes, each an offset and a value.
Plane(n, writes) ==
    [i \in 0 .. n - 1 |-> IF \E x \in writes : x[1] = i
                          THEN (CHOOSE x \in writes : x[1] = i)[2] ELSE Blank0]

\* Mutant of ToNv12: sizes are rounded up.
ToNv12RoundedUp(s) ==
    LET w == Even(s.width + 1)    h == Even(s.height + 1)
    IN [width |-> w, height |-> h, stride |-> w,
        y  |-> Plane(w * h, {<<row * w + col, At(s, row * s.width * 4 + col * 4)>>
                               : row \in 0 .. h - 1, col \in 0 .. w - 1}),
        uv |-> Plane(w * (h \div 2),
                 {<<by * w + bx * 2 + k, Average(s, by, bx, <<"u", "v">>[k + 1])>>
                    : by \in 0 .. h \div 2 - 1, bx \in 0 .. w \div 2 - 1, k \in 0..1})]

ToNv12(s) ==
    LET w == Even(s.width)    h == Even(s.height)
    IN [width |-> w, height |-> h, stride |-> w,
        y  |-> Plane(w * h, {<<row * w + col, At(s, row * s.width * 4 + col * 4)>>
                               : row \in 0 .. h - 1, col \in 0 .. w - 1}),
        uv |-> Plane(w * (h \div 2),
                 {<<by * w + bx * 2 + k, Average(s, by, bx, <<"u", "v">>[k + 1])>>
                    : by \in 0 .. h \div 2 - 1, bx \in 0 .. w \div 2 - 1, k \in 0..1})]

FramesInit ==
    /\ stage = "shot" /\ shot \in Size /\ target \in {EvenSize(s) : s \in Size}
    /\ planes = [width |-> 0, height |-> 0, stride |-> 0, y |-> <<>>, uv |-> <<>>]
    /\ buffer = [y |-> <<>>, uv |-> <<>>]

\* On Windows.
Convert ==
    /\ stage = "shot" /\ stage' = "planes"
    /\ planes' = ToNv12(shot)
    /\ UNCHANGED <<shot, target, buffer>>

\* macOS delivers planes; the buffer has the size of the frame.
Deliver(padding) ==
    LET w == shot.width    h == shot.height    stride == w + padding
        plane(rows, what(_, _)) ==
            [i \in 0 .. stride * rows - 1 |->
               IF i % stride < w THEN what(i \div stride, i % stride) ELSE Blank0]
    IN /\ stage = "shot" /\ EvenSize(shot) = shot
       /\ stage' = "planes" /\ target' = shot
       /\ planes' = [width |-> w, height |-> h, stride |-> stride,
                     y |-> plane(h, Luma), uv |-> plane(h \div 2, Chroma)]
       /\ UNCHANGED <<shot, buffer>>

-----------------------------------------------------------------------------
(* Into the encoder's buffer, row by row.                                    *)

\* Mutant of RowIsThere: the last row is taken to be too short.
RowIsThereStrict(plane, r) ==
    r * planes.stride + target.width < Cardinality(DOMAIN plane)

\* Row r of a plane can be copied.
RowIsThere(plane, r) == r * planes.stride + target.width <= Cardinality(DOMAIN plane)

\* Mutant of Rows: padding is taken for pixels.
RowsPacked(plane, rows) ==
    [x \in (0 .. rows - 1) \X (0 .. target.width - 1) |->
       plane[x[1] * target.width + x[2]]]

Rows(plane, rows) ==
    [x \in (0 .. rows - 1) \X (0 .. target.width - 1) |->
       plane[x[1] * planes.stride + x[2]]]

Fits == /\ \A r \in 0 .. target.height - 1 : RowIsThere(planes.y, r)
        /\ \A r \in 0 .. target.height \div 2 - 1 : RowIsThere(planes.uv, r)

Copy ==
    /\ stage = "planes" /\ Fits
    /\ stage' = "copied"
    /\ buffer' = [y |-> Rows(planes.y, target.height), uv |-> Rows(planes.uv, target.height \div 2)]
    /\ UNCHANGED <<shot, planes, target>>

\* A slice past the end of a plane.
Panic ==
    /\ stage = "planes" /\ ~Fits
    /\ stage' = "panicked"
    /\ UNCHANGED <<shot, planes, target, buffer>>

FramesNext == Convert \/ (\E p \in Padding : Deliver(p)) \/ Copy \/ Panic
FramesSpec == FramesInit /\ [][FramesNext]_frameVars

-----------------------------------------------------------------------------
(* Properties.                                                              *)

FramesTypeOK ==
    /\ stage \in {"shot", "planes", "copied", "panicked"} /\ shot \in Size
    /\ target \in [width: 0..MaxWidth, height: 0..MaxHeight]
    /\ planes.width \in 0..MaxWidth /\ planes.height \in 0..MaxHeight
    /\ planes.stride \in Nat /\ planes.width <= planes.stride
    /\ DOMAIN buffer.y \subseteq Nat \X Nat /\ DOMAIN buffer.uv \subseteq Nat \X Nat

\* Planes of w columns and h rows, in rows of d bytes, hold the picture.
PictureIn(p, w, h, d) ==
    /\ DOMAIN p.y = 0 .. d * h - 1 /\ DOMAIN p.uv = 0 .. d * (h \div 2) - 1
    /\ \A r \in 0 .. h - 1, c \in 0 .. w - 1 : p.y[r * d + c] = Luma(r, c)
    /\ \A r \in 0 .. h \div 2 - 1, c \in 0 .. w - 1 : p.uv[r * d + c] = Chroma(r, c)

PlanesOK == stage # "shot" => PictureIn(planes, planes.width, planes.height, planes.stride)

\* The encoder is given the picture, or the part that it has room for, with every chroma
\* byte beside its own pixels: for odd sizes, padded rows, and frames of another size
\* than the first one that are not narrower.
PictureArrives ==
    stage = "copied" /\ target.width <= planes.width =>
        /\ \A x \in DOMAIN buffer.y : buffer.y[x] = Luma(x[1], x[2])
        /\ \A x \in DOMAIN buffer.uv : buffer.uv[x] = Chroma(x[1], x[2])

\* The thread panics only on a frame that is smaller than the first one.
PanicsOnlyWhenSmaller ==
    stage = "panicked" =>
        planes.width < target.width \/ planes.height < target.height

FramesInv == FramesTypeOK /\ PlanesOK /\ PictureArrives /\ PanicsOnlyWhenSmaller

=============================================================================
