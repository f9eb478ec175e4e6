------------------------------ MODULE UvcImages ------------------------------
(***************************************************************************)
(* From the bytes of a frame to the picture a script shows: the conversion *)
(* FrameCallback makes of each frame (tcluvc.c, libuvc's frame.c), the     *)
(* settings of orientation, mirroring and grey shift, and the commands     *)
(* image, tophoto, mcopy and mbcopy.                                       *)
(*                                                                         *)
(* A frame is the memory it lies in: a function from offsets to bytes (to  *)
(* words in a GRAY16 frame).  An image is read through a block, which is   *)
(* where its first pixel lies and the distances to the next pixel and the  *)
(* next line.  The hand-over of frames between threads is the business of  *)
(* module TcluvcCapture; here a frame arrives between two commands.  The   *)
(* capture is the usual one, conv on, where the callback converts; without *)
(* it GetImage would, and would then free a frame that is libuvc's.  Tk,   *)
(* the JPEG library and the camera are external.  The specification has    *)
(* names of its own, ImagesSpec and so on, so that a module can extend     *)
(* this one and AviWriter: both are about what becomes of a frame.         *)
(*                                                                         *)
(* A definition named X_Y is the definition X with a slip Y in it: the     *)
(* properties are tried on those too.  ImagesNext does not use them.       *)
(***************************************************************************)
EXTENDS Integers, Sequences, FiniteSets

CONSTANTS
  Cameras,     \* records of a width w, a height h and a format
  Scenes,      \* what a camera sees: brightness and colour
  Shifts,      \* arguments of uvc greyshift
  Degrees,     \* arguments of uvc orientation
  Turns,       \* arguments ?rotation mirrorx mirrory? of uvc tophoto
  Masks,       \* masks <<alpha, red, green, blue>> of mcopy and mbcopy
  MaxCommands  \* bound: commands that write a photo or a byte array

Formats == {"YUYV", "UYVY", "MJPEG", "GRAY16"}

\* The converters write eight pixels in each round of their loop, so a frame
\* of any other size would be overrun.
ASSUME ImagesAssumption ==
  /\ \A c \in Cameras : /\ c.w \in Nat \ {0} /\ c.h \in Nat \ {0}
                        /\ c.format \in Formats /\ (c.w * c.h) % 8 = 0
  /\ \A s \in Scenes : s \in [luma : 0 .. 255, u : 0 .. 255, v : 0 .. 255]
  /\ Shifts \subseteq -8 .. 8 /\ Degrees \subseteq Int
  /\ Turns \subseteq [rot : Int, x : BOOLEAN, y : BOOLEAN]
  /\ \A m \in Masks : \A k \in 1 .. 4 : m[k] \in 0 .. 255
  /\ MaxCommands \in Nat

VARIABLES
  cam,    \* the camera
  tuvc,   \* the device: frame, rotate, mirror and greyshift
  photo,  \* the photo images of the script
  bytes,  \* the byte arrays of the script, as uvc image returns them
  count   \* commands that wrote a photo or a byte array

imageVars == <<cam, tuvc, photo, bytes, count>>

Names == {"left", "right"}

NoFrame == [format |-> "none"]
NoBytes == [bpp |-> 0]
NoPhoto == [w |-> 0, h |-> 0, px |-> <<>>]
-----------------------------------------------------------------------------
(* The camera.  Pixels differ in brightness; two pixels of a line share    *)
(* their colour, and no two such pairs have the same.                      *)

Luma(s, i) == (s.luma + 29 * i) % 256
U(s, i)    == (s.u + 37 * (i \div 2)) % 256
V(s, i)    == (s.v + 53 * (i \div 2)) % 256
Grey(s, i) == (16 * s.luma + 517 * i) % 4096    \* a sensor of twelve bits

Sat(i) == IF i > 255 THEN 255 ELSE IF i < 0 THEN 0 ELSE i

\* the colour BT.601 gives a pixel, in the terms of YUYV2RGB_2
Colour(y, u, v) ==
  <<Sat(y + (1402 * (v - 128)) \div 1000),
    Sat(y + (-344 * (u - 128) - 714 * (v - 128)) \div 1000),
    Sat(y + (1772 * (u - 128)) \div 1000)>>

\* the pixels of a frame as they should be seen, with the grey shift in force
Seen(c, s, shift, i) ==
  IF c.format = "GRAY16"
  THEN LET g == Grey(s, i) \div 2^shift IN <<g, g, g>>
  ELSE Colour(Luma(s, i), U(s, i), V(s, i))

\* the frame libuvc hands over; an MJPEG frame is the scene itself
Sent(c, s) ==
  LET n == c.w * c.h
      Data(at) == [k \in 0 .. 2 * n - 1 |-> at[(k % 4) + 1][k \div 2]]
      Y == [i \in 0 .. n - 1 |-> Luma(s, i)]
      Us == [i \in 0 .. n - 1 |-> U(s, i)]
      Vs == [i \in 0 .. n - 1 |-> V(s, i)]
  IN [format |-> c.format, w |-> c.w, h |-> c.h, scene |-> s,
      data |-> CASE c.format = "YUYV"   -> Data(<<Y, Us, Y, Vs>>)
                 [] c.format = "UYVY"   -> Data(<<Us, Y, Vs, Y>>)
                 [] c.format = "GRAY16" -> [i \in 0 .. n - 1 |-> Grey(s, i)]
                 [] OTHER               -> <<>>]
-----------------------------------------------------------------------------
(* libuvc: conversions                                                     *)

\* IYUYV2RGB_2 and IUYVY2RGB_2: two pixels from a pair, six bytes
Pair2RGB(y0, u, y1, v) ==
  LET r == (22987 * (v - 128)) \div 16384
      g == (-5636 * (u - 128) - 11698 * (v - 128)) \div 16384
      b == (29049 * (u - 128)) \div 16384
  IN <<Sat(y0 + r), Sat(y0 + g), Sat(y0 + b),
       Sat(y1 + r), Sat(y1 + g), Sat(y1 + b)>>

uvc_yuyv2rgb(f) ==
  [k \in 0 .. 3 * f.w * f.h - 1 |->
     LET p == 4 * (k \div 6)
     IN Pair2RGB(f.data[p], f.data[p + 1], f.data[p + 2], f.data[p + 3])
          [(k % 6) + 1]]

uvc_uyvy2rgb(f) ==
  [k \in 0 .. 3 * f.w * f.h - 1 |->
     LET p == 4 * (k \div 6)
     IN Pair2RGB(f.data[p + 1], f.data[p], f.data[p + 3], f.data[p + 2])
          [(k % 6) + 1]]

\* a word shifted to the right, or to the left by a negative number
Shifted(word, shift) ==
  IF shift > 0 THEN word \div 2^shift ELSE word * 2^(-shift)

\* uvc_gray16to8: the shifted word is stored in a byte
uvc_gray16to8(f, shift) ==
  [k \in 0 .. f.w * f.h - 1 |-> Shifted(f.data[k], shift) % 256]

uvc_mjpeg2rgb(f) ==
  [k \in 0 .. 3 * f.w * f.h - 1 |->
     LET i == k \div 3
     IN Colour(Luma(f.scene, i), U(f.scene, i), V(f.scene, i))[(k % 3) + 1]]

\* what FrameCallback makes of a frame; the line of the result is as long as
\* its pixels
Converted(f, shift) ==
  LET bpp == IF f.format = "GRAY16" THEN 1 ELSE 3
  IN [format |-> IF bpp = 1 THEN "GRAY8" ELSE "RGB",
      w |-> f.w, h |-> f.h, step |-> f.w * bpp, scene |-> f.scene,
      shift |-> shift,
      data |-> CASE f.format = "YUYV"   -> uvc_yuyv2rgb(f)
                 [] f.format = "UYVY"   -> uvc_uyvy2rgb(f)
                 [] f.format = "GRAY16" -> uvc_gray16to8(f, shift)
                 [] OTHER               -> uvc_mjpeg2rgb(f)]
-----------------------------------------------------------------------------
(* Blocks and photo images                                                 *)

BytesPerPixel(f) == IF f.format = "GRAY8" THEN 1 ELSE 3

\* the block of an image that lies in memory line by line
Block(w, h, bpp, pitch) ==
  [pixelPtr |-> 0, pixelSize |-> bpp, pitch |-> pitch, width |-> w,
   height |-> h,
   offset |-> IF bpp = 1 THEN <<0, 0, 0>> ELSE <<0, 1, 2>>]

\* the switch over the rotation
Rotated(b, rot) ==
  LET w == b.width  h == b.height  ps == b.pixelSize
  IN CASE rot = 270 -> [b EXCEPT !.pitch = ps,
                                 !.pixelPtr = w * ps * (h - 1),
                                 !.pixelSize = ps * (-w),
                                 !.width = h, !.height = w]
       [] rot = 180 -> [b EXCEPT !.pitch = -@,
                                 !.pixelPtr = (w * h - 1) * ps,
                                 !.pixelSize = -ps]
       [] rot = 90  -> [b EXCEPT !.pitch = -ps,
                                 !.pixelPtr = (w - 1) * ps,
                                 !.pixelSize = ps * w,
                                 !.width = h, !.height = w]
       [] OTHER     -> b

\* Oriented without the rotation that mirroring both ways amounts to
Oriented_OneMirror(b, rot, mirror) ==
  LET r == Rotated(b, rot)
  IN CASE mirror = 2 ->
            [r EXCEPT !.pixelPtr = @ + (r.width - 1) * r.pixelSize,
                      !.pixelSize = -@]
       [] mirror = 1 ->
            [r EXCEPT !.pixelPtr = @ + r.pitch * (r.height - 1),
                      !.pitch = -@]
       [] OTHER      -> r

\* GetImage and DataToPhoto: bit 0 of mirror is the script's x, bit 1 its y
Oriented(b, rot, mirror) ==
  LET r == Rotated(b, IF mirror = 3 THEN (rot + 180) % 360 ELSE rot)
  IN CASE mirror = 2 ->
            [r EXCEPT !.pixelPtr = @ + (r.width - 1) * r.pixelSize,
                      !.pixelSize = -@]
       [] mirror = 1 ->
            [r EXCEPT !.pixelPtr = @ + r.pitch * (r.height - 1),
                      !.pitch = -@]
       [] OTHER      -> r

\* a byte read outside the frame is none the camera sent
Outside == -1
ByteAt(data, at) == IF at \in DOMAIN data THEN data[at] ELSE Outside

\* Tk_PhotoExpand and Tk_PhotoPutBlock at the origin: a photo never shrinks,
\* what it gains is transparent, and the block is opaque
Larger(i, j) == IF i > j THEN i ELSE j
PutBlock(ph, b, data) ==
  LET w == Larger(ph.w, b.width)
      h == Larger(ph.h, b.height)
      Byte(x, y, k) ==
        ByteAt(data, b.pixelPtr + x * b.pixelSize + y * b.pitch + b.offset[k])
  IN [w |-> w, h |-> h,
      px |-> [at \in (0 .. w - 1) \X (0 .. h - 1) |->
                IF at[1] < b.width /\ at[2] < b.height
                THEN <<Byte(at[1], at[2], 1), Byte(at[1], at[2], 2),
                       Byte(at[1], at[2], 3), 255>>
                ELSE IF at[1] < ph.w /\ at[2] < ph.h
                THEN ph.px[at]
                ELSE <<0, 0, 0, 0>>]]

\* orientation and DataToPhoto: C's % of a negative angle is not positive
RightAngle(degrees) ==
  IF degrees < 0 THEN 0
  ELSE CASE degrees % 360 \in 45 .. 134  -> 90
         [] degrees % 360 \in 135 .. 224 -> 180
         [] degrees % 360 \in 225 .. 314 -> 270
         [] OTHER                        -> 0

Mirror(x, y) == (IF x THEN 1 ELSE 0) + (IF y THEN 2 ELSE 0)

\* x & y, of bytes
Bit(x, n) == (x \div 2^n) % 2
And(x, y) ==
  LET both(n) == 2^n * Bit(x, n) * Bit(y, n)
  IN both(0) + both(1) + both(2) + both(3)
       + both(4) + both(5) + both(6) + both(7)

\* (dst & ~mask) | (src & mask)
Masked(dst, src, mask) == And(dst, 255 - mask) + And(src, mask)

\* mcopy on the pixels of two photos of one size
MaskedPixels(dst, src, m) ==
  [at \in DOMAIN dst |->
     <<Masked(dst[at][1], src[at][1], m[2]),
       Masked(dst[at][2], src[at][2], m[3]),
       Masked(dst[at][3], src[at][3], m[4]),
       Masked(dst[at][4], src[at][4], m[1])>>]

\* MaskedBytes with the masks of red and blue exchanged
MaskedBytes_Swapped(dst, src, m) ==
  [k \in DOMAIN dst |-> Masked(dst[k], src[k], m[4 - (k % 3)])]

\* mbcopy on two byte arrays of one length: red, green and blue in turn
MaskedBytes(dst, src, m) ==
  [k \in DOMAIN dst |-> Masked(dst[k], src[k], m[(k % 3) + 2])]
-----------------------------------------------------------------------------
ImagesInit ==
  /\ cam \in Cameras
  /\ tuvc = [frame |-> NoFrame, rotate |-> 0, mirror |-> 0, greyshift |-> 4]
  /\ photo = [n \in Names |-> NoPhoto]
  /\ bytes = [n \in Names |-> NoBytes]
  /\ count = 0

\* a frame of the scene s arrives and replaces the last one
FrameCallback(s) ==
  /\ tuvc' = [tuvc EXCEPT !.frame = Converted(Sent(cam, s), tuvc.greyshift)]
  /\ UNCHANGED <<cam, photo, bytes, count>>

\* a bound: the settings are made before the first command that writes
Early == count = 0

\* uvc orientation devid degrees
Orientation(degrees) ==
  /\ Early
  /\ tuvc' = [tuvc EXCEPT !.rotate = RightAngle(degrees)]
  /\ UNCHANGED <<cam, photo, bytes, count>>

\* uvc mirror devid x y
SetMirror(x, y) ==
  /\ Early
  /\ tuvc' = [tuvc EXCEPT !.mirror = Mirror(x, y)]
  /\ UNCHANGED <<cam, photo, bytes, count>>

\* uvc greyshift devid shift; a bound: other cameras take no notice of it
GreyShift(shift) ==
  /\ Early /\ cam.format = "GRAY16"
  /\ tuvc' = [tuvc EXCEPT !.greyshift = shift]
  /\ UNCHANGED <<cam, photo, bytes, count>>

\* a command that writes a photo or a byte array
Command ==
  /\ count < MaxCommands
  /\ count' = count + 1
  /\ UNCHANGED <<cam, tuvc>>

\* uvc image devid photo: the frame stays the last one
GetImage(n) ==
  LET f == tuvc.frame
      b == Block(f.w, f.h, BytesPerPixel(f), f.step)
      shown == Oriented(b, tuvc.rotate, tuvc.mirror)
  IN /\ Command
     /\ f # NoFrame
     /\ photo' = [photo EXCEPT ![n] = PutBlock(@, shown, f.data)]
     /\ UNCHANGED bytes

\* uvc image devid: the pixels as they lie, orientation or not
GetBytes(n) ==
  LET f == tuvc.frame
  IN /\ Command
     /\ f # NoFrame
     /\ bytes' = [bytes EXCEPT ![n] =
                    [w |-> f.w, h |-> f.h, bpp |-> BytesPerPixel(f),
                     data |-> f.data, scene |-> f.scene, shift |-> f.shift]]
     /\ UNCHANGED photo

\* what uvc tophoto puts into a photo
Toned(d, t) ==
  Oriented(Block(d.w, d.h, d.bpp, d.w * d.bpp), RightAngle(t.rot),
           Mirror(t.x, t.y))

\* uvc tophoto photo width height bpp bytearray rotation mirrorx mirrory, of
\* an array into the photo of the same name
DataToPhoto(n, t) ==
  /\ Command
  /\ bytes[n] # NoBytes
  /\ photo' = [photo EXCEPT ![n] =
                 PutBlock(@, Toned(bytes[n], t), bytes[n].data)]
  /\ UNCHANGED bytes

\* uvc mcopy photo1 photo2 mask
MCopy(m) ==
  /\ Command
  /\ photo["left"].w = photo["right"].w /\ photo["left"].h = photo["right"].h
  /\ photo' = [photo EXCEPT !["left"].px =
                 MaskedPixels(@, photo["right"].px, m)]
  /\ UNCHANGED bytes

\* both arrays have one length, a multiple of three
Compatible(a, b) ==
  /\ a # NoBytes /\ b # NoBytes
  /\ a.w * a.h * a.bpp = b.w * b.h * b.bpp /\ (a.w * a.h * a.bpp) % 3 = 0

\* uvc mbcopy bytearray1 bytearray2 mask
MBCopy(m) ==
  /\ Command
  /\ Compatible(bytes["left"], bytes["right"])
  /\ bytes' = [bytes EXCEPT !["left"].data =
                              MaskedBytes(@, bytes["right"].data, m),
                            !["left"].scene = NoFrame]
  /\ UNCHANGED photo

ImagesNext ==
  \/ \E s \in Scenes : FrameCallback(s)
  \/ \E degrees \in Degrees : Orientation(degrees)
  \/ \E x, y \in BOOLEAN : SetMirror(x, y)
  \/ \E shift \in Shifts : GreyShift(shift)
  \/ \E n \in Names : GetImage(n) \/ GetBytes(n)
  \/ \E n \in Names, t \in Turns : DataToPhoto(n, t)
  \/ \E m \in Masks : MCopy(m) \/ MBCopy(m)

ImagesSpec == ImagesInit /\ [][ImagesNext]_imageVars
-----------------------------------------------------------------------------
\* Every byte of a frame, a photo or an array is one: no conversion or block read
\* yields another value, or a byte outside the data (Outside).
Bytes(s) == \A k \in DOMAIN s : s[k] \in 0 .. 255

ImagesTypeOK ==
  /\ cam \in Cameras
  /\ count \in 0 .. MaxCommands
  /\ tuvc.rotate \in {0, 90, 180, 270} /\ tuvc.mirror \in 0 .. 3
  /\ tuvc.frame # NoFrame => Bytes(tuvc.frame.data)
  /\ \A n \in Names :
       /\ DOMAIN photo[n].px \subseteq
            (0 .. photo[n].w - 1) \X (0 .. photo[n].h - 1)
       /\ \A p \in DOMAIN photo[n].px : Bytes(photo[n].px[p])
       /\ bytes[n] # NoBytes => Bytes(bytes[n].data)
-----------------------------------------------------------------------------
(* What a picture should look like, by quarter turns and flips of the      *)
(* whole image.                                                            *)

QuarterTurn(i) ==    \* counterclockwise
  [w |-> i.h, h |-> i.w,
   at |-> [p \in (0 .. i.h - 1) \X (0 .. i.w - 1) |->
             i.at[<<i.w - 1 - p[2], p[1]>>]]]
RowsReversed(i) ==
  [i EXCEPT !.at = [p \in DOMAIN @ |-> @[<<p[1], i.h - 1 - p[2]>>]]]
ColumnsReversed(i) ==
  [i EXCEPT !.at = [p \in DOMAIN @ |-> @[<<i.w - 1 - p[1], p[2]>>]]]

Picture(scene, shift) ==
  [w |-> cam.w, h |-> cam.h,
   at |-> [p \in (0 .. cam.w - 1) \X (0 .. cam.h - 1) |->
             Seen(cam, scene, shift, p[1] + cam.w * p[2])]]

Turned(i, rot) ==
  CASE rot = 0   -> i
    [] rot = 90  -> QuarterTurn(i)
    [] rot = 180 -> QuarterTurn(QuarterTurn(i))
    [] rot = 270 -> QuarterTurn(QuarterTurn(QuarterTurn(i)))

Flipped(i, x, y) ==
  LET j == IF x THEN RowsReversed(i) ELSE i
  IN IF y THEN ColumnsReversed(j) ELSE j

\* the photo has the picture in its corner; the fixed-point arithmetic may be
\* off by two
Close(a, b) == a - b \in -2 .. 2
Shows(ph, i) ==
  /\ i.w =< ph.w /\ i.h =< ph.h
  /\ \A p \in DOMAIN i.at, k \in 1 .. 3 : Close(ph.px[p][k], i.at[p][k])

(***************************************************************************)
(* Either way to a photo shows what the camera saw: uvc image, and uvc     *)
(* tophoto with a byte array from uvc image.  Each pixel of the picture,   *)
(* turned and mirrored as asked, has the colour of the scene to within the *)
(* rounding of the fixed-point conversion, so no line, channel or pair of  *)
(* pixels is taken for another and no byte is read outside the frame.  A   *)
(* grey picture keeps its brightness as long as the shift leaves eight     *)
(* bits of the twelve (tcluvc.c:2365, tcluvc.c:1834).                      *)
(***************************************************************************)
Legible(shift) == cam.format = "GRAY16" => shift >= 4

PictureShown ==
  [][\A n \in Names :
       LET f == tuvc.frame
       IN /\ GetImage(n) /\ Legible(f.shift) =>
               Shows(photo'[n],
                     Flipped(Turned(Picture(f.scene, f.shift), tuvc.rotate),
                             tuvc.mirror % 2 = 1, tuvc.mirror >= 2))
          /\ \A t \in Turns :
               LET d == bytes[n]
               IN DataToPhoto(n, t) /\ d.scene # NoFrame
                    /\ Legible(d.shift) =>
                    Shows(photo'[n],
                          Flipped(Turned(Picture(d.scene, d.shift),
                                         RightAngle(t.rot)), t.x, t.y))]_imageVars

(***************************************************************************)
(* The two ways to an anaglyph agree: combining byte arrays by mbcopy and  *)
(* then showing the result gives the picture that combining the shown      *)
(* photos by mcopy with the same mask gives, however they are turned.      *)
(* This is of arrays with three bytes a pixel, as doc/uvc.n:386 wants them *)
(* and mbcopy does not ask: grey arrays of a length it accepts would be    *)
(* combined by position (tcluvc.c:3404).                                   *)
(***************************************************************************)
AnaglyphsAgree ==
  LET l == bytes["left"]  r == bytes["right"]
      Shown(d, t) == PutBlock(NoPhoto, Toned(l, t), d).px
  IN Compatible(l, r) /\ l.bpp = 3 =>
       \A m \in Masks, t \in Turns :
         Shown(MaskedBytes(l.data, r.data, m), t) =
           MaskedPixels(Shown(l.data, t), Shown(r.data, t), m)
=============================================================================
