---------------------------- MODULE MCNegotiate ----------------------------
(***************************************************************************)
(* Cameras for UvcNegotiate: ten layouts of descriptors, with the ways    *)
(* cameras answer.                                                         *)
(***************************************************************************)
EXTENDS UvcNegotiate

Fps30 == 333333
Fps25 == 400000
Fps15 == 666666

Large(subtype, index, intervals) ==
  FrameBlock(subtype, index, 640, 480, 614400, intervals[1], intervals,
             NoStep)

Small(subtype, index, intervals) ==
  FrameBlock(subtype, index, 320, 240, 153600, intervals[1], intervals,
             NoStep)

Ranged(subtype, index) ==
  FrameBlock(subtype, index, 640, 480, 614400, Fps30, <<>>,
             [min |-> Fps30, max |-> 1000000, by |-> 66667])

Plain == "FRAME_UNCOMPRESSED"
Motion == "FRAME_MJPEG"

Uncompressed(index, guid) == FormatBlock("FORMAT_UNCOMPRESSED", index, guid)
Mjpeg(index) == FormatBlock("FORMAT_MJPEG", index, "MJPG")

\* MJPEG first, two sizes, a block of a still image between them.
Usual ==
  <<Mjpeg(1), Large(Motion, 1, <<Fps30, Fps25>>), Block("STILL_IMAGE_FRAME"),
    Uncompressed(2, "YUY2"), Small(Plain, 1, <<Fps30, Fps15>>),
    Large(Plain, 2, <<Fps15>>)>>

\* A depth camera, with grey in 16 and in 8 bits.
Depth ==
  <<Uncompressed(1, "Y16"), Large(Plain, 1, <<Fps30>>),
    Uncompressed(2, "Y800"), Small(Plain, 1, <<Fps30>>)>>

\* H.264 in frame based blocks, beside a format that libuvc does not know.
Coded ==
  <<FormatBlock("FORMAT_FRAME_BASED", 1, "H264"),
    Large("FRAME_FRAME_BASED", 1, <<Fps30>>),
    Uncompressed(2, "NV12"), Large(Plain, 1, <<Fps30>>),
    Mjpeg(3), Small(Motion, 1, <<Fps30>>), Block("COLORFORMAT")>>

Other == <<Uncompressed(1, "UYVY"), Large(Plain, 1, <<Fps30, Fps15>>)>>

Stepwise == <<Uncompressed(1, "YUY2"), Ranged(Plain, 1)>>

OnlyMjpeg == <<Mjpeg(1), Small(Motion, 1, <<Fps30>>)>>

\* Frame based blocks of a format that libuvc knows, and an entry of the table
\* with their width and height.
Framed ==
  <<FormatBlock("FORMAT_FRAME_BASED", 1, "YUY2"),
    Large("FRAME_FRAME_BASED", 1, <<Fps30>>),
    Uncompressed(2, "UYVY"), Large(Plain, 1, <<Fps30>>)>>

\* Nothing that tcluvc lists.
OnlyCoded ==
  <<FormatBlock("FORMAT_FRAME_BASED", 1, "H264"),
    Large("FRAME_FRAME_BASED", 1, <<Fps30>>)>>

\* A default interval that is not in the list.
Unlisted ==
  <<Uncompressed(1, "YUY2"),
    FrameBlock(Plain, 1, 640, 480, 614400, Fps25, <<Fps30, Fps15>>, NoStep)>>

Interface(number, alts, blocks) ==
  [number |-> number, alts |-> alts, blocks |-> blocks]

\* Silent is an interface without bandwidth.
Bulk == <<512>>
Silent == <<0, 0>>
Increasing == <<0, 800, 3060>>
Mixed == <<0, 3060, 192>>

\* The last layout has two interfaces that use the same indices.
Layouts(alts) ==
  {<<Interface(1, alts, b)>> : b \in {Usual, Depth, Coded, Other, Stepwise,
                                      OnlyMjpeg, OnlyCoded, Framed,
                                      Unlisted}}
  \union {<<Interface(1, alts, Depth), Interface(2, Increasing, Usual)>>}

Character(bcd, interfaces, obeys, payload, wild, size, fails) ==
  [bcdUVC |-> bcd, interfaces |-> interfaces, obeys |-> obeys,
   payload |-> payload, wild |-> wild, size |-> size, fails |-> fails]

\* Sizes and obedience on every kind of interface; refused requests and rates
\* without a payload; the versions; and no bandwidth.
MCCameras ==
  {Character("1.0", i, o, p, {}, s, {}) :
     i \in UNION {Layouts(a) : a \in {Bulk, Increasing, Mixed}},
     o \in BOOLEAN, p \in {0, 512, 5000, Unlimited}, s \in {"given", "zero"}}
  \union
  {Character("1.0a", i, TRUE, p, w, "unset", f) :
     i \in Layouts(Increasing), p \in {512, Unlimited}, w \in {{}, {Fps30}},
     f \in {{}, {"GET_MAX"}, {"GET_CUR"}, {"hinted"}, {"GET_MAX", "hinted"},
            {"COMMIT"}, {"ALT"}}}
  \union
  {Character(b, i, TRUE, 512, {}, "given", {}) :
     b \in {"1.1", "1.5"}, i \in Layouts(Increasing)}
  \union
  {Character("1.0", i, TRUE, 512, {}, "given", {}) : i \in Layouts(Silent)}

MCRates == {0, 20, 30}

=============================================================================
