------------------------------ MODULE MCImages ------------------------------
(***************************************************************************)
(* Cameras and scenes for module UvcImages: small frames of different      *)
(* shapes, one for each format that FrameCallback converts, a pale scene   *)
(* and one whose colours saturate, and masks that cut through a byte.      *)
(***************************************************************************)
EXTENDS UvcImages

MCCameras ==
  {[w |-> 4, h |-> 2, format |-> "YUYV"],
   [w |-> 2, h |-> 4, format |-> "UYVY"],
   [w |-> 8, h |-> 1, format |-> "MJPEG"],
   [w |-> 3, h |-> 8, format |-> "GRAY16"]}

MCScenes ==
  {[luma |-> 100, u |-> 120, v |-> 130], [luma |-> 30, u |-> 0, v |-> 255]}

Turn(rot, x, y) == [rot |-> rot, x |-> x, y |-> y]
MCTurns ==
  {Turn(0, FALSE, TRUE), Turn(90, TRUE, FALSE), Turn(260, TRUE, TRUE),
   Turn(-90, TRUE, FALSE)}

\* shifts that leave fewer and more than the bits of a byte
MCShifts == {-2, 6}

MCDegrees == {0, 100, 180, 630, -90}

\* cyan, and half of the bits of each channel
MCMasks == {<<0, 0, 255, 255>>, <<240, 15, 240, 170>>}
=============================================================================
