----------------------------- MODULE UvcControls -----------------------------
(***************************************************************************)
(* The controls of a camera (brightness, focus, pan and tilt, ...) and the *)
(* two ways to them: the accessors of libuvc (ctrl.c, ctrl-gen.c), each of *)
(* which packs C integers into the bytes of one control transfer, and the  *)
(* table of tcluvc.c, which describes the same bytes by a type and a count *)
(* of its own, keeps a copy of them per control, and serves "uvc           *)
(* parameters".                                                            *)
(*                                                                         *)
(* A behaviour looks at one control, chosen in Init, and at Companion, so  *)
(* that lists of several settings can be refused half way.  The limits of  *)
(* a control (GET_MIN and so on), which are listed as they come, and       *)
(* update-mode, which is part of TcluvcCapture, are left out.              *)
(*                                                                         *)
(* A definition named X_Y before X, as PrintVal_Byte, is X with a slip Y   *)
(* in it, for the properties to catch.  Next does not use them.            *)
(***************************************************************************)
EXTENDS Integers, Sequences, FiniteSets

CONSTANTS
  Values,      \* what a script or a C program passes, with either sign
  Companion    \* the selector of the second control

U8  == [width |-> 1, signed |-> FALSE]
S8  == [width |-> 1, signed |-> TRUE]
U16 == [width |-> 2, signed |-> FALSE]
S16 == [width |-> 2, signed |-> TRUE]
U32 == [width |-> 4, signed |-> FALSE]
S32 == [width |-> 4, signed |-> TRUE]

\* The types of the arguments of an accessor, in the order of their bytes.
Control(unit, selector, fields) ==
  [unit |-> unit, selector |-> selector, fields |-> fields]

scanning_mode == Control("CT", "SCANNING_MODE", <<U8>>)
ae_mode == Control("CT", "AE_MODE", <<U8>>)
ae_priority == Control("CT", "AE_PRIORITY", <<U8>>)
exposure_abs == Control("CT", "EXPOSURE_TIME_ABSOLUTE", <<U32>>)
exposure_rel == Control("CT", "EXPOSURE_TIME_RELATIVE", <<S8>>)
focus_abs == Control("CT", "FOCUS_ABSOLUTE", <<U16>>)
focus_rel == Control("CT", "FOCUS_RELATIVE", <<S8, U8>>)
focus_simple_range == Control("CT", "FOCUS_SIMPLE", <<U8>>)
focus_auto == Control("CT", "FOCUS_AUTO", <<U8>>)
iris_abs == Control("CT", "IRIS_ABSOLUTE", <<U16>>)
iris_rel == Control("CT", "IRIS_RELATIVE", <<U8>>)
zoom_abs == Control("CT", "ZOOM_ABSOLUTE", <<U16>>)
zoom_rel == Control("CT", "ZOOM_RELATIVE", <<S8, U8, U8>>)
pantilt_abs == Control("CT", "PANTILT_ABSOLUTE", <<S32, S32>>)
pantilt_rel == Control("CT", "PANTILT_RELATIVE", <<S8, U8, S8, U8>>)
roll_abs == Control("CT", "ROLL_ABSOLUTE", <<S16>>)
roll_rel == Control("CT", "ROLL_RELATIVE", <<S8, U8>>)
privacy == Control("CT", "PRIVACY", <<U8>>)
digital_window ==
  Control("CT", "DIGITAL_WINDOW", <<U16, U16, U16, U16, U16, U16>>)
digital_roi ==
  Control("CT", "REGION_OF_INTEREST", <<U16, U16, U16, U16, U16>>)
backlight_compensation ==
  Control("PU", "BACKLIGHT_COMPENSATION", <<U16>>)
brightness == Control("PU", "BRIGHTNESS", <<S16>>)
contrast == Control("PU", "CONTRAST", <<U16>>)
contrast_auto == Control("PU", "CONTRAST_AUTO", <<U8>>)
gain == Control("PU", "GAIN", <<U16>>)
power_line_frequency ==
  Control("PU", "POWER_LINE_FREQUENCY", <<U8>>)
hue == Control("PU", "HUE", <<S16>>)
hue_auto == Control("PU", "HUE_AUTO", <<U8>>)
saturation == Control("PU", "SATURATION", <<U16>>)
sharpness == Control("PU", "SHARPNESS", <<U16>>)
gamma == Control("PU", "GAMMA", <<U16>>)
white_balance_temperature ==
  Control("PU", "WHITE_BALANCE_TEMPERATURE", <<U16>>)
white_balance_temperature_auto ==
  Control("PU", "WHITE_BALANCE_TEMPERATURE_AUTO", <<U8>>)
white_balance_component ==
  Control("PU", "WHITE_BALANCE_COMPONENT", <<U16, U16>>)
white_balance_component_auto ==
  Control("PU", "WHITE_BALANCE_COMPONENT_AUTO", <<U8>>)
digital_multiplier == Control("PU", "DIGITAL_MULTIPLIER", <<U16>>)
digital_multiplier_limit ==
  Control("PU", "DIGITAL_MULTIPLIER_LIMIT", <<U16>>)
analog_video_standard ==
  Control("PU", "ANALOG_VIDEO_STANDARD", <<U8>>)
analog_video_lock_status ==
  Control("PU", "ANALOG_LOCK_STATUS", <<U8>>)
input_select == Control("SU", "INPUT_SELECT", <<U8>>)

power_mode == Control("VC", "VIDEO_POWER_MODE", <<U8>>)

Accessors ==
  {scanning_mode, ae_mode, ae_priority, exposure_abs, exposure_rel, focus_abs,
   focus_rel, focus_simple_range, focus_auto, iris_abs, iris_rel, zoom_abs,
   zoom_rel, pantilt_abs, pantilt_rel, roll_abs, roll_rel, privacy,
   digital_window, digital_roi, backlight_compensation, brightness, contrast,
   contrast_auto, gain, power_line_frequency, hue, hue_auto, saturation,
   sharpness, gamma, white_balance_temperature, white_balance_temperature_auto,
   white_balance_component, white_balance_component_auto, digital_multiplier,
   digital_multiplier_limit, analog_video_standard, analog_video_lock_status,
   input_select, power_mode}

ASSUME ControlsAssumption ==
  /\ \A v \in Values : v \in Nat /\ 0 < v /\ v < 32768
  /\ \E c \in Accessors : c.selector = Companion

\* Bytes per number and numbers per control, by the table of tcluvc.
Entry(type, count) == [type |-> type, count |-> count]

OneByte ==
  {"SCANNING_MODE", "AE_MODE", "AE_PRIORITY", "EXPOSURE_TIME_RELATIVE",
   "FOCUS_SIMPLE", "FOCUS_AUTO", "IRIS_RELATIVE", "PRIVACY", "CONTRAST_AUTO",
   "POWER_LINE_FREQUENCY", "HUE_AUTO", "WHITE_BALANCE_TEMPERATURE_AUTO",
   "WHITE_BALANCE_COMPONENT_AUTO", "ANALOG_VIDEO_STANDARD",
   "ANALOG_LOCK_STATUS", "INPUT_SELECT"}

TwoBytes ==
  {"FOCUS_ABSOLUTE", "IRIS_ABSOLUTE", "ZOOM_ABSOLUTE", "ROLL_ABSOLUTE",
   "BACKLIGHT_COMPENSATION", "BRIGHTNESS", "CONTRAST", "GAIN", "HUE",
   "SATURATION", "SHARPNESS", "GAMMA", "WHITE_BALANCE_TEMPERATURE",
   "DIGITAL_MULTIPLIER", "DIGITAL_MULTIPLIER_LIMIT"}

Others == {"EXPOSURE_TIME_ABSOLUTE", "ROLL_RELATIVE", "ZOOM_RELATIVE",
           "PANTILT_RELATIVE", "FOCUS_RELATIVE", "WHITE_BALANCE_COMPONENT",
           "REGION_OF_INTEREST", "DIGITAL_WINDOW", "PANTILT_ABSOLUTE"}

Other_PanTilt(selector) ==
  CASE selector = "EXPOSURE_TIME_ABSOLUTE" -> Entry(4, 1)
    [] selector = "ROLL_RELATIVE"          -> Entry(1, 2)
    [] selector = "ZOOM_RELATIVE"          -> Entry(1, 3)
    [] selector \in {"PANTILT_RELATIVE", "FOCUS_RELATIVE",
                     "WHITE_BALANCE_COMPONENT"} -> Entry(2, 2)
    [] selector = "REGION_OF_INTEREST"     -> Entry(2, 5)
    [] selector = "DIGITAL_WINDOW"         -> Entry(2, 6)
    [] selector = "PANTILT_ABSOLUTE"       -> Entry(4, 2)

Other(selector) ==
  CASE selector = "EXPOSURE_TIME_ABSOLUTE" -> Entry(4, 1)
    [] selector = "ROLL_RELATIVE"          -> Entry(1, 2)
    [] selector = "ZOOM_RELATIVE"          -> Entry(1, 3)
    [] selector = "PANTILT_RELATIVE"       -> Entry(1, 4)
    [] selector \in {"FOCUS_RELATIVE", "WHITE_BALANCE_COMPONENT"} -> Entry(2, 2)
    [] selector = "REGION_OF_INTEREST"     -> Entry(2, 5)
    [] selector = "DIGITAL_WINDOW"         -> Entry(2, 6)
    [] selector = "PANTILT_ABSOLUTE"       -> Entry(4, 2)

UvcCtrlInfo ==
  [selector \in OneByte \cup TwoBytes \cup Others |->
     IF selector \in OneByte THEN Entry(1, 1)
     ELSE IF selector \in TwoBytes THEN Entry(2, 1)
     ELSE Other(selector)]

VARIABLES
  controls,  \* the control under test and Companion
  units,     \* the kinds of units the camera has; "VC" is the interface
  camera,    \* for each of controls, the bytes in the camera
  cur,       \* tuvc->ctrl: for each listed control, the bytes of its entry
  shown,     \* what the last "uvc parameters" returned
  last       \* the last operation, for the properties

vars == <<controls, units, camera, cur, shown, last>>

-----------------------------------------------------------------------------
(***************************************************************************)
(* Bytes and numbers.                                                      *)
(***************************************************************************)

Places == <<1, 256, 65536, 16777216>>

Byte(v, k) == (v \div Places[k + 1]) % 256

\* SHORT_TO_SW and INT_TO_DW: number i of vs is at (i - 1) * width.
Pack(vs, width) ==
  [j \in 1..(Len(vs) * width) |->
     Byte(vs[(j - 1) \div width + 1], (j - 1) % width)]

DW_TO_INT(b, o) ==
  b[o + 1] + 256 * b[o + 2] + 65536 * b[o + 3]
  + 16777216 * (IF b[o + 4] < 128 THEN b[o + 4] ELSE b[o + 4] - 256)

SW_TO_SHORT(b, o) == b[o + 1] + 256 * b[o + 2]

\* The cast to the type of the field.  A uint32_t above 2^31 - 1, which only
\* exposure_abs could hold, keeps the sign of its 32 bits.
Cast(n, field) ==
  CASE field = S8  -> IF n < 128 THEN n ELSE n - 256
    [] field = S16 -> IF n < 32768 THEN n ELSE n - 65536
    [] OTHER       -> n

Width(c)  == c.fields[1].width
Length(c) == Len(c.fields) * Width(c)

Field(c, b, i) ==
  LET o == (i - 1) * Width(c)
  IN Cast(CASE Width(c) = 1 -> b[o + 1]
            [] Width(c) = 2 -> SW_TO_SHORT(b, o)
            [] Width(c) = 4 -> DW_TO_INT(b, o), c.fields[i])

Numbers(c, b) == [i \in 1..Len(c.fields) |-> Field(c, b, i)]

\* The table's view: numbers of one and two bytes are not negative.
Type(c)    == UvcCtrlInfo[c.selector].type
Count(c)   == UvcCtrlInfo[c.selector].count
Total(c)   == Type(c) * Count(c)
InTable(c) == c.selector \in DOMAIN UvcCtrlInfo

PrintVal_Byte(c, b) == [i \in 1..Count(c) |-> b[(i - 1) * Type(c) + 1]]

PrintVal(c, b) ==
  [i \in 1..Count(c) |->
     LET o == (i - 1) * Type(c)
     IN CASE Type(c) = 1 -> b[o + 1]
          [] Type(c) = 2 -> b[o + 1] + 256 * b[o + 2]
          [] Type(c) = 4 -> DW_TO_INT(b, o)]

\* The loop over the numbers of a value string, which need not name them all.
StoreVal_Clears(c, b, vs) ==
  [j \in 1..Total(c) |->
     LET i == (j - 1) \div Type(c) + 1
     IN IF i <= Len(vs) THEN Byte(vs[i], (j - 1) % Type(c)) ELSE 0]

StoreVal(c, b, vs) ==
  [j \in 1..Total(c) |->
     LET i == (j - 1) \div Type(c) + 1
     IN IF i <= Len(vs) THEN Byte(vs[i], (j - 1) % Type(c)) ELSE b[j]]

-----------------------------------------------------------------------------
(***************************************************************************)
(* Operations.  A camera answers a GET request with at most the bytes the  *)
(* control has, and takes a SET request of exactly those, or refuses it.   *)
(***************************************************************************)
GetCur(c, len) ==
  SubSeq(camera[c], 1, IF len < Length(c) THEN len ELSE Length(c))

Has(c) == c.unit \in units

Pair(c, vs) == [control |-> c, values |-> vs]

Did(op, pairs, done, answered) ==
  last' = [op |-> op, pairs |-> pairs, done |-> done, answered |-> answered]

\* uvc_get_<control>, uvc_get_ctrl, for a unit that the camera has.
uvc_get(c) ==
  /\ Has(c)
  /\ Did("uvc_get", <<Pair(c, Numbers(c, GetCur(c, Length(c))))>>, 1, {c})
  /\ shown' = << >>
  /\ UNCHANGED <<controls, units, camera, cur>>

\* uvc_set_<control>, uvc_set_ctrl: the camera takes the bytes, or refuses.
uvc_set(c, vs) ==
  /\ Has(c)
  /\ \/ camera' = [camera EXCEPT ![c] = Pack(vs, Width(c))]
        /\ Did("uvc_set", <<Pair(c, vs)>>, 1, {})
     \/ UNCHANGED camera /\ Did("uvc_set", <<Pair(c, vs)>>, 0, {})
  /\ shown' = << >>
  /\ UNCHANGED <<controls, units, cur>>

\* A control is listed if its unit exists and GET_CUR yields all its bytes.
InitControls ==
  \E answering \in SUBSET {c \in controls : Has(c)} :
    LET listed == {c \in answering :
                     InTable(c) /\ Len(GetCur(c, Total(c))) = Total(c)}
    IN /\ cur' = [c \in listed |-> GetCur(c, Total(c))]
       /\ Did("open", << >>, 0, answering)
       /\ shown' = << >>
       /\ UNCHANGED <<controls, units, camera>>

\* The entries after GET_CUR of the controls in answered.
Refreshed(table, bytes, answered) ==
  [c \in DOMAIN table |-> IF c \in answered THEN bytes[c] ELSE table[c]]

\* GetControls does not look at the outcome of GET_CUR.
Answered == {DOMAIN cur, {}}

Shown(table) == [c \in DOMAIN table |-> PrintVal(c, table[c])]

GetControls ==
  \E answered \in Answered :
    /\ cur' = Refreshed(cur, camera, answered)
    /\ shown' = Shown(cur')
    /\ Did("get", << >>, 0, answered)
    /\ UNCHANGED <<controls, units, camera>>

\* Entries and camera when the first k of the pairs have been sent; a name that
\* is not listed is passed over.
AfterPairs(pairs) ==
  LET after[k \in 0..Len(pairs)] ==
        IF k = 0 THEN [cur |-> cur, camera |-> camera]
        ELSE LET c     == pairs[k].control
                 bytes == StoreVal(c, after[k - 1].cur[c], pairs[k].values)
             IN IF c \notin DOMAIN cur THEN after[k - 1]
                ELSE [cur    |-> [after[k - 1].cur EXCEPT ![c] = bytes],
                      camera |-> [after[k - 1].camera EXCEPT ![c] = bytes]]
  IN after

\* All is sent, and the command returns what GetControls reads.
SetControls(pairs) ==
  LET after == AfterPairs(pairs)[Len(pairs)]
  IN \E answered \in Answered :
       /\ camera' = after.camera
       /\ cur' = Refreshed(after.cur, after.camera, answered)
       /\ shown' = Shown(cur')
       /\ Did("set", pairs, Len(pairs), answered)
       /\ UNCHANGED <<controls, units>>

\* The camera refuses pair k: the entry keeps what was refused.
SetControls_fails(pairs, k) ==
  /\ pairs[k].control \in DOMAIN cur
  /\ camera' = AfterPairs(pairs)[k - 1].camera
  /\ cur' = AfterPairs(pairs)[k].cur
  /\ shown' = << >>
  /\ Did("set", pairs, k - 1, {})
  /\ UNCHANGED <<controls, units>>

\* Different numbers, of either sign.
Uniform(v, n) == [i \in 1..n |-> IF i % 2 = 1 THEN -v ELSE v]

\* The camera changes a control on its own: exposure, white balance, a button.
CameraChanges(c, v) ==
  /\ camera' = [camera EXCEPT ![c] = Pack(Uniform(v, Len(c.fields)), Width(c))]
  /\ Did("camera", << >>, 0, {})
  /\ UNCHANGED <<controls, units, cur, shown>>

-----------------------------------------------------------------------------
\* What is written: the first number or all of them, or what the last "uvc
\* parameters" returned.
Inputs(c) == {Uniform(v, n) : v \in Values, n \in {1, Len(c.fields)}}

Settings == UNION {{Pair(c, vs) : vs \in Inputs(c)} : c \in controls}

Lists ==
  {<<p>> : p \in Settings}
  \cup {l \in Settings \X Settings : l[1].control # l[2].control}
  \cup {<<Pair(c, shown[c])>> : c \in DOMAIN shown}

Init ==
  /\ \E c \in Accessors :
       controls = {c} \cup {d \in Accessors : d.selector = Companion}
  /\ units \in {{"VC", "CT", "PU", "SU"}, {"VC", "PU"}}
  /\ \E v \in Values :
       camera = [c \in controls |-> Pack(Uniform(v, Len(c.fields)), Width(c))]
  /\ cur = << >> /\ shown = << >>
  /\ last = [op |-> "none", pairs |-> << >>, done |-> 0, answered |-> {}]

Next ==
  \/ InitControls
  \/ GetControls
  \/ \E pairs \in Lists : SetControls(pairs)
  \/ \E pairs \in Lists : \E k \in DOMAIN pairs : SetControls_fails(pairs, k)
  \/ \E c \in controls :
       \/ uvc_get(c)
       \/ \E v \in Values : uvc_set(c, Uniform(v, Len(c.fields)))
       \/ \E v \in Values : CameraChanges(c, v)

Spec == Init /\ [][Next]_vars

-----------------------------------------------------------------------------
IsBytes(b, n) == Len(b) = n /\ \A j \in 1..n : b[j] \in 0..255

TypeOK ==
  /\ controls \subseteq Accessors /\ units \subseteq {"VC", "CT", "PU", "SU"}
  /\ DOMAIN camera = controls /\ \A c \in controls : IsBytes(camera[c], Length(c))
  /\ DOMAIN cur \subseteq controls
  /\ \A c \in DOMAIN cur : Has(c) /\ InTable(c) /\ IsBytes(cur[c], Length(c))
  /\ DOMAIN shown \subseteq DOMAIN cur
  /\ last.answered \subseteq controls

\* What "uvc parameters" returns for a control that could be read is what the
\* accessor of libuvc reads from the same camera, up to the sign: the table of
\* tcluvc.c and ctrl-gen.c cut the bytes at the same places.
ScriptAndLibraryAgree ==
  last.op \in {"get", "set"} =>
    \A c \in last.answered \cap DOMAIN shown :
      LET read == Numbers(c, camera[c])
      IN /\ Len(shown[c]) = Len(read)
         /\ \A i \in DOMAIN read :
              IF Width(c) = 4 THEN shown[c][i] = read[i]
              ELSE (shown[c][i] - read[i]) % Places[Width(c) + 1] = 0

\* What a set accessor has written a get accessor reads, converted to the type of
\* the argument and nothing else.
Converted(v, field) ==
  CASE field = U8  -> v % 256
    [] field = S8  -> ((v + 128) % 256) - 128
    [] field = U16 -> v % 65536
    [] field = S16 -> ((v + 32768) % 65536) - 32768
    [] OTHER       -> v

LibraryReadsBack ==
  last.op = "uvc_set" /\ last.done = 1 =>
    LET c == last.pairs[1].control
    IN Numbers(c, camera[c]) =
         [i \in DOMAIN c.fields |-> Converted(last.pairs[1].values[i], c.fields[i])]

\* The two descriptions of a control, the table of the extension and the code
\* of the library, agree in both directions.
AccessorsAgree == ScriptAndLibraryAgree /\ LibraryReadsBack

\* Of the settings of one "uvc parameters" the camera has those sent before one
\* was refused, with the numbers that were given, and no other control changes.
\* Numbers that were not given stay as they were only if the entry was still what
\* the camera had: otherwise old numbers are sent along.
Number(c, b, i) == SubSeq(b, (i - 1) * Width(c) + 1, i * Width(c))

IsSet(pair) ==
  LET c == pair.control
  IN \A i \in DOMAIN c.fields :
       IF i <= Len(pair.values)
       THEN Number(c, camera'[c], i) = Pack(<<pair.values[i]>>, Width(c))
       ELSE cur[c] = camera[c] =>
              Number(c, camera'[c], i) = Number(c, camera[c], i)

SetsWhatIsNamed ==
  [][last'.op = "set" =>
       LET sent == {last'.pairs[i] : i \in 1..last'.done}
       IN \A c \in controls :
            IF \E pair \in sent : pair.control = c /\ c \in DOMAIN cur
            THEN \A pair \in sent : pair.control = c => IsSet(pair)
            ELSE camera'[c] = camera[c]]_vars

\* Writing back what was returned changes nothing in the camera, although signed
\* numbers are returned as unsigned ones.
WriteBackKeeps ==
  [][\A c \in DOMAIN shown :
       /\ last'.op = "set" /\ last'.pairs = <<Pair(c, shown[c])>>
       /\ last.op \in {"get", "set"} /\ c \in last.answered
       => camera' = camera]_vars

\* Every control that the camera has, and whose GET_CUR it answers, is listed.
\* focus-rel is not: its entry has two numbers of two bytes, the control two of
\* one, and the answer is taken to be short.
EveryControlListed ==
  last.op = "open" =>
    {c \in last.answered : InTable(c)} \subseteq DOMAIN cur

=============================================================================
