------------------------- MODULE UvcControls_proofs -------------------------
(***************************************************************************)
(* Proofs about UvcControls, for every set of values that fit into 16 bits *)
(* with their sign, and every companion.                                   *)
(*                                                                         *)
(* First the shapes of the controls, and that the table of tcluvc.c cuts   *)
(* the bytes of every control it can list as the accessor of libuvc does;  *)
(* then the arithmetic of bytes and numbers; then one invariant of the     *)
(* camera, the entries and what was returned, and the properties from it.  *)
(***************************************************************************)
EXTENDS UvcControls, TLAPS

-----------------------------------------------------------------------------
(***************************************************************************)
(* The shapes of the controls.                                             *)
(***************************************************************************)

\* The types of the arguments of an accessor, by their width.
OfWidth(w) ==
  CASE w = 1 -> {U8, S8} [] w = 2 -> {U16, S16} [] w = 4 -> {U32, S32}

\* An accessor has one to six arguments, all of one width.
Shape(c) ==
  /\ Len(c.fields) \in 1..6
  /\ DOMAIN c.fields = 1..Len(c.fields)
  /\ Width(c) \in {1, 2, 4}
  /\ \A i \in 1..Len(c.fields) : c.fields[i] \in OfWidth(Width(c))

\* The entry of the table has the numbers of the accessor.
Fits(c) ==
  /\ InTable(c)
  /\ Type(c) = Width(c)
  /\ Count(c) = Len(c.fields)

\* What the rest of the module knows of a control: an entry that is no longer
\* than the control, and so could be listed, fits.
Known(c) == Shape(c) /\ (InTable(c) /\ Total(c) <= Length(c) => Fits(c))

\* The entry of a selector.
Listed(s, type, count) ==
  /\ s \in DOMAIN UvcCtrlInfo
  /\ UvcCtrlInfo[s].type = type
  /\ UvcCtrlInfo[s].count = count

\* The widths of the six C types.
LEMMA Widths ==
  /\ U8.width = 1 /\ S8.width = 1
  /\ U16.width = 2 /\ S16.width = 2
  /\ U32.width = 4 /\ S32.width = 4
BY DEF U8, S8, U16, S16, U32, S32

\* The table, entry by entry.
LEMMA Entries ==
  /\ \A s \in OneByte : Listed(s, 1, 1)
  /\ \A s \in TwoBytes : Listed(s, 2, 1)
  /\ Listed("EXPOSURE_TIME_ABSOLUTE", 4, 1)
  /\ Listed("ROLL_RELATIVE", 1, 2)
  /\ Listed("ZOOM_RELATIVE", 1, 3)
  /\ Listed("PANTILT_RELATIVE", 1, 4)
  /\ Listed("FOCUS_RELATIVE", 2, 2)
  /\ Listed("WHITE_BALANCE_COMPONENT", 2, 2)
  /\ Listed("REGION_OF_INTEREST", 2, 5)
  /\ Listed("DIGITAL_WINDOW", 2, 6)
  /\ Listed("PANTILT_ABSOLUTE", 4, 2)
  /\ "VIDEO_POWER_MODE" \notin DOMAIN UvcCtrlInfo
<1>1. \A s \in OneByte : Listed(s, 1, 1)
  BY DEF UvcCtrlInfo, Entry, Listed
<1>2. \A s \in TwoBytes : Listed(s, 2, 1)
  BY DEF UvcCtrlInfo, Entry, Listed, OneByte, TwoBytes
<1>3. QED
  BY <1>1, <1>2
     DEF UvcCtrlInfo, Entry, Listed, OneByte, TwoBytes, Others, Other

\* A control is known if its entry has its numbers, or is longer than the
\* control, or is not there.
LEMMA KnownIf ==
  ASSUME NEW c, NEW w \in {1, 2, 4}, NEW n \in 1..6,
         Len(c.fields) = n, DOMAIN c.fields = 1..n,
         \A i \in 1..n : c.fields[i] \in OfWidth(w),
         \/ Listed(c.selector, w, n)
         \/ \E m, k \in Nat : m * k > w * n /\ Listed(c.selector, m, k)
         \/ c.selector \notin DOMAIN UvcCtrlInfo
  PROVE  Known(c)
<1>1. Width(c) = w
  BY Widths DEF Width, OfWidth
<1>2. Length(c) = n * w
  BY <1>1 DEF Length
<1>3. Shape(c)
  BY <1>1 DEF Shape
<1>4. CASE Listed(c.selector, w, n)
  BY <1>1, <1>3, <1>4 DEF Listed, Known, Fits, InTable, Type, Count
<1>5. ASSUME NEW m \in Nat, NEW k \in Nat,
             m * k > w * n, Listed(c.selector, m, k)
      PROVE  Known(c)
  <2>1. Total(c) = m * k
    BY <1>5 DEF Listed, Total, Type, Count
  <2>2. QED
    BY <2>1, <1>2, <1>3, <1>5 DEF Known
<1>6. CASE c.selector \notin DOMAIN UvcCtrlInfo
  BY <1>3, <1>6 DEF Known, InTable
<1>7. QED
  BY <1>4, <1>5, <1>6

\* A control of one number, whose entry has the width of its argument.
LEMMA KnownSingle ==
  ASSUME NEW c, NEW w \in {1, 2, 4}, NEW f \in OfWidth(w), c.fields = <<f>>,
         Listed(c.selector, w, 1) \/ c.selector \notin DOMAIN UvcCtrlInfo
  PROVE  Known(c)
<1> DEFINE n == 1
<1>1. /\ n \in 1..6 /\ Len(c.fields) = n /\ DOMAIN c.fields = 1..n
      /\ \A i \in 1..n : c.fields[i] \in OfWidth(w)
  OBVIOUS
<1>2. Listed(c.selector, w, n) \/ c.selector \notin DOMAIN UvcCtrlInfo
  OBVIOUS
<1> HIDE DEF n
<1>3. QED
  BY <1>1, <1>2, KnownIf

\* The controls with one argument of one byte.
LEMMA KnownBytes ==
  \A c \in {scanning_mode, ae_mode, ae_priority, exposure_rel,
            focus_simple_range, focus_auto, iris_rel, privacy, contrast_auto,
            power_line_frequency, hue_auto, white_balance_temperature_auto,
            white_balance_component_auto, analog_video_standard,
            analog_video_lock_status, input_select, power_mode} : Known(c)
<1> SUFFICES ASSUME NEW c,
      c \in {scanning_mode, ae_mode, ae_priority, exposure_rel,
             focus_simple_range, focus_auto, iris_rel, privacy, contrast_auto,
             power_line_frequency, hue_auto, white_balance_temperature_auto,
             white_balance_component_auto, analog_video_standard,
             analog_video_lock_status, input_select, power_mode}
    PROVE Known(c)
  OBVIOUS
<1>1. \E f \in {U8, S8} : c.fields = <<f>>
  BY DEF Control, scanning_mode, ae_mode, ae_priority, exposure_rel,
         focus_simple_range, focus_auto, iris_rel, privacy, contrast_auto,
         power_line_frequency, hue_auto, white_balance_temperature_auto,
         white_balance_component_auto, analog_video_standard,
         analog_video_lock_status, input_select, power_mode
<1>2. c.selector \in OneByte \cup {"VIDEO_POWER_MODE"}
  BY DEF Control, OneByte, scanning_mode, ae_mode, ae_priority, exposure_rel,
         focus_simple_range, focus_auto, iris_rel, privacy, contrast_auto,
         power_line_frequency, hue_auto, white_balance_temperature_auto,
         white_balance_component_auto, analog_video_standard,
         analog_video_lock_status, input_select, power_mode
<1>3. {U8, S8} = OfWidth(1)
  BY DEF OfWidth
<1>4. QED
  BY <1>1, <1>2, <1>3, KnownSingle, Entries

\* The controls with one argument of two bytes.
LEMMA KnownWords ==
  \A c \in {focus_abs, iris_abs, zoom_abs, roll_abs, backlight_compensation,
            brightness, contrast, gain, hue, saturation, sharpness, gamma,
            white_balance_temperature, digital_multiplier,
            digital_multiplier_limit} : Known(c)
<1> SUFFICES ASSUME NEW c,
      c \in {focus_abs, iris_abs, zoom_abs, roll_abs, backlight_compensation,
             brightness, contrast, gain, hue, saturation, sharpness, gamma,
             white_balance_temperature, digital_multiplier,
             digital_multiplier_limit}
    PROVE Known(c)
  OBVIOUS
<1>1. \E f \in {U16, S16} : c.fields = <<f>>
  BY DEF Control, focus_abs, iris_abs, zoom_abs, roll_abs,
         backlight_compensation, brightness, contrast, gain, hue, saturation,
         sharpness, gamma, white_balance_temperature, digital_multiplier,
         digital_multiplier_limit
<1>2. c.selector \in TwoBytes
  BY DEF Control, TwoBytes, focus_abs, iris_abs, zoom_abs, roll_abs,
         backlight_compensation, brightness, contrast, gain, hue, saturation,
         sharpness, gamma, white_balance_temperature, digital_multiplier,
         digital_multiplier_limit
<1>3. {U16, S16} = OfWidth(2)
  BY DEF OfWidth
<1>4. QED
  BY <1>1, <1>2, <1>3, KnownSingle, Entries

\* The others, one by one.  The entry of focus_rel is longer than the control.
LEMMA KnownOthers ==
  \A c \in {exposure_abs, focus_rel, zoom_rel, pantilt_abs, pantilt_rel,
            roll_rel, digital_window, digital_roi, white_balance_component} :
    Known(c)
<1> DEFINE Holds(c, w, n) ==
      /\ Len(c.fields) = n /\ DOMAIN c.fields = 1..n
      /\ \A i \in 1..n : c.fields[i] \in OfWidth(w)
<1>1. /\ OfWidth(1) = {U8, S8} /\ OfWidth(2) = {U16, S16}
      /\ OfWidth(4) = {U32, S32}
  BY DEF OfWidth
<1>2. Known(exposure_abs)
  <2>1. exposure_abs.selector = "EXPOSURE_TIME_ABSOLUTE"
    BY DEF exposure_abs, Control
  <2>2. Holds(exposure_abs, 4, 1)
    BY <1>1 DEF exposure_abs, Control
  <2>3. QED
    BY <2>1, <2>2, KnownIf, Entries
<1>3. Known(focus_rel)
  <2>1. focus_rel.selector = "FOCUS_RELATIVE"
    BY DEF focus_rel, Control
  <2>2. Holds(focus_rel, 1, 2)
    BY <1>1 DEF focus_rel, Control
  <2>3. QED
    BY <2>1, <2>2, KnownIf, Entries
<1>4. Known(zoom_rel)
  <2>1. zoom_rel.selector = "ZOOM_RELATIVE"
    BY DEF zoom_rel, Control
  <2>2. Holds(zoom_rel, 1, 3)
    BY <1>1 DEF zoom_rel, Control
  <2>3. QED
    BY <2>1, <2>2, KnownIf, Entries
<1>5. Known(pantilt_abs)
  <2>1. pantilt_abs.selector = "PANTILT_ABSOLUTE"
    BY DEF pantilt_abs, Control
  <2>2. Holds(pantilt_abs, 4, 2)
    BY <1>1 DEF pantilt_abs, Control
  <2>3. QED
    BY <2>1, <2>2, KnownIf, Entries
<1>6. Known(pantilt_rel)
  <2>1. pantilt_rel.selector = "PANTILT_RELATIVE"
    BY DEF pantilt_rel, Control
  <2>2. Holds(pantilt_rel, 1, 4)
    BY <1>1 DEF pantilt_rel, Control
  <2>3. QED
    BY <2>1, <2>2, KnownIf, Entries
<1>7. Known(roll_rel)
  <2>1. roll_rel.selector = "ROLL_RELATIVE"
    BY DEF roll_rel, Control
  <2>2. Holds(roll_rel, 1, 2)
    BY <1>1 DEF roll_rel, Control
  <2>3. QED
    BY <2>1, <2>2, KnownIf, Entries
<1>8. Known(digital_window)
  <2>1. digital_window.selector = "DIGITAL_WINDOW"
    BY DEF digital_window, Control
  <2>2. Holds(digital_window, 2, 6)
    BY <1>1 DEF digital_window, Control
  <2>3. QED
    BY <2>1, <2>2, KnownIf, Entries
<1>9. Known(digital_roi)
  <2>1. digital_roi.selector = "REGION_OF_INTEREST"
    BY DEF digital_roi, Control
  <2>2. Holds(digital_roi, 2, 5)
    BY <1>1 DEF digital_roi, Control
  <2>3. QED
    BY <2>1, <2>2, KnownIf, Entries
<1>10. Known(white_balance_component)
  <2>1. white_balance_component.selector = "WHITE_BALANCE_COMPONENT"
    BY DEF white_balance_component, Control
  <2>2. Holds(white_balance_component, 2, 2)
    BY <1>1 DEF white_balance_component, Control
  <2>3. QED
    BY <2>1, <2>2, KnownIf, Entries
<1>11. QED
  BY <1>2, <1>3, <1>4, <1>5, <1>6, <1>7, <1>8, <1>9, <1>10

\* Every control of ctrl-gen.c.
LEMMA AllKnown == \A c \in Accessors : Known(c)
BY KnownBytes, KnownWords, KnownOthers DEF Accessors

\* An entry is of a number of bytes.
LEMMA TotalIs ==
  ASSUME NEW c, InTable(c)
  PROVE  Total(c) \in Nat
<1>1. \A type, count \in 1..6 : type * count \in Nat
  BY SMT
<1>2. \A s \in DOMAIN UvcCtrlInfo :
        \E type, count \in 1..6 : Listed(s, type, count)
  <2>1. DOMAIN UvcCtrlInfo = OneByte \cup TwoBytes \cup Others
    BY DEF UvcCtrlInfo
  <2>2. \A s \in Others : \E type, count \in 1..6 : Listed(s, type, count)
    BY Entries DEF Others
  <2>3. QED
    BY <2>1, <2>2, Entries
<1>3. PICK type \in 1..6, count \in 1..6 : Listed(c.selector, type, count)
  BY <1>2 DEF InTable
<1>4. Total(c) = type * count
  BY <1>3 DEF Listed, Total, Type, Count
<1>5. QED
  BY <1>1, <1>4

\* An entry that fits a control is of all its bytes.
LEMMA FitsLength ==
  ASSUME NEW c, Shape(c), Fits(c)
  PROVE  Total(c) = Length(c)
<1> DEFINE n == Len(c.fields)
           w == Width(c)
<1>1. n \in 1..6 /\ w \in {1, 2, 4} /\ Total(c) = w * n /\ Length(c) = n * w
  BY DEF Shape, Fits, Total, Length
<1> HIDE DEF n, w
<1>2. w * n = n * w
  BY <1>1
<1>3. QED
  BY <1>1, <1>2

-----------------------------------------------------------------------------
(***************************************************************************)
(* Bytes and numbers.                                                      *)
(***************************************************************************)

\* The number of w bytes at o, before the cast: what Field and PrintVal share.
Read(w, b, o) ==
  CASE w = 1 -> b[o + 1]
    [] w = 2 -> SW_TO_SHORT(b, o)
    [] w = 4 -> DW_TO_INT(b, o)

\* A number that fits into two bytes with its sign, as those of Values do.
Fits16(v) == v \in Int /\ -32768 <= v /\ v < 32768

\* What Byte takes the remainder of.
Quotient(v, k) == v \div Places[k + 1]

\* The places, byte by byte.
LEMMA Quotients ==
  \A v \in Int :
    /\ Quotient(v, 0) = v /\ Quotient(v, 1) = v \div 256
    /\ Quotient(v, 2) = v \div 65536 /\ Quotient(v, 3) = v \div 16777216
<1>1. /\ Places[1] = 1 /\ Places[2] = 256 /\ Places[3] = 65536
      /\ Places[4] = 16777216
  BY SMT DEF Places
<1>2. \A v \in Int : v \div 1 = v
  BY SMT
<1>3. QED
  BY <1>1, <1>2, SMT DEF Quotient

\* A byte is a byte.
LEMMA ByteRange == \A v \in Int : \A k \in 0..3 : Byte(v, k) \in 0..255
<1> SUFFICES ASSUME NEW v \in Int, NEW k \in 0..3
             PROVE  Byte(v, k) \in 0..255
  OBVIOUS
<1> DEFINE p == Places[k + 1]
           q == v \div p
<1>1. p \in Nat \ {0}
  BY SMT DEF Places
<1> HIDE DEF p
<1>2. q \in Int
  BY <1>1, SMT
<1> HIDE DEF q
<1>3. q % 256 \in 0..255
  BY <1>2, SMT
<1>4. QED
  BY <1>3 DEF Byte, q, p

\* Division with remainder, by the three places.
LEMMA Division ==
  \A h, l \in Int :
    /\ 0 <= l /\ l < 256 =>
         (l + 256 * h) \div 256 = h /\ (l + 256 * h) % 256 = l
    /\ 0 <= l /\ l < 65536 => (l + 65536 * h) \div 65536 = h
    /\ 0 <= l /\ l < 16777216 => (l + 16777216 * h) \div 16777216 = h
BY SMT

\* The bytes of a number of two bytes.
LEMMA LowBytes ==
  \A v \in Int : Byte(v, 0) = v % 256 /\ Byte(v, 1) = (v \div 256) % 256
<1> SUFFICES ASSUME NEW v \in Int
             PROVE  Byte(v, 0) = v % 256 /\ Byte(v, 1) = (v \div 256) % 256
  OBVIOUS
<1> DEFINE h == v \div 256
<1>1. Quotient(v, 0) = v /\ Quotient(v, 1) = h
  BY Quotients
<1> HIDE DEF h
<1>2. Byte(v, 0) = v % 256 /\ Byte(v, 1) = h % 256
  BY <1>1, SMT DEF Byte, Quotient
<1>3. QED
  BY <1>2, SMT DEF h

\* A number of two bytes is the number modulo 65536.
LEMMA TwoBytesRead == \A v \in Int : Byte(v, 0) + 256 * Byte(v, 1) = v % 65536
<1> SUFFICES ASSUME NEW v \in Int
             PROVE  Byte(v, 0) + 256 * Byte(v, 1) = v % 65536
  OBVIOUS
<1> DEFINE h == v \div 256
           m == v % 65536
<1>1. (v % 256) + 256 * (h % 256) = m
  BY SMT
<1>2. Byte(v, 0) = v % 256 /\ Byte(v, 1) = h % 256
  BY LowBytes, SMTT(60)
<1> HIDE DEF h, m
<1>3. Byte(v, 0) + 256 * Byte(v, 1) = m
  BY <1>1, <1>2, SMT
<1>4. QED
  BY <1>3 DEF m

\* A number of two bytes fills the other two of four with its sign.
LEMMA FourBytesRead ==
  ASSUME NEW v, Fits16(v)
  PROVE  Byte(v, 0) + 256 * Byte(v, 1) + 65536 * Byte(v, 2)
           + 16777216 * (IF Byte(v, 3) < 128 THEN Byte(v, 3)
                         ELSE Byte(v, 3) - 256)
         = v
<1> DEFINE low == Byte(v, 0) + 256 * Byte(v, 1)
<1>1. v \in Int /\ -32768 <= v /\ v < 32768
  BY SMT DEF Fits16
<1>2. low = v % 65536
  BY <1>1, TwoBytesRead, SMT
<1>3. Byte(v, 2) = Quotient(v, 2) % 256 /\ Byte(v, 3) = Quotient(v, 3) % 256
  BY SMT DEF Byte, Quotient
<1> HIDE DEF low
<1>4. CASE v >= 0
  <2>1. v % 65536 = v /\ v \div 65536 = 0 /\ v \div 16777216 = 0
    BY <1>1, <1>4, SMT
  <2>2. Quotient(v, 2) = 0 /\ Quotient(v, 3) = 0
    BY <1>1, <2>1, Quotients
  <2>3. Byte(v, 2) = 0 /\ Byte(v, 3) = 0
    BY <1>3, <2>2, SMT
  <2>4. low = v
    BY <1>2, <2>1
  <2>5. QED
    BY <1>1, <2>3, <2>4, SMT DEF low
<1>5. CASE v < 0
  <2>1. v % 65536 = v + 65536 /\ v \div 65536 = -1 /\ v \div 16777216 = -1
    BY <1>1, <1>5, SMT
  <2>2. Quotient(v, 2) = -1 /\ Quotient(v, 3) = -1
    BY <1>1, <2>1, Quotients
  <2>3. Byte(v, 2) = 255 /\ Byte(v, 3) = 255
    BY <1>3, <2>2, SMT
  <2>4. low = v + 65536
    BY <1>2, <2>1
  <2>5. QED
    BY <1>1, <2>3, <2>4, SMT DEF low
<1>6. QED
  BY <1>1, <1>4, <1>5, SMT

\* The bytes of the number that four bytes make are these bytes.
LEMMA FourBytesBack ==
  ASSUME NEW x, NEW o,
         x[o + 1] \in 0..255, x[o + 2] \in 0..255,
         x[o + 3] \in 0..255, x[o + 4] \in 0..255
  PROVE  /\ DW_TO_INT(x, o) \in Int
         /\ Byte(DW_TO_INT(x, o), 0) = x[o + 1]
         /\ Byte(DW_TO_INT(x, o), 1) = x[o + 2]
         /\ Byte(DW_TO_INT(x, o), 2) = x[o + 3]
         /\ Byte(DW_TO_INT(x, o), 3) = x[o + 4]
<1> DEFINE a == x[o + 1]
           b == x[o + 2]
           d == x[o + 3]
           e == x[o + 4]
           n == DW_TO_INT(x, o)
           s == IF e < 128 THEN e ELSE e - 256
<1>1. a \in 0..255 /\ b \in 0..255 /\ d \in 0..255 /\ e \in 0..255
  OBVIOUS
<1>2. n = a + 256 * b + 65536 * d + 16777216 * s
  BY SMT DEF DW_TO_INT
<1> SUFFICES /\ n \in Int /\ Byte(n, 0) = a /\ Byte(n, 1) = b
             /\ Byte(n, 2) = d /\ Byte(n, 3) = e
  OBVIOUS
<1> HIDE DEF a, b, d, e, n
<1>3. s \in Int /\ s % 256 = e
  BY <1>1, SMT
<1> HIDE DEF s
<1>4. n \in Int
  BY <1>1, <1>2, <1>3, SMT
<1>5. n % 256 = a /\ n \div 256 = b + 256 * (d + 256 * s)
  <2> DEFINE h == b + 256 * (d + 256 * s)
  <2>1. h \in Int /\ n = a + 256 * h /\ 0 <= a /\ a < 256 /\ a \in Int
    BY <1>1, <1>2, <1>3, SMT
  <2> HIDE DEF h
  <2>2. n % 256 = a /\ n \div 256 = h
    BY <2>1, Division, SMT
  <2>3. QED
    BY <2>2, SMT DEF h
<1>6. (b + 256 * (d + 256 * s)) % 256 = b
  <2> DEFINE h == d + 256 * s
  <2>1. h \in Int /\ 0 <= b /\ b < 256 /\ b \in Int
    BY <1>1, <1>3, SMT
  <2> HIDE DEF h
  <2>2. (b + 256 * h) % 256 = b
    BY <2>1, Division, SMT
  <2>3. QED
    BY <2>2, SMT DEF h
<1>7. n \div 65536 = d + 256 * s
  <2> DEFINE l == a + 256 * b
             h == d + 256 * s
  <2>1. l \in Int /\ 0 <= l /\ l < 65536 /\ h \in Int /\ n = l + 65536 * h
    BY <1>1, <1>2, <1>3, SMT
  <2> HIDE DEF l, h
  <2>2. n \div 65536 = h
    BY <2>1, Division, SMT
  <2>3. QED
    BY <2>2, SMT DEF h
<1>8. (d + 256 * s) % 256 = d
  <2>1. 0 <= d /\ d < 256 /\ d \in Int
    BY <1>1, SMT
  <2>2. QED
    BY <1>3, <2>1, Division, SMT
<1>9. n \div 16777216 = s
  <2> DEFINE l == a + 256 * b + 65536 * d
  <2>1. l \in Int /\ 0 <= l /\ l < 16777216 /\ n = l + 16777216 * s
    BY <1>1, <1>2, <1>3, SMT
  <2> HIDE DEF l
  <2>2. QED
    BY <1>3, <2>1, Division, SMT
<1> DEFINE q1 == n \div 256
           q2 == n \div 65536
           q3 == n \div 16777216
<1>10. /\ Quotient(n, 0) = n /\ Quotient(n, 1) = q1
      /\ Quotient(n, 2) = q2 /\ Quotient(n, 3) = q3
  BY <1>4, Quotients
<1>11. n % 256 = a /\ q1 % 256 = b /\ q2 % 256 = d /\ q3 % 256 = e
  BY <1>3, <1>5, <1>6, <1>7, <1>8, <1>9, SMT
<1> HIDE DEF q1, q2, q3
<1>12. QED
  BY <1>4, <1>10, <1>11, SMT DEF Byte, Quotient

\* Byte r of number i is at (i - 1) * w + r + 1, and every byte is one of them.
LEMMA Placed ==
  ASSUME NEW w \in {1, 2, 4}
  PROVE  /\ \A i \in Nat \ {0} : \A r \in 0..(w - 1) :
              /\ ((i - 1) * w + r) \div w = i - 1
              /\ ((i - 1) * w + r) % w = r
         /\ \A x \in Nat : /\ x \div w \in Nat /\ x % w \in 0..(w - 1)
                           /\ x = (x \div w) * w + (x % w)
<1>1. CASE w = 1
  <2>1. \A i \in Nat \ {0} : \A r \in 0..0 :
          ((i - 1) * 1 + r) \div 1 = i - 1 /\ ((i - 1) * 1 + r) % 1 = r
    BY SMT
  <2>2. \A x \in Nat : /\ x \div 1 \in Nat /\ x % 1 \in 0..0
                     /\ x = (x \div 1) * 1 + (x % 1)
    BY SMT
  <2>3. w - 1 = 0
    BY <1>1
  <2>4. QED
    BY <1>1, <2>1, <2>2, <2>3
<1>2. CASE w = 2
  <2>1. \A i \in Nat \ {0} : \A r \in 0..1 :
          ((i - 1) * 2 + r) \div 2 = i - 1 /\ ((i - 1) * 2 + r) % 2 = r
    BY SMT
  <2>2. \A x \in Nat : /\ x \div 2 \in Nat /\ x % 2 \in 0..1
                     /\ x = (x \div 2) * 2 + (x % 2)
    BY SMT
  <2>3. w - 1 = 1
    BY <1>2
  <2>4. QED
    BY <1>2, <2>1, <2>2, <2>3
<1>3. CASE w = 4
  <2>1. \A i \in Nat \ {0} : \A r \in 0..3 :
          ((i - 1) * 4 + r) \div 4 = i - 1 /\ ((i - 1) * 4 + r) % 4 = r
    BY SMT
  <2>2. \A x \in Nat : /\ x \div 4 \in Nat /\ x % 4 \in 0..3
                     /\ x = (x \div 4) * 4 + (x % 4)
    BY SMT
  <2>3. w - 1 = 3
    BY <1>3
  <2>4. QED
    BY <1>3, <2>1, <2>2, <2>3
<1>4. QED
  BY <1>1, <1>2, <1>3

\* Within n numbers of w bytes.
LEMMA PlacedWithin ==
  ASSUME NEW w \in {1, 2, 4}, NEW n \in Nat
  PROVE  /\ \A i \in 1..n : \A r \in 0..(w - 1) :
              (i - 1) * w + r + 1 \in 1..(n * w)
         /\ \A j \in 1..(n * w) : (j - 1) \div w + 1 \in 1..n
<1>1. CASE w = 1
  <2>1. \A i \in 1..n : \A r \in 0..0 : (i - 1) * 1 + r + 1 \in 1..(n * 1)
    BY SMT
  <2>2. \A j \in 1..(n * 1) : (j - 1) \div 1 + 1 \in 1..n
    BY SMT
  <2>3. QED
    BY <1>1, <2>1, <2>2
<1>2. CASE w = 2
  <2>1. \A i \in 1..n : \A r \in 0..1 : (i - 1) * 2 + r + 1 \in 1..(n * 2)
    BY SMT
  <2>2. \A j \in 1..(n * 2) : (j - 1) \div 2 + 1 \in 1..n
    BY SMT
  <2>3. w - 1 = 1
    BY <1>2
  <2>4. QED
    BY <1>2, <2>1, <2>2, <2>3
<1>3. CASE w = 4
  <2>1. \A i \in 1..n : \A r \in 0..3 : (i - 1) * 4 + r + 1 \in 1..(n * 4)
    BY SMT
  <2>2. \A j \in 1..(n * 4) : (j - 1) \div 4 + 1 \in 1..n
    BY SMT
  <2>3. w - 1 = 3
    BY <1>3, SMTT(30)
  <2>4. QED
    BY <1>3, <2>1, <2>2, <2>3
<1>4. QED
  BY <1>1, <1>2, <1>3

\* A list of numbers.
Numeric(vs) == Len(vs) \in Nat /\ \A i \in 1..Len(vs) : vs[i] \in Int

\* The bytes of a number of a list are where Placed says.
BytesAt(s, w, i, v) ==
  \A r \in 0..(w - 1) : s[(i - 1) * w + r + 1] = Byte(v, r)

\* What a set accessor of libuvc sends.
LEMMA PackIs ==
  ASSUME NEW w \in {1, 2, 4}, NEW vs, Numeric(vs)
  PROVE  /\ Pack(vs, w) \in [1..(Len(vs) * w) -> 0..255]
         /\ \A i \in 1..Len(vs) : BytesAt(Pack(vs, w), w, i, vs[i])
<1> DEFINE n == Len(vs)
<1>1. n \in Nat /\ \A i \in 1..n : vs[i] \in Int
  BY DEF Numeric
<1> HIDE DEF n
<1>2. ASSUME NEW j \in 1..(n * w)
      PROVE  Byte(vs[(j - 1) \div w + 1], (j - 1) % w) \in 0..255
  <2>1. j - 1 \in Nat
    BY <1>1
  <2>2. (j - 1) \div w + 1 \in 1..n
    BY <1>1, PlacedWithin
  <2>3. (j - 1) % w \in 0..(w - 1)
    BY <2>1, Placed
  <2>4. (j - 1) % w \in 0..3
    BY <2>3
  <2>5. QED
    BY <1>1, <2>2, <2>4, ByteRange
<1>3. ASSUME NEW i \in 1..n, NEW r \in 0..(w - 1)
      PROVE  Pack(vs, w)[(i - 1) * w + r + 1] = Byte(vs[i], r)
  <2> DEFINE j == (i - 1) * w + r + 1
  <2>1. j \in 1..(n * w)
    BY <1>1, PlacedWithin
  <2>2. (j - 1) \div w + 1 = i /\ (j - 1) % w = r
    <3>1. i \in Nat \ {0}
      BY <1>1
    <3>2. j - 1 = (i - 1) * w + r
      BY <1>1
    <3>3. (j - 1) \div w = i - 1 /\ (j - 1) % w = r
      BY <3>1, <3>2, Placed
    <3>4. QED
      BY <3>3, <1>1
  <2> HIDE DEF j
  <2>3. Pack(vs, w)[j] = Byte(vs[(j - 1) \div w + 1], (j - 1) % w)
    BY <2>1 DEF Pack, n
  <2>4. QED
    BY <2>2, <2>3 DEF j
<1>4. QED
  BY <1>2, <1>3, Zenon DEF Pack, BytesAt, n

\* What "uvc parameters" sends: the numbers given, and then the old bytes.
LEMMA StoreIs ==
  ASSUME NEW c, Shape(c), Fits(c), NEW vs, Numeric(vs),
         NEW b \in [1..Length(c) -> 0..255]
  PROVE  /\ StoreVal(c, b, vs) \in [1..Length(c) -> 0..255]
         /\ \A i \in 1..Len(c.fields) :
              IF i <= Len(vs)
              THEN BytesAt(StoreVal(c, b, vs), Width(c), i, vs[i])
              ELSE \A r \in 0..(Width(c) - 1) :
                     StoreVal(c, b, vs)[(i - 1) * Width(c) + r + 1]
                       = b[(i - 1) * Width(c) + r + 1]
<1> DEFINE n == Len(c.fields)
           w == Width(c)
           m == Len(vs)
           Stored(j) == IF (j - 1) \div w + 1 <= m
                        THEN Byte(vs[(j - 1) \div w + 1], (j - 1) % w)
                        ELSE b[j]
<1>1. /\ n \in Nat /\ w \in {1, 2, 4} /\ Length(c) = n * w /\ Total(c) = n * w
      /\ Type(c) = w
  BY DEF Shape, Fits, Length, Total
<1>2. m \in Nat /\ \A i \in 1..m : vs[i] \in Int
  BY DEF Numeric
<1>3. StoreVal(c, b, vs) = [j \in 1..(n * w) |-> Stored(j)]
  BY <1>1 DEF StoreVal
<1>4. b \in [1..(n * w) -> 0..255]
  BY <1>1
<1> HIDE DEF n, w, m
<1>5. ASSUME NEW j \in 1..(n * w) PROVE Stored(j) \in 0..255
  <2>1. j - 1 \in Nat
    BY <1>1
  <2>2. (j - 1) % w \in 0..(w - 1) /\ (j - 1) \div w \in Nat
    BY <1>1, <2>1, Placed
  <2>3. (j - 1) % w \in 0..3
    BY <1>1, <2>2
  <2>4. CASE (j - 1) \div w + 1 <= m
    <3>1. (j - 1) \div w + 1 \in 1..m
      BY <2>2, <2>4, <1>2
    <3>2. QED
      BY <2>4, <3>1, <2>3, <1>2, ByteRange
  <2>5. CASE ~((j - 1) \div w + 1 <= m)
    BY <2>5, <1>4, ZenonT(60)
  <2>6. QED
    BY <2>4, <2>5, Zenon
<1>6. ASSUME NEW i \in 1..n, NEW r \in 0..(w - 1)
      PROVE  StoreVal(c, b, vs)[(i - 1) * w + r + 1] =
               IF i <= m THEN Byte(vs[i], r) ELSE b[(i - 1) * w + r + 1]
  <2> DEFINE j == (i - 1) * w + r + 1
  <2>1. j \in 1..(n * w)
    BY <1>1, PlacedWithin
  <2>2. (j - 1) \div w + 1 = i /\ (j - 1) % w = r
    <3>1. i \in Nat \ {0}
      BY <1>1
    <3>2. j - 1 = (i - 1) * w + r
      BY <1>1
    <3>3. (j - 1) \div w = i - 1 /\ (j - 1) % w = r
      BY <1>1, <3>1, <3>2, Placed, SMTT(60)
    <3>4. QED
      BY <3>3, <1>1
  <2> HIDE DEF j
  <2>3. StoreVal(c, b, vs)[j] = Stored(j)
    BY <2>1, <1>3
  <2>4. QED
    BY <2>2, <2>3 DEF j
<1>7. StoreVal(c, b, vs) \in [1..Length(c) -> 0..255]
  BY <1>1, <1>3, <1>5, ZenonT(60)
<1>8. QED
  BY <1>6, <1>7, Zenon DEF BytesAt, n, w, m

\* What is left of a number in w bytes, before the cast.
Wrapped(v, w) == IF w = 1 THEN v % 256 ELSE IF w = 2 THEN v % 65536 ELSE v

\* Reading the bytes of a number.
LEMMA ReadOfBytes ==
  ASSUME NEW w \in {1, 2, 4}, NEW s, NEW i \in Nat \ {0}, NEW v, Fits16(v),
         BytesAt(s, w, i, v)
  PROVE  Read(w, s, (i - 1) * w) = Wrapped(v, w)
<1> DEFINE o == (i - 1) * w
<1>1. o \in Nat /\ \A r \in 0..(w - 1) : s[o + r + 1] = Byte(v, r)
  BY DEF BytesAt
<1>2. v \in Int
  BY SMT DEF Fits16
<1> HIDE DEF o
<1>3. CASE w = 1
  <2>1. s[o + 1] = Byte(v, 0)
    BY <1>1, <1>3
  <2>2. Byte(v, 0) = v % 256
    BY <1>2, LowBytes
  <2>3. QED
    BY <1>3, <2>1, <2>2, SMT DEF Read, Wrapped, o
<1>4. CASE w = 2
  <2>1. 0 \in 0..(w - 1) /\ 1 \in 0..(w - 1)
    BY <1>4
  <2>2. s[o + 1] = Byte(v, 0) /\ s[o + 2] = Byte(v, 1)
    BY <1>1, <2>1
  <2> DEFINE m == v % 65536
  <2>3. Byte(v, 0) + 256 * Byte(v, 1) = m
    BY <1>2, TwoBytesRead
  <2>4. Wrapped(v, w) = m
    BY <1>4, SMT DEF Wrapped
  <2> HIDE DEF m
  <2>5. Read(w, s, o) = SW_TO_SHORT(s, o)
    BY <1>4, SMT DEF Read
  <2>6. QED
    BY <2>2, <2>3, <2>4, <2>5, SMT DEF SW_TO_SHORT, o
<1>5. CASE w = 4
  <2>1. /\ 0 \in 0..(w - 1) /\ 1 \in 0..(w - 1)
        /\ 2 \in 0..(w - 1) /\ 3 \in 0..(w - 1)
    BY <1>5
  <2>2. /\ s[o + 1] = Byte(v, 0) /\ s[o + 2] = Byte(v, 1)
        /\ s[o + 3] = Byte(v, 2) /\ s[o + 4] = Byte(v, 3)
    BY <1>1, <2>1
  <2>3. Wrapped(v, w) = v
    BY <1>5, SMT DEF Wrapped
  <2>4. Read(w, s, o) = DW_TO_INT(s, o)
    BY <1>5, SMT DEF Read
  <2>5. DW_TO_INT(s, o) = v
    BY <2>2, FourBytesRead, SMT DEF DW_TO_INT
  <2>6. QED
    BY <2>3, <2>4, <2>5, SMT DEF o
<1>6. QED
  BY <1>3, <1>4, <1>5

\* The bytes of what is read are those it is read from.
LEMMA BytesOfRead ==
  ASSUME NEW w \in {1, 2, 4}, NEW s, NEW i \in Nat \ {0},
         \A r \in 0..(w - 1) : s[(i - 1) * w + r + 1] \in 0..255
  PROVE  /\ Read(w, s, (i - 1) * w) \in Int
         /\ BytesAt(s, w, i, Read(w, s, (i - 1) * w))
<1> DEFINE o == (i - 1) * w
           n == Read(w, s, o)
<1>1. o \in Nat /\ \A r \in 0..(w - 1) : s[o + r + 1] \in 0..255
  OBVIOUS
<1> SUFFICES n \in Int /\ \A r \in 0..(w - 1) : s[o + r + 1] = Byte(n, r)
  BY DEF BytesAt
<1> HIDE DEF o, n
<1>2. CASE w = 1
  <2>1. n = s[o + 1] /\ s[o + 1] \in 0..255
    BY <1>1, <1>2, SMT DEF Read, n
  <2>2. n % 256 = n
    BY <2>1, SMT
  <2>3. Byte(n, 0) = n
    BY <2>1, <2>2, LowBytes
  <2>4. \A r \in 0..(w - 1) : r = 0
    BY <1>2
  <2>5. QED
    BY <1>1, <2>1, <2>3, <2>4
<1>3. CASE w = 2
  <2>1. 0 \in 0..(w - 1) /\ 1 \in 0..(w - 1)
    BY <1>3
  <2>2. s[o + 1] \in 0..255 /\ s[o + 2] \in 0..255
    <3>1. s[o + 0 + 1] \in 0..255 /\ s[o + 1 + 1] \in 0..255
      BY <1>1, <2>1, ZenonT(60)
    <3>2. o + 0 + 1 = o + 1 /\ o + 1 + 1 = o + 2
      BY <1>1
    <3>3. QED
      BY <3>1, <3>2
  <2>3. n = s[o + 1] + 256 * s[o + 2]
    BY <1>3, SMT DEF Read, SW_TO_SHORT, n
  <2> DEFINE l == s[o + 1]
             h == s[o + 2]
  <2>4. /\ l \in Int /\ 0 <= l /\ l < 256 /\ h \in Int /\ h % 256 = h
        /\ n = l + 256 * h
    BY <2>2, <2>3, SMTT(60)
  <2> HIDE DEF l, h
  <2>5. n \in Int /\ n % 256 = l /\ n \div 256 = h
    BY <2>4, Division, SMT
  <2>6. n \in Int /\ Byte(n, 0) = l /\ Byte(n, 1) = h
    BY <2>4, <2>5, LowBytes, SMTT(60)
  <2>7. ASSUME NEW r \in 0..(w - 1) PROVE s[o + r + 1] = Byte(n, r)
    <3>1. r = 0 \/ r = 1
      BY <1>3
    <3>2. o + 0 + 1 = o + 1 /\ o + 1 + 1 = o + 2
      BY <1>1
    <3>3. QED
      BY <3>1, <3>2, <2>6 DEF l, h
  <2>8. QED
    BY <2>6, <2>7
<1>4. CASE w = 4
  <2>1. /\ 0 \in 0..(w - 1) /\ 1 \in 0..(w - 1)
        /\ 2 \in 0..(w - 1) /\ 3 \in 0..(w - 1)
    BY <1>4
  <2>2. /\ s[o + 1] \in 0..255 /\ s[o + 2] \in 0..255
        /\ s[o + 3] \in 0..255 /\ s[o + 4] \in 0..255
    <3> DEFINE at(r) == s[o + r + 1]
    <3>1. \A r \in 0..(w - 1) : at(r) \in 0..255
      BY <1>1
    <3>2. /\ o + 0 + 1 = o + 1 /\ o + 1 + 1 = o + 2
          /\ o + 2 + 1 = o + 3 /\ o + 3 + 1 = o + 4
      BY <1>1
    <3>3. /\ at(0) = s[o + 1] /\ at(1) = s[o + 2]
          /\ at(2) = s[o + 3] /\ at(3) = s[o + 4]
      BY <3>2
    <3> HIDE DEF at
    <3>4. QED
      BY <2>1, <3>1, <3>3, SMTT(60)
  <2>3. n = DW_TO_INT(s, o)
    BY <1>4, SMTT(30) DEF Read, n
  <2>4. /\ n \in Int /\ Byte(n, 0) = s[o + 1] /\ Byte(n, 1) = s[o + 2]
        /\ Byte(n, 2) = s[o + 3] /\ Byte(n, 3) = s[o + 4]
    BY <2>2, <2>3, FourBytesBack, ZenonT(60)
  <2>5. ASSUME NEW r \in 0..(w - 1) PROVE s[o + r + 1] = Byte(n, r)
    <3>1. r = 0 \/ r = 1 \/ r = 2 \/ r = 3
      BY <1>4
    <3>2. /\ o + 0 + 1 = o + 1 /\ o + 1 + 1 = o + 2
          /\ o + 2 + 1 = o + 3 /\ o + 3 + 1 = o + 4
      BY <1>1
    <3>3. QED
      BY <3>1, <3>2, <2>4
  <2>6. QED
    BY <2>4, <2>5
<1>5. QED
  BY <1>2, <1>3, <1>4

\* The six types are told apart.
LEMMA TypesDiffer ==
  /\ U8 # S8 /\ U8 # U16 /\ U8 # S16 /\ U8 # U32 /\ U8 # S32
  /\ S8 # U16 /\ S8 # S16 /\ S8 # U32 /\ S8 # S32
  /\ U16 # S16 /\ U16 # U32 /\ U16 # S32
  /\ S16 # U32 /\ S16 # S32
BY DEF U8, S8, U16, S16, U32, S32

\* The cast of what is left of a number is Converted.
LEMMA CastIs ==
  ASSUME NEW w \in {1, 2, 4}, NEW f \in OfWidth(w), NEW v \in Int
  PROVE  Cast(Wrapped(v, w), f) = Converted(v, f)
<1>1. CASE w = 1
  <2>1. f \in {U8, S8} /\ Wrapped(v, w) = v % 256
    BY <1>1, SMT DEF OfWidth, Wrapped
  <2>2. (IF v % 256 < 128 THEN v % 256 ELSE (v % 256) - 256)
          = ((v + 128) % 256) - 128
    BY SMT
  <2>3. CASE f = U8
    BY <2>1, <2>3, TypesDiffer, SMT DEF Cast, Converted
  <2>4. CASE f = S8
    BY <2>1, <2>2, <2>4, TypesDiffer, SMT DEF Cast, Converted
  <2>5. QED
    BY <2>1, <2>3, <2>4
<1>2. CASE w = 2
  <2>1. f \in {U16, S16} /\ Wrapped(v, w) = v % 65536
    BY <1>2, SMT DEF OfWidth, Wrapped
  <2>2. (IF v % 65536 < 32768 THEN v % 65536 ELSE (v % 65536) - 65536)
          = ((v + 32768) % 65536) - 32768
    BY SMT
  <2>3. CASE f = U16
    BY <2>1, <2>3, TypesDiffer, SMT DEF Cast, Converted
  <2>4. CASE f = S16
    BY <2>1, <2>2, <2>4, TypesDiffer, SMT DEF Cast, Converted
  <2>5. QED
    BY <2>1, <2>3, <2>4
<1>3. CASE w = 4
  <2>1. f \in {U32, S32} /\ Wrapped(v, w) = v
    BY <1>3, SMT DEF OfWidth, Wrapped
  <2>2. QED
    BY <2>1, TypesDiffer, SMT DEF Cast, Converted
<1>4. QED
  BY <1>1, <1>2, <1>3

-----------------------------------------------------------------------------
(***************************************************************************)
(* The bytes of a control, and its two descriptions.                       *)
(***************************************************************************)

\* The bytes of a control.
BytesOf(c) == [1..Length(c) -> 0..255]

\* A part of the bytes.
LEMMA PartIs ==
  ASSUME NEW n \in Nat, NEW s \in [1..n -> 0..255],
         NEW a \in 1..(n + 1), NEW b \in 0..n, a <= b + 1
  PROVE  /\ Len(SubSeq(s, a, b)) = b - a + 1
         /\ SubSeq(s, a, b) = [j \in 1..(b - a + 1) |-> s[j + a - 1]]
<1>1. s \in Seq(0..255) /\ Len(s) = n
  OBVIOUS
<1>2. /\ SubSeq(s, a, b) \in Seq(0..255)
      /\ Len(SubSeq(s, a, b)) = b - a + 1
      /\ \A j \in 1..(b - a + 1) : SubSeq(s, a, b)[j] = s[j + a - 1]
  BY <1>1, SMTT(60)
<1>3. QED
  BY <1>2

\* All of them.
LEMMA WholeIs ==
  ASSUME NEW n \in Nat, NEW s \in [1..n -> 0..255]
  PROVE  Len(s) = n /\ SubSeq(s, 1, n) = s
<1>1. s \in Seq(0..255) /\ Len(s) = n
  OBVIOUS
<1>2. QED
  BY <1>1, PartIs

\* Number i of a control, before the cast.
Raw(c, b, i) == Read(Width(c), b, (i - 1) * Width(c))

\* What a shape says of widths and lengths.
LEMMA ShapeIs ==
  ASSUME NEW c, Shape(c)
  PROVE  /\ Len(c.fields) \in Nat \ {0} /\ DOMAIN c.fields = 1..Len(c.fields)
         /\ Width(c) \in {1, 2, 4} /\ Length(c) = Len(c.fields) * Width(c)
         /\ Length(c) \in Nat
         /\ \A i \in 1..Len(c.fields) : c.fields[i] \in OfWidth(Width(c))
<1>1. /\ Len(c.fields) \in 1..6 /\ Width(c) \in {1, 2, 4}
      /\ DOMAIN c.fields = 1..Len(c.fields)
      /\ \A i \in 1..Len(c.fields) : c.fields[i] \in OfWidth(Width(c))
  BY DEF Shape
<1>2. \A n \in 1..6 : n \in Nat \ {0} /\ \A w \in {1, 2, 4} : n * w \in Nat
  BY SMT
<1>3. Length(c) = Len(c.fields) * Width(c)
  BY DEF Length
<1>4. Length(c) \in Nat /\ Len(c.fields) \in Nat \ {0}
  <2> DEFINE n == Len(c.fields)
             w == Width(c)
  <2>1. n \in 1..6 /\ w \in {1, 2, 4} /\ Length(c) = n * w
    BY <1>1, <1>3
  <2> HIDE DEF n, w
  <2>2. QED
    BY <1>2, <2>1 DEF n
<1>5. QED
  BY <1>1, <1>3, <1>4

\* The library casts what the table's view returns as it is.
LEMMA FieldIs ==
  ASSUME NEW c, Shape(c), NEW b, NEW i
  PROVE  Field(c, b, i) = Cast(Raw(c, b, i), c.fields[i])
<1>1. Width(c) \in {1, 2, 4}
  BY ShapeIs
<1>2. CASE Width(c) = 1
  BY <1>2, SMT DEF Field, Raw, Read
<1>3. CASE Width(c) = 2
  BY <1>3, SMT DEF Field, Raw, Read
<1>4. CASE Width(c) = 4
  BY <1>4, SMT DEF Field, Raw, Read
<1>5. QED
  BY <1>1, <1>2, <1>3, <1>4

\* What "uvc parameters" returns of a control.
LEMMA PrintIs ==
  ASSUME NEW c, Shape(c), Fits(c), NEW b
  PROVE  PrintVal(c, b) = [i \in 1..Len(c.fields) |-> Raw(c, b, i)]
<1>1. Type(c) = Width(c) /\ Count(c) = Len(c.fields) /\ Width(c) \in {1, 2, 4}
  BY ShapeIs DEF Fits
<1> DEFINE Printed(i) ==
      LET o == (i - 1) * Type(c)
      IN CASE Type(c) = 1 -> b[o + 1]
           [] Type(c) = 2 -> b[o + 1] + 256 * b[o + 2]
           [] Type(c) = 4 -> DW_TO_INT(b, o)
<1>2. ASSUME NEW i PROVE Printed(i) = Raw(c, b, i)
  <2>1. CASE Width(c) = 1
    BY <1>1, <2>1, SMT DEF Raw, Read
  <2>2. CASE Width(c) = 2
    BY <1>1, <2>2, SMT DEF Raw, Read, SW_TO_SHORT
  <2>3. CASE Width(c) = 4
    BY <1>1, <2>3, SMT DEF Raw, Read
  <2>4. QED
    BY <1>1, <2>1, <2>2, <2>3
<1>3. PrintVal(c, b) = [i \in 1..Count(c) |-> Printed(i)]
  BY DEF PrintVal
<1> HIDE DEF Printed
<1>4. QED
  BY <1>1, <1>2, <1>3

\* The numbers of a control, and their bytes.
LEMMA RawIs ==
  ASSUME NEW c, Shape(c), NEW b \in BytesOf(c), NEW i \in 1..Len(c.fields)
  PROVE  Raw(c, b, i) \in Int /\ BytesAt(b, Width(c), i, Raw(c, b, i))
<1> DEFINE w == Width(c)
           n == Len(c.fields)
<1>1. n \in Nat /\ w \in {1, 2, 4} /\ b \in [1..(n * w) -> 0..255]
  BY ShapeIs DEF BytesOf
<1>2. i \in Nat \ {0} /\ i \in 1..n
  BY <1>1
<1> HIDE DEF w, n
<1>3. \A r \in 0..(w - 1) : (i - 1) * w + r + 1 \in 1..(n * w)
  BY <1>1, <1>2, PlacedWithin
<1>4. \A r \in 0..(w - 1) : b[(i - 1) * w + r + 1] \in 0..255
  BY <1>1, <1>3
<1>5. /\ Read(w, b, (i - 1) * w) \in Int
      /\ BytesAt(b, w, i, Read(w, b, (i - 1) * w))
  BY <1>1, <1>2, <1>4, BytesOfRead, Zenon
<1>6. QED
  BY <1>5 DEF Raw, w

\* What a set accessor writes the get accessor reads, converted.
LEMMA ReadsBack ==
  ASSUME NEW c, Shape(c), NEW vs, Len(vs) = Len(c.fields),
         \A i \in 1..Len(vs) : Fits16(vs[i])
  PROVE  Numbers(c, Pack(vs, Width(c))) =
           [i \in DOMAIN c.fields |-> Converted(vs[i], c.fields[i])]
<1> DEFINE w == Width(c)
           n == Len(c.fields)
           b == Pack(vs, w)
<1>1. /\ n \in Nat /\ w \in {1, 2, 4} /\ DOMAIN c.fields = 1..n /\ Len(vs) = n
      /\ \A i \in 1..n : c.fields[i] \in OfWidth(w)
  BY ShapeIs
<1>2. \A i \in 1..n : Fits16(vs[i]) /\ vs[i] \in Int
  BY <1>1 DEF Fits16
<1>3. Numeric(vs)
  BY <1>1, <1>2 DEF Numeric
<1>4. \A i \in 1..n : BytesAt(b, w, i, vs[i])
  BY <1>1, <1>3, PackIs
<1> HIDE DEF b, n
<1>5. ASSUME NEW i \in 1..n
      PROVE  Field(c, b, i) = Converted(vs[i], c.fields[i])
  <2>1. i \in Nat \ {0}
    BY <1>1
  <2>2. Read(w, b, (i - 1) * w) = Wrapped(vs[i], w)
    BY <1>1, <1>2, <1>4, <2>1, ReadOfBytes
  <2>3. Raw(c, b, i) = Wrapped(vs[i], w)
    BY <2>2 DEF Raw
  <2>4. Cast(Wrapped(vs[i], w), c.fields[i]) = Converted(vs[i], c.fields[i])
    BY <1>1, <1>2, CastIs
  <2>5. QED
    BY <2>3, <2>4, FieldIs
<1>6. Numbers(c, b) = [i \in 1..n |-> Field(c, b, i)]
  BY DEF Numbers, n
<1>7. QED
  BY <1>1, <1>5, <1>6 DEF b

\* The two descriptions differ in the sign only.
LEMMA ViewsAgree ==
  ASSUME NEW c, Shape(c), Fits(c), NEW b \in BytesOf(c)
  PROVE  LET read  == Numbers(c, b)
             there == PrintVal(c, b)
         IN /\ Len(there) = Len(read)
            /\ \A i \in DOMAIN read :
                 IF Width(c) = 4 THEN there[i] = read[i]
                 ELSE (there[i] - read[i]) % Places[Width(c) + 1] = 0
<1> DEFINE n == Len(c.fields)
           w == Width(c)
           read == Numbers(c, b)
           there == PrintVal(c, b)
<1>1. /\ n \in Nat /\ w \in {1, 2, 4}
      /\ \A i \in 1..n : c.fields[i] \in OfWidth(w)
  BY ShapeIs
<1>2. /\ there = [i \in 1..n |-> Raw(c, b, i)]
      /\ read = [i \in 1..n |-> Field(c, b, i)]
  BY PrintIs DEF Numbers
<1> HIDE DEF read, there, n
<1>3. Len(there) = n /\ Len(read) = n /\ DOMAIN read = 1..n
  BY <1>1, <1>2
<1>4. ASSUME NEW i \in 1..n
      PROVE  IF w = 4 THEN there[i] = read[i]
             ELSE (there[i] - read[i]) % Places[w + 1] = 0
  <2> DEFINE x == Raw(c, b, i)
             f == c.fields[i]
  <2>1. x \in Int /\ there[i] = x /\ read[i] = Cast(x, f) /\ f \in OfWidth(w)
    BY <1>1, <1>2, RawIs, FieldIs DEF n
  <2> HIDE DEF x, f
  <2>2. CASE w = 1
    <3>1. f \in {U8, S8} /\ Places[w + 1] = 256
      BY <2>1, <2>2, SMT DEF OfWidth, Places
    <3>2. Cast(x, f) = x \/ Cast(x, f) = x - 256
      BY <3>1, TypesDiffer, SMT DEF Cast
    <3>3. (x - x) % 256 = 0 /\ (x - (x - 256)) % 256 = 0
      BY <2>1, SMT
    <3>4. QED
      BY <2>1, <2>2, <3>1, <3>2, <3>3, SMT
  <2>3. CASE w = 2
    <3>1. f \in {U16, S16} /\ Places[w + 1] = 65536
      BY <2>1, <2>3, SMT DEF OfWidth, Places
    <3>2. Cast(x, f) = x \/ Cast(x, f) = x - 65536
      BY <3>1, TypesDiffer, SMT DEF Cast
    <3>3. (x - x) % 65536 = 0 /\ (x - (x - 65536)) % 65536 = 0
      BY <2>1, SMT
    <3>4. QED
      BY <2>1, <2>3, <3>1, <3>2, <3>3, SMT
  <2>4. CASE w = 4
    <3>1. f \in {U32, S32}
      BY <2>1, <2>4, SMT DEF OfWidth
    <3>2. Cast(x, f) = x
      BY <3>1, TypesDiffer, SMT DEF Cast
    <3>3. QED
      BY <2>1, <2>4, <3>2, SMT
  <2>5. QED
    BY <1>1, <2>2, <2>3, <2>4
<1>5. QED
  BY <1>3, <1>4 DEF read, there

\* Storing what was returned stores the bytes it was made from.
LEMMA WritesBack ==
  ASSUME NEW c, Shape(c), Fits(c), NEW b \in BytesOf(c)
  PROVE  Numeric(PrintVal(c, b)) /\ StoreVal(c, b, PrintVal(c, b)) = b
<1> DEFINE n == Len(c.fields)
           w == Width(c)
           vs == PrintVal(c, b)
           s == StoreVal(c, b, vs)
<1>1. n \in Nat /\ w \in {1, 2, 4} /\ Length(c) = n * w
  BY ShapeIs
<1>2. vs = [i \in 1..n |-> Raw(c, b, i)]
  BY PrintIs
<1>3. \A i \in 1..n : Raw(c, b, i) \in Int /\ BytesAt(b, w, i, Raw(c, b, i))
  BY RawIs
<1> HIDE DEF vs, n, w
<1>4. Len(vs) = n
  BY <1>1, <1>2
<1>5. Numeric(vs)
  BY <1>1, <1>2, <1>3, <1>4 DEF Numeric
<1>6. /\ s \in [1..(n * w) -> 0..255]
      /\ \A i \in 1..n : i <= Len(vs) => BytesAt(s, w, i, vs[i])
  BY <1>1, <1>5, StoreIs, ZenonT(60) DEF BytesOf, n, w
<1> HIDE DEF s
<1>7. \A i \in 1..n : BytesAt(s, w, i, Raw(c, b, i))
  BY <1>1, <1>2, <1>4, <1>6
<1>8. ASSUME NEW j \in 1..(n * w) PROVE s[j] = b[j]
  <2> DEFINE i == (j - 1) \div w + 1
             r == (j - 1) % w
  <2>1. j - 1 \in Nat
    BY <1>1
  <2>2. r \in 0..(w - 1) /\ i - 1 \in Nat /\ j - 1 = (i - 1) * w + r
    <3>1. LET x == j - 1
          IN /\ x \div w \in Nat /\ x % w \in 0..(w - 1)
             /\ x = (x \div w) * w + (x % w)
      BY <1>1, <2>1, Placed
    <3>2. i - 1 = (j - 1) \div w
      BY <3>1
    <3>3. QED
      BY <3>1, <3>2
  <2>3. i \in 1..n
    BY <1>1, PlacedWithin
  <2> HIDE DEF i, r
  <2>4. /\ s[(i - 1) * w + r + 1] = Byte(Raw(c, b, i), r)
        /\ b[(i - 1) * w + r + 1] = Byte(Raw(c, b, i), r)
    BY <1>3, <1>7, <2>2, <2>3 DEF BytesAt
  <2>5. (i - 1) * w + r + 1 = j
    BY <2>2, <1>1
  <2>6. QED
    BY <2>4, <2>5
<1>9. s = b
  BY <1>1, <1>6, <1>8 DEF BytesOf
<1>10. QED
  BY <1>5, <1>9 DEF vs, s

\* The bytes of one number.
LEMMA NumberIs ==
  ASSUME NEW c, Shape(c), NEW b \in BytesOf(c), NEW i \in 1..Len(c.fields)
  PROVE  Number(c, b, i) = [j \in 1..Width(c) |-> b[(i - 1) * Width(c) + j]]
<1> DEFINE n == Len(c.fields)
           w == Width(c)
           x == (i - 1) * w
<1>1. /\ n \in Nat /\ w \in {1, 2, 4} /\ b \in [1..(n * w) -> 0..255]
      /\ i \in 1..n /\ n * w \in Nat
  BY ShapeIs, SMTT(60) DEF BytesOf
<1> HIDE DEF n
<1>2. x \in Nat /\ i * w = x + w /\ x + w <= n * w
  <2>1. CASE w = 1
    BY <1>1, <2>1, SMT
  <2>2. CASE w = 2
    BY <1>1, <2>2, SMT
  <2>3. CASE w = 4
    BY <1>1, <2>3, SMT
  <2>4. QED
    BY <1>1, <2>1, <2>2, <2>3
<1>3. Number(c, b, i) = SubSeq(b, x + 1, x + w)
  BY <1>2 DEF Number
<1> HIDE DEF x, w
<1>4. SubSeq(b, x + 1, x + w)
        = [j \in 1..((x + w) - (x + 1) + 1) |-> b[j + (x + 1) - 1]]
  <2>1. /\ x + 1 \in 1..(n * w + 1) /\ x + w \in 0..(n * w)
        /\ x + 1 <= (x + w) + 1
    BY <1>1, <1>2
  <2>2. QED
    BY <1>1, <2>1, PartIs, ZenonT(60)
<1>5. /\ (x + w) - (x + 1) + 1 = w
      /\ \A j \in 1..w : j + (x + 1) - 1 = x + j
  BY <1>1, <1>2
<1>6. QED
  BY <1>3, <1>4, <1>5 DEF x, w

\* Of the numbers of a control those that are given are sent, and for the
\* others the bytes of the entry.
LEMMA SendsGiven ==
  ASSUME NEW c, Shape(c), Fits(c), NEW b \in BytesOf(c), NEW vs, Numeric(vs),
         NEW i \in 1..Len(c.fields)
  PROVE  IF i <= Len(vs)
         THEN Number(c, StoreVal(c, b, vs), i) = Pack(<<vs[i]>>, Width(c))
         ELSE Number(c, StoreVal(c, b, vs), i) = Number(c, b, i)
<1> DEFINE n == Len(c.fields)
           w == Width(c)
           s == StoreVal(c, b, vs)
<1>1. n \in Nat /\ w \in {1, 2, 4} /\ i \in 1..n
  BY ShapeIs
<1>2. /\ s \in BytesOf(c)
      /\ IF i <= Len(vs) THEN BytesAt(s, w, i, vs[i])
         ELSE \A r \in 0..(w - 1) :
                s[(i - 1) * w + r + 1] = b[(i - 1) * w + r + 1]
  BY StoreIs, ZenonT(60) DEF BytesOf
<1> HIDE DEF s
<1>3. /\ Number(c, s, i) = [j \in 1..w |-> s[(i - 1) * w + j]]
      /\ Number(c, b, i) = [j \in 1..w |-> b[(i - 1) * w + j]]
  BY <1>2, NumberIs
<1> DEFINE x == (i - 1) * w
<1>4. x \in Nat
  BY <1>1
<1> HIDE DEF x, n, w
<1>5. \A j \in 1..w : j - 1 \in 0..(w - 1) /\ x + (j - 1) + 1 = x + j
  BY <1>1, <1>4
<1>6. CASE i <= Len(vs)
  <2> DEFINE one == <<vs[i]>>
  <2>1. vs[i] \in Int
    BY <1>1, <1>6 DEF Numeric
  <2>2. Len(one) = 1 /\ one[1] = vs[i] /\ Numeric(one)
    BY <2>1 DEF Numeric
  <2> HIDE DEF one
  <2>3. /\ Pack(one, w) \in [1..(1 * w) -> 0..255]
        /\ BytesAt(Pack(one, w), w, 1, vs[i])
    <3>1. /\ Pack(one, w) \in [1..(Len(one) * w) -> 0..255]
          /\ \A k \in 1..Len(one) : BytesAt(Pack(one, w), w, k, one[k])
      BY <1>1, <2>2, PackIs
    <3>2. 1 \in 1..Len(one)
      BY <2>2
    <3>3. QED
      BY <2>2, <3>1, <3>2, ZenonT(60)
  <2>4. 1 * w = w /\ \A r \in 0..(w - 1) : (1 - 1) * w + r + 1 = r + 1
    BY <1>1
  <2>5. \A r \in 0..(w - 1) : Pack(one, w)[r + 1] = Byte(vs[i], r)
    BY <2>3, <2>4 DEF BytesAt
  <2>6. \A r \in 0..(w - 1) : s[x + r + 1] = Byte(vs[i], r)
    BY <1>2, <1>6 DEF BytesAt, x, w
  <2>7. ASSUME NEW j \in 1..w PROVE s[x + j] = Pack(one, w)[j]
    <3>1. j - 1 \in 0..(w - 1) /\ (j - 1) + 1 = j /\ x + (j - 1) + 1 = x + j
      BY <1>1, <1>4
    <3>2. s[x + (j - 1) + 1] = Pack(one, w)[(j - 1) + 1]
      BY <2>5, <2>6, <3>1
    <3>3. QED
      BY <3>1, <3>2
  <2>8. Pack(one, w) = [j \in 1..w |-> s[x + j]]
    BY <2>3, <2>4, <2>7
  <2>9. QED
    BY <1>3, <1>6, <2>8 DEF one, s, x, w
<1>7. CASE ~(i <= Len(vs))
  <2>1. \A r \in 0..(w - 1) : s[x + r + 1] = b[x + r + 1]
    BY <1>2, <1>7 DEF x, w
  <2>2. ASSUME NEW j \in 1..w PROVE s[x + j] = b[x + j]
    <3>1. j - 1 \in 0..(w - 1) /\ x + (j - 1) + 1 = x + j
      BY <1>1, <1>4
    <3>2. s[x + (j - 1) + 1] = b[x + (j - 1) + 1]
      BY <2>1, <3>1
    <3>3. QED
      BY <3>1, <3>2
  <2>3. [j \in 1..w |-> s[x + j]] = [j \in 1..w |-> b[x + j]]
    BY <2>2
  <2>4. QED
    BY <1>3, <1>7, <2>3 DEF s, x, w
<1>8. QED
  BY <1>6, <1>7

-----------------------------------------------------------------------------
(***************************************************************************)
(* The invariant.                                                          *)
(***************************************************************************)

\* A table of bytes for the controls of a set.
Table(f, S) ==
  /\ DOMAIN f = S /\ f = [c \in S |-> f[c]]
  /\ \A c \in S : f[c] \in BytesOf(c)

\* The controls are those of ctrl-gen.c, and the camera has their bytes.
CameraHas ==
  /\ controls \subseteq Accessors /\ units \subseteq {"VC", "CT", "PU", "SU"}
  /\ Table(camera, controls)

\* An entry is of a control that could be listed, and so has its shape.
EntriesFit ==
  /\ DOMAIN cur \subseteq controls
  /\ Table(cur, DOMAIN cur)
  /\ \A c \in DOMAIN cur : Has(c) /\ Fits(c)

\* What was returned are numbers of listed controls.
ShownListed ==
  /\ DOMAIN shown \subseteq DOMAIN cur
  /\ \A c \in DOMAIN shown : Numeric(shown[c])

\* Until something else happens an entry that could be read has the bytes of
\* the camera, and what was returned was made from them.
ShownFresh ==
  /\ last.answered \subseteq controls
  /\ last.op \in {"get", "set"} =>
       \A c \in last.answered \cap DOMAIN shown :
         cur[c] = camera[c] /\ shown[c] = PrintVal(c, cur[c])

\* Until something else happens the camera has what a set accessor has written.
Written ==
  last.op = "uvc_set" /\ last.done = 1 =>
    LET c  == last.pairs[1].control
        vs == last.pairs[1].values
    IN /\ c \in controls
       /\ camera[c] = Pack(vs, Width(c))
       /\ Len(vs) = Len(c.fields) /\ \A i \in 1..Len(vs) : Fits16(vs[i])

ControlsInv ==
  /\ CameraHas /\ EntriesFit /\ ShownListed /\ ShownFresh /\ Written

\* The controls under test are known.
LEMMA Shapes == CameraHas => \A c \in controls : Shape(c)
BY AllKnown DEF CameraHas, Known

\* A table with other bytes for one control.
LEMMA TableStored ==
  ASSUME NEW S, NEW f, Table(f, S), NEW c \in S, NEW b \in BytesOf(c)
  PROVE  Table([f EXCEPT ![c] = b], S)
BY DEF Table

\* Two tables with the same bytes are the same.
LEMMA TablesEqual ==
  ASSUME NEW S, NEW f, Table(f, S), NEW g, Table(g, S),
         \A c \in S : f[c] = g[c]
  PROVE  f = g
<1>1. f = [c \in S |-> f[c]] /\ g = [c \in S |-> g[c]]
  BY DEF Table
<1>2. [c \in S |-> f[c]] = [c \in S |-> g[c]]
  OBVIOUS
<1>3. QED
  BY <1>1, <1>2

\* The numbers that are written with alternating sign.
LEMMA UniformIs ==
  ASSUME NEW v \in Values, NEW n \in Nat
  PROVE  /\ Len(Uniform(v, n)) = n
         /\ \A i \in 1..n : Fits16(Uniform(v, n)[i])
         /\ Numeric(Uniform(v, n))
<1>1. v \in Int /\ 0 < v /\ v < 32768
  BY ControlsAssumption, SMT
<1>2. -32768 <= -v /\ -v < 32768 /\ -32768 <= v /\ -v \in Int
  BY <1>1, SMT
<1>3. Fits16(v) /\ Fits16(-v)
  BY <1>1, <1>2, SMT DEF Fits16
<1>4. Len(Uniform(v, n)) = n
  BY DEF Uniform
<1>5. ASSUME NEW i \in 1..n PROVE Fits16(Uniform(v, n)[i])
  <2>1. Uniform(v, n)[i] = IF i % 2 = 1 THEN -v ELSE v
    BY DEF Uniform
  <2>2. QED
    BY <1>3, <2>1
<1>6. \A x : Fits16(x) => x \in Int
  BY DEF Fits16
<1>7. QED
  BY <1>4, <1>5, <1>6 DEF Numeric

\* What the camera or a set accessor stores.
LEMMA PackedIs ==
  ASSUME NEW c, Shape(c), NEW v \in Values
  PROVE  Pack(Uniform(v, Len(c.fields)), Width(c)) \in BytesOf(c)
<1> DEFINE vs == Uniform(v, Len(c.fields))
<1>1. Len(c.fields) \in Nat /\ Width(c) \in {1, 2, 4}
  BY ShapeIs
<1>2. Len(vs) = Len(c.fields) /\ Numeric(vs)
  BY <1>1, UniformIs
<1> HIDE DEF vs
<1>3. Pack(vs, Width(c)) \in [1..(Len(vs) * Width(c)) -> 0..255]
  BY <1>1, <1>2, PackIs, ZenonT(60)
<1>4. QED
  BY <1>2, <1>3 DEF BytesOf, Length, vs

\* A control that is long enough for its entry is listed with all its bytes.
LEMMA ListedWhole ==
  ASSUME CameraHas, NEW c \in controls, InTable(c),
         Len(GetCur(c, Total(c))) = Total(c)
  PROVE  Fits(c) /\ GetCur(c, Total(c)) = camera[c]
<1> DEFINE l == Length(c)
           t == Total(c)
           s == camera[c]
<1>1. Known(c) /\ Shape(c) /\ l \in Nat
  BY AllKnown, ShapeIs DEF CameraHas, Known
<1>2. s \in [1..l -> 0..255]
  BY DEF CameraHas, Table, BytesOf
<1>3. SubSeq(s, 1, l) = s /\ Len(s) = l
  BY <1>1, <1>2, WholeIs
<1>4. CASE t < l
  <2>1. t \in Nat
    BY TotalIs
  <2>2. Total(c) <= Length(c)
    BY <1>1, <1>4, <2>1
  <2>3. Fits(c)
    BY <1>1, <2>2 DEF Known
  <2>4. Total(c) = Length(c)
    BY <1>1, <2>3, FitsLength
  <2>5. QED
    BY <1>1, <1>4, <2>4
<1>5. CASE ~(t < l)
  <2>1. GetCur(c, t) = s
    BY <1>3, <1>5 DEF GetCur
  <2>2. t = l
    BY <1>3, <2>1
  <2>3. Total(c) <= Length(c)
    BY <1>1, <2>2
  <2>4. QED
    BY <1>1, <2>1, <2>3 DEF Known
<1>6. QED
  BY <1>4, <1>5

\* Entries and camera before any setting is sent, and after one more.
Now == [cur |-> cur, camera |-> camera]

Sent(state, pair) ==
  LET c     == pair.control
      bytes == StoreVal(c, state.cur[c], pair.values)
  IN IF c \notin DOMAIN cur THEN state
     ELSE [cur    |-> [state.cur EXCEPT ![c] = bytes],
           camera |-> [state.camera EXCEPT ![c] = bytes]]

\* The loop over the pairs of a list, which has one or two of them here.
LEMMA AfterPairsIs ==
  ASSUME NEW pairs, Len(pairs) \in {1, 2}
  PROVE  /\ AfterPairs(pairs)[0] = Now
         /\ AfterPairs(pairs)[1] = Sent(Now, pairs[1])
         /\ Len(pairs) = 2 =>
              AfterPairs(pairs)[2] = Sent(AfterPairs(pairs)[1], pairs[2])
<1> DEFINE n == Len(pairs)
           Body(f, k) == IF k = 0 THEN Now ELSE Sent(f[k - 1], pairs[k])
           first  == Sent(Now, pairs[1])
           second == Sent(first, pairs[2])
           g == [k \in 0..n |-> IF k = 0 THEN Now
                                ELSE IF k = 1 THEN first ELSE second]
           Good(f) == f = [k \in 0..n |-> Body(f, k)]
<1>1. AfterPairs(pairs) = CHOOSE f : Good(f)
  BY DEF AfterPairs, Now, Sent
<1>2. Good(g)
  <2>1. ASSUME NEW k \in 0..n PROVE g[k] = Body(g, k)
    <3>1. k = 0 \/ k = 1 \/ k = 2
      OBVIOUS
    <3>2. g[0] = Now /\ g[1] = first
      OBVIOUS
    <3>3. k = 2 => g[2] = second
      OBVIOUS
    <3> HIDE DEF g, first, second
    <3>4. CASE k = 0
      BY <3>2, <3>4
    <3>5. CASE k = 1
      BY <3>2, <3>5 DEF first
    <3>6. CASE k = 2
      <4>1. k - 1 = 1
        BY <3>6
      <4>2. QED
        BY <3>2, <3>3, <3>6, <4>1 DEF second
    <3>7. QED
      BY <3>1, <3>4, <3>5, <3>6
  <2>2. g = [k \in 0..n |-> g[k]]
    OBVIOUS
  <2>3. QED
    BY <2>1, <2>2
<1> HIDE DEF Good, g
<1>3. Good(AfterPairs(pairs))
  BY <1>1, <1>2
<1> DEFINE h == AfterPairs(pairs)
<1> HIDE DEF h
<1>4. h = [k \in 0..n |-> Body(h, k)]
  BY <1>3 DEF Good, h
<1> HIDE DEF Body
<1>5. \A k \in 0..n : h[k] = Body(h, k)
  BY <1>4
<1>6. h[0] = Body(h, 0) /\ h[1] = Body(h, 1) /\ (n = 2 => h[2] = Body(h, 2))
  BY <1>5
<1>7. QED
  BY <1>6 DEF h, Body

\* A list of settings is of one or two controls, with the numbers for them.
ListOf(pairs) ==
  /\ Len(pairs) \in {1, 2} /\ DOMAIN pairs = 1..Len(pairs)
  /\ \A k \in 1..Len(pairs) :
       pairs[k].control \in controls /\ Numeric(pairs[k].values)
  /\ Len(pairs) = 2 => pairs[1].control # pairs[2].control

\* The settings that are chosen are that, one by one,
LEMMA SettingsAre ==
  ASSUME CameraHas, NEW p \in Settings
  PROVE  p.control \in controls /\ Numeric(p.values)
<1>1. PICK c \in controls : p \in {Pair(c, vs) : vs \in Inputs(c)}
  BY DEF Settings
<1>2. PICK vs \in Inputs(c) : p = Pair(c, vs)
  BY <1>1
<1>3. p.control = c /\ p.values = vs
  BY <1>2 DEF Pair
<1>4. PICK v \in Values, n \in {1, Len(c.fields)} : vs = Uniform(v, n)
  BY <1>2 DEF Inputs
<1>5. Len(c.fields) \in Nat
  BY Shapes, ShapeIs
<1>6. n \in Nat
  BY <1>4, <1>5
<1>7. Numeric(vs)
  BY <1>4, <1>6, UniformIs
<1>8. QED
  BY <1>3, <1>7

\* and so are the lists of them.
LEMMA ListsAre ==
  ASSUME ControlsInv, NEW pairs \in Lists
  PROVE  ListOf(pairs)
<1>1. CameraHas /\ DOMAIN shown \subseteq controls
      /\ \A c \in DOMAIN shown : Numeric(shown[c])
  BY DEF ControlsInv, EntriesFit, ShownListed
<1>2. ASSUME NEW p, p.control \in controls, Numeric(p.values), pairs = <<p>>
      PROVE  ListOf(pairs)
  BY <1>2 DEF ListOf
<1>3. ASSUME NEW p \in Settings, pairs = <<p>> PROVE ListOf(pairs)
  BY <1>1, <1>2, <1>3, SettingsAre
<1>4. ASSUME NEW c \in DOMAIN shown, pairs = <<Pair(c, shown[c])>>
      PROVE  ListOf(pairs)
  <2> DEFINE p == Pair(c, shown[c])
  <2>1. p.control = c /\ p.values = shown[c]
    BY DEF Pair
  <2> HIDE DEF p
  <2>2. pairs = <<p>>
    BY <1>4 DEF p
  <2>3. QED
    BY <1>1, <1>2, <2>1, <2>2
<1>5. ASSUME pairs \in Settings \X Settings,
             pairs[1].control # pairs[2].control
      PROVE  ListOf(pairs)
  <2>1. /\ Len(pairs) = 2 /\ DOMAIN pairs = 1..2
        /\ pairs[1] \in Settings /\ pairs[2] \in Settings
    BY <1>5
  <2>2. \A k \in 1..2 : k = 1 \/ k = 2
    OBVIOUS
  <2>3. \A k \in 1..2 : pairs[k] \in Settings
    BY <2>1, <2>2
  <2>4. QED
    BY <1>1, <1>5, <2>1, <2>3, SettingsAre DEF ListOf
<1>6. \/ \E p \in Settings : pairs = <<p>>
      \/ pairs \in Settings \X Settings /\ pairs[1].control # pairs[2].control
      \/ \E c \in DOMAIN shown : pairs = <<Pair(c, shown[c])>>
  BY DEF Lists
<1>7. QED
  BY <1>3, <1>4, <1>5, <1>6

\* What has been sent of a list is in the entries and in the camera.
LEMMA SentIs ==
  ASSUME ControlsInv, NEW pairs, ListOf(pairs), NEW d \in 0..Len(pairs)
  PROVE  LET state == AfterPairs(pairs)[d]
         IN /\ Table(state.cur, DOMAIN cur) /\ Table(state.camera, controls)
            /\ \A c \in controls :
                 /\ \A i \in 1..d :
                      pairs[i].control = c /\ c \in DOMAIN cur =>
                        state.camera[c] = StoreVal(c, cur[c], pairs[i].values)
                 /\ (\A i \in 1..d :
                       ~(pairs[i].control = c /\ c \in DOMAIN cur))
                      => state.camera[c] = camera[c]
<1> DEFINE StateOK(s) == Table(s.cur, DOMAIN cur) /\ Table(s.camera, controls)
           Camera(s, e) ==
             \A c \in controls :
               /\ \A i \in 1..e :
                    pairs[i].control = c /\ c \in DOMAIN cur =>
                      s.camera[c] = StoreVal(c, cur[c], pairs[i].values)
               /\ (\A i \in 1..e : ~(pairs[i].control = c /\ c \in DOMAIN cur))
                    => s.camera[c] = camera[c]
           s0 == AfterPairs(pairs)[0]
           s1 == AfterPairs(pairs)[1]
           s2 == AfterPairs(pairs)[2]
<1>1. /\ Table(camera, controls) /\ Table(cur, DOMAIN cur)
      /\ DOMAIN cur \subseteq controls
      /\ \A c \in controls : Shape(c)
      /\ \A c \in DOMAIN cur : Fits(c)
  BY Shapes DEF ControlsInv, CameraHas, EntriesFit
<1>2. /\ Len(pairs) \in {1, 2}
      /\ \A k \in 1..Len(pairs) :
           pairs[k].control \in controls /\ Numeric(pairs[k].values)
      /\ Len(pairs) = 2 => pairs[1].control # pairs[2].control
  BY DEF ListOf
<1>3. /\ s0 = Now /\ s1 = Sent(s0, pairs[1])
      /\ Len(pairs) = 2 => s2 = Sent(s1, pairs[2])
  BY <1>2, AfterPairsIs
<1> HIDE DEF s0, s1, s2
\* One more pair.
<1>4. ASSUME NEW s, StateOK(s), NEW k \in 1..Len(pairs)
      PROVE  /\ StateOK(Sent(s, pairs[k]))
             /\ \A c \in controls :
                  IF c = pairs[k].control /\ c \in DOMAIN cur
                  THEN Sent(s, pairs[k]).camera[c] =
                         StoreVal(c, s.cur[c], pairs[k].values)
                  ELSE Sent(s, pairs[k]).camera[c] = s.camera[c]
             /\ \A c \in DOMAIN cur : c # pairs[k].control =>
                  Sent(s, pairs[k]).cur[c] = s.cur[c]
  <2> DEFINE c == pairs[k].control
             vs == pairs[k].values
             bytes == StoreVal(c, s.cur[c], vs)
  <2>1. CASE c \notin DOMAIN cur
    BY <1>4, <2>1 DEF Sent
  <2>2. CASE c \in DOMAIN cur
    <3>1. bytes \in BytesOf(c)
      <4>1. s.cur[c] \in [1..Length(c) -> 0..255]
        BY <1>4, <2>2, ZenonT(60) DEF Table, BytesOf
      <4>2. Numeric(vs) /\ Shape(c) /\ Fits(c)
        BY <1>1, <1>2, <2>2
      <4>3. QED
        BY <4>1, <4>2, StoreIs, ZenonT(60) DEF BytesOf
    <3> HIDE DEF bytes
    <3>2. /\ Sent(s, pairs[k]).cur = [s.cur EXCEPT ![c] = bytes]
          /\ Sent(s, pairs[k]).camera = [s.camera EXCEPT ![c] = bytes]
      BY <2>2 DEF Sent, bytes
    <3>3. /\ c \in controls
          /\ Table(s.cur, DOMAIN cur) /\ Table(s.camera, controls)
      BY <1>1, <1>4, <2>2
    <3>4. StateOK(Sent(s, pairs[k]))
      BY <3>1, <3>2, <3>3, <2>2, TableStored
    <3>5. DOMAIN s.cur = DOMAIN cur /\ DOMAIN s.camera = controls
      BY <3>3 DEF Table
    <3>6. /\ \A x \in controls :
               [s.camera EXCEPT ![c] = bytes][x] =
                 IF x = c THEN bytes ELSE s.camera[x]
          /\ \A x \in DOMAIN cur : x # c =>
               [s.cur EXCEPT ![c] = bytes][x] = s.cur[x]
      BY <3>5
    <3>7. QED
      BY <2>2, <3>2, <3>4, <3>6, Zenon DEF bytes
  <2>3. QED
    BY <2>1, <2>2
<1> HIDE DEF StateOK
<1>5. StateOK(s0) /\ Camera(s0, 0) /\ s0.cur = cur /\ s0.camera = camera
  BY <1>1, <1>3 DEF StateOK, Now
<1>6. 1 \in 1..Len(pairs)
  BY <1>2
<1>7. StateOK(s1) /\ Camera(s1, 1)
  <2>1. StateOK(s1)
    BY <1>3, <1>4, <1>5, <1>6
  <2>2. \A i \in 1..1 : i = 1
    OBVIOUS
  <2>3. \A c \in controls :
          IF c = pairs[1].control /\ c \in DOMAIN cur
          THEN s1.camera[c] = StoreVal(c, cur[c], pairs[1].values)
          ELSE s1.camera[c] = camera[c]
    BY <1>3, <1>4, <1>5, <1>6
  <2>4. QED
    BY <2>1, <2>2, <2>3
<1>8. ASSUME Len(pairs) = 2 PROVE StateOK(s2) /\ Camera(s2, 2)
  <2>1. 2 \in 1..Len(pairs) /\ s2 = Sent(s1, pairs[2])
    BY <1>3, <1>8
  <2>2. StateOK(s2)
    BY <1>4, <1>7, <2>1
  <2>3. \A c \in controls :
          IF c = pairs[2].control /\ c \in DOMAIN cur
          THEN s2.camera[c] = StoreVal(c, s1.cur[c], pairs[2].values)
          ELSE s2.camera[c] = s1.camera[c]
    BY <1>4, <1>7, <2>1
  <2>4. \A c \in DOMAIN cur : c # pairs[1].control => s1.cur[c] = cur[c]
    BY <1>3, <1>4, <1>5, <1>6
  <2>5. \A c \in controls :
          IF c = pairs[2].control /\ c \in DOMAIN cur
          THEN s2.camera[c] = StoreVal(c, cur[c], pairs[2].values)
          ELSE s2.camera[c] = s1.camera[c]
    BY <1>2, <1>8, <2>3, <2>4
  <2>6. Camera(s2, 2)
    <3>1. \A i \in 1..2 : i = 1 \/ i = 2
      OBVIOUS
    <3>2. 1 \in 1..2 /\ 2 \in 1..2 /\ 1 \in 1..1
      OBVIOUS
    <3>3. ASSUME NEW c \in controls, NEW i \in 1..2,
                 pairs[i].control = c, c \in DOMAIN cur
          PROVE  s2.camera[c] = StoreVal(c, cur[c], pairs[i].values)
      <4>1. CASE i = 2
        BY <2>5, <3>3, <4>1
      <4>2. CASE i = 1
        <5>1. c # pairs[2].control
          BY <1>2, <1>8, <3>3, <4>2
        <5>2. s2.camera[c] = s1.camera[c]
          BY <2>5, <5>1
        <5>3. s1.camera[c] = StoreVal(c, cur[c], pairs[1].values)
          BY <1>7, <3>2, <3>3, <4>2
        <5>4. QED
          BY <4>2, <5>2, <5>3
      <4>3. QED
        BY <3>1, <4>1, <4>2
    <3>4. ASSUME NEW c \in controls,
                 \A i \in 1..2 : ~(pairs[i].control = c /\ c \in DOMAIN cur)
          PROVE  s2.camera[c] = camera[c]
      <4>1. s2.camera[c] = s1.camera[c]
        BY <2>5, <3>2, <3>4
      <4>2. \A i \in 1..1 : ~(pairs[i].control = c /\ c \in DOMAIN cur)
        BY <3>4
      <4>3. QED
        BY <1>7, <4>1, <4>2
    <3>5. QED
      BY <3>3, <3>4
  <2>7. QED
    BY <2>2, <2>6
<1>9. d = 0 \/ d = 1 \/ (d = 2 /\ Len(pairs) = 2)
  BY <1>2
<1>10. StateOK(AfterPairs(pairs)[d]) /\ Camera(AfterPairs(pairs)[d], d)
  <2>1. CASE d = 0
    BY <1>5, <2>1 DEF s0
  <2>2. CASE d = 1
    BY <1>7, <2>2 DEF s1
  <2>3. CASE d = 2 /\ Len(pairs) = 2
    BY <1>8, <2>3 DEF s2
  <2>4. QED
    BY <1>9, <2>1, <2>2, <2>3
<1>11. QED
  BY <1>10 DEF StateOK

\* In the initial states, of which no entry has been read, the invariant holds.
THEOREM InitInvariant == Init => ControlsInv
<1> SUFFICES ASSUME Init PROVE ControlsInv
  OBVIOUS
<1>1. controls \subseteq Accessors /\ units \subseteq {"VC", "CT", "PU", "SU"}
  BY DEF Init
<1>2. PICK v \in Values :
        camera = [c \in controls |-> Pack(Uniform(v, Len(c.fields)), Width(c))]
  BY DEF Init
<1>3. \A c \in controls : Shape(c)
  BY <1>1, AllKnown DEF Known
<1>4. Table(camera, controls)
  <2>1. \A c \in controls :
          Pack(Uniform(v, Len(c.fields)), Width(c)) \in BytesOf(c)
    BY <1>3, PackedIs
  <2>2. DOMAIN camera = controls /\ camera = [c \in controls |-> camera[c]]
    BY <1>2
  <2>3. QED
    BY <1>2, <2>1, <2>2 DEF Table
<1>5. CameraHas
  BY <1>1, <1>4 DEF CameraHas
<1>6. cur = << >> /\ shown = << >> /\ last.op = "none" /\ last.answered = {}
  BY DEF Init
<1>7. DOMAIN cur = {} /\ DOMAIN shown = {} /\ cur = [c \in {} |-> cur[c]]
  BY <1>6
<1>8. EntriesFit
  BY <1>7 DEF EntriesFit, Table
<1>9. ShownListed
  BY <1>7 DEF ShownListed
<1>10. ShownFresh /\ Written
  BY <1>6 DEF ShownFresh, Written
<1>11. QED
  BY <1>5, <1>8, <1>9, <1>10 DEF ControlsInv

\* Entries, and what is returned of them, of which those of answered are bytes.
Rereads(entries, returned, bytes, answered) ==
  /\ Table(entries, DOMAIN cur)
  /\ \A c \in answered : entries[c] = bytes[c]
  /\ DOMAIN returned = DOMAIN cur
  /\ \A c \in DOMAIN cur : /\ returned[c] = PrintVal(c, entries[c])
                           /\ Numeric(returned[c])

\* The entries after GET_CUR are that.
LEMMA RefreshedIs ==
  ASSUME CameraHas, EntriesFit, NEW table, Table(table, DOMAIN cur),
         NEW bytes, Table(bytes, controls), NEW answered \in {DOMAIN cur, {}},
         NEW new, new = Refreshed(table, bytes, answered)
  PROVE  Rereads(new, Shown(new), bytes, answered)
<1>1. new = [c \in DOMAIN cur |->
               IF c \in answered THEN bytes[c] ELSE table[c]]
  BY DEF Refreshed, Table
<1>2. DOMAIN cur \subseteq controls /\ answered \subseteq DOMAIN cur
  BY DEF EntriesFit
<1>3. \A c \in DOMAIN cur : bytes[c] \in BytesOf(c) /\ table[c] \in BytesOf(c)
  BY <1>2 DEF Table
<1>4. Table(new, DOMAIN cur)
  BY <1>1, <1>3 DEF Table
<1>5. \A c \in answered : new[c] = bytes[c]
  BY <1>1, <1>2
<1>6. /\ DOMAIN Shown(new) = DOMAIN cur
      /\ \A c \in DOMAIN cur : Shown(new)[c] = PrintVal(c, new[c])
  BY <1>4 DEF Shown, Table
<1>7. \A c \in DOMAIN cur : Numeric(PrintVal(c, new[c]))
  BY <1>2, <1>4, Shapes, WritesBack DEF EntriesFit, Table
<1>8. QED
  BY <1>4, <1>5, <1>6, <1>7 DEF Rereads

\* A "uvc parameters" that returns what it has read keeps the invariant.
LEMMA Reread ==
  ASSUME CameraHas, EntriesFit, UNCHANGED <<controls, units>>,
         Table(camera', controls),
         NEW answered \in {DOMAIN cur, {}}, last'.answered = answered,
         last'.op \in {"get", "set"},
         Rereads(cur', shown', camera', answered)
  PROVE  ControlsInv'
<1>1. DOMAIN cur' = DOMAIN cur /\ answered \subseteq controls
  BY DEF Rereads, Table, EntriesFit
<1>2. CameraHas'
  BY DEF CameraHas, Table
<1>3. EntriesFit'
  BY <1>1 DEF Rereads, EntriesFit, Has
<1>4. ShownListed' /\ ShownFresh' /\ Written'
  BY <1>1 DEF Rereads, ShownListed, ShownFresh, Written
<1>5. QED
  BY <1>2, <1>3, <1>4 DEF ControlsInv

\* Every step keeps the invariant.
THEOREM StepInvariant == ControlsInv /\ [Next]_vars => ControlsInv'
<1> SUFFICES ASSUME ControlsInv, [Next]_vars PROVE ControlsInv'
  OBVIOUS
<1>1. CameraHas /\ EntriesFit /\ ShownListed /\ ShownFresh /\ Written
  BY DEF ControlsInv
<1>2. \A c \in controls : Shape(c)
  BY <1>1, Shapes
\* An operation that keeps the bytes and the entries, and returns nothing.
<1>3. ASSUME UNCHANGED <<controls, units, camera>>,
             last'.answered \subseteq controls,
             last'.op \notin {"get", "set"},
             ~(last'.op = "uvc_set" /\ last'.done = 1),
             shown' = << >>, EntriesFit'
      PROVE  ControlsInv'
  <2>1. CameraHas'
    BY <1>1, <1>3, SMTT(60) DEF CameraHas, Table, BytesOf
  <2>2. DOMAIN shown' = {}
    BY <1>3
  <2>3. ShownListed' /\ ShownFresh' /\ Written'
    BY <1>3, <2>2 DEF ShownListed, ShownFresh, Written
  <2>4. QED
    BY <1>3, <2>1, <2>3 DEF ControlsInv
<1>4. ASSUME UNCHANGED <<controls, units, cur>> PROVE EntriesFit'
  BY <1>1, <1>4 DEF EntriesFit, Table, Has
<1>5. CASE InitControls
  <2>1. PICK answering \in SUBSET {c \in controls : Has(c)} :
          LET listed == {c \in answering :
                           InTable(c) /\ Len(GetCur(c, Total(c))) = Total(c)}
          IN /\ cur' = [c \in listed |-> GetCur(c, Total(c))]
             /\ Did("open", << >>, 0, answering)
             /\ shown' = << >>
             /\ UNCHANGED <<controls, units, camera>>
    BY <1>5 DEF InitControls
  <2> DEFINE listed == {c \in answering :
                          InTable(c) /\ Len(GetCur(c, Total(c))) = Total(c)}
  <2>2. \A c \in listed : c \in controls /\ Has(c)
    BY <2>1
  <2>3. \A c \in listed : Fits(c) /\ GetCur(c, Total(c)) = camera[c]
    BY <1>1, <2>2, ListedWhole
  <2>4. /\ cur' = [c \in listed |-> GetCur(c, Total(c))]
        /\ last'.op = "open" /\ last'.answered = answering
        /\ shown' = << >> /\ UNCHANGED <<controls, units, camera>>
    BY <2>1 DEF Did
  <2> HIDE DEF listed
  <2>5. /\ DOMAIN cur' = listed
        /\ \A c \in listed : cur'[c] = camera[c]
        /\ cur' = [c \in listed |-> cur'[c]]
    BY <2>3, <2>4
  <2>6. \A c \in listed : camera[c] \in BytesOf(c)
    BY <1>1, <2>2 DEF CameraHas, Table
  <2>7. EntriesFit'
    BY <2>2, <2>3, <2>4, <2>5, <2>6 DEF EntriesFit, Table, Has
  <2>8. QED
    BY <1>3, <2>1, <2>4, <2>7
<1>6. CASE GetControls
  <2>1. PICK answered \in Answered :
          /\ cur' = Refreshed(cur, camera, answered)
          /\ shown' = Shown(cur')
          /\ Did("get", << >>, 0, answered)
          /\ UNCHANGED <<controls, units, camera>>
    BY <1>6 DEF GetControls
  <2>2. /\ answered \in {DOMAIN cur, {}}
        /\ last'.op = "get" /\ last'.answered = answered
    BY <2>1 DEF Answered, Did
  <2>3. Table(cur, DOMAIN cur) /\ Table(camera, controls)
    BY <1>1 DEF CameraHas, EntriesFit
  <2>4. Rereads(cur', Shown(cur'), camera, answered)
    BY <1>1, <2>1, <2>2, <2>3, RefreshedIs
  <2>5. Rereads(cur', shown', camera', answered) /\ Table(camera', controls)
    BY <2>1, <2>3, <2>4
  <2>6. last'.op \in {"get", "set"} /\ UNCHANGED <<controls, units>>
    BY <2>1, <2>2
  <2>7. QED
    BY <1>1, <2>2, <2>5, <2>6, Reread
<1>7. ASSUME NEW pairs \in Lists, SetControls(pairs) PROVE ControlsInv'
  <2> DEFINE after == AfterPairs(pairs)[Len(pairs)]
  <2>1. PICK answered \in Answered :
          /\ camera' = after.camera
          /\ cur' = Refreshed(after.cur, after.camera, answered)
          /\ shown' = Shown(cur')
          /\ Did("set", pairs, Len(pairs), answered)
          /\ UNCHANGED <<controls, units>>
    BY <1>7 DEF SetControls
  <2>2. /\ answered \in {DOMAIN cur, {}}
        /\ last'.op = "set" /\ last'.answered = answered
    BY <2>1 DEF Answered, Did
  <2>3. Table(after.cur, DOMAIN cur) /\ Table(after.camera, controls)
    <3>1. ListOf(pairs)
      BY ListsAre
    <3>2. Len(pairs) \in 0..Len(pairs)
      BY <3>1 DEF ListOf
    <3>3. QED
      BY <3>1, <3>2, SentIs
  <2> HIDE DEF after
  <2>4. Rereads(cur', Shown(cur'), after.camera, answered)
    BY <1>1, <2>1, <2>2, <2>3, RefreshedIs
  <2>5. Rereads(cur', shown', camera', answered) /\ Table(camera', controls)
    BY <2>1, <2>3, <2>4
  <2>6. last'.op \in {"get", "set"} /\ UNCHANGED <<controls, units>>
    BY <2>1, <2>2
  <2>7. QED
    BY <1>1, <2>2, <2>5, <2>6, Reread
<1>8. ASSUME NEW pairs \in Lists, NEW k \in DOMAIN pairs,
             SetControls_fails(pairs, k)
      PROVE  ControlsInv'
  <2> DEFINE before == AfterPairs(pairs)[k - 1]
             after  == AfterPairs(pairs)[k]
  <2>1. /\ camera' = before.camera /\ cur' = after.cur /\ shown' = << >>
        /\ last'.op = "set" /\ last'.answered = {}
        /\ UNCHANGED <<controls, units>>
    BY <1>8 DEF SetControls_fails, Did
  <2>2. Table(after.cur, DOMAIN cur) /\ Table(before.camera, controls)
    <3>1. ListOf(pairs)
      BY ListsAre
    <3>2. k \in 0..Len(pairs) /\ k - 1 \in 0..Len(pairs)
      BY <3>1 DEF ListOf
    <3>3. QED
      BY <3>1, <3>2, SentIs
  <2> HIDE DEF before, after
  <2>3. /\ Table(cur', DOMAIN cur) /\ Table(camera', controls)
        /\ DOMAIN shown' = {}
    BY <2>1, <2>2
  <2>4. CameraHas' /\ EntriesFit'
    BY <1>1, <2>1, <2>3 DEF CameraHas, EntriesFit, Table, Has
  <2>5. ShownListed' /\ ShownFresh' /\ Written'
    BY <2>1, <2>3 DEF ShownListed, ShownFresh, Written
  <2>6. QED
    BY <2>4, <2>5 DEF ControlsInv
<1>9. ASSUME NEW c \in controls, uvc_get(c) PROVE ControlsInv'
  <2>1. /\ UNCHANGED <<controls, units, camera, cur>> /\ shown' = << >>
        /\ last'.op = "uvc_get" /\ last'.answered = {c}
    BY <1>9 DEF uvc_get, Did
  <2>2. QED
    BY <1>3, <1>4, <2>1
<1>10. ASSUME NEW c \in controls, NEW v \in Values,
              uvc_set(c, Uniform(v, Len(c.fields)))
       PROVE  ControlsInv'
  <2> DEFINE vs == Uniform(v, Len(c.fields))
  <2>1. /\ UNCHANGED <<controls, units, cur>> /\ shown' = << >>
        /\ last'.op = "uvc_set" /\ last'.answered = {}
    BY <1>10 DEF uvc_set, Did
  <2>2. EntriesFit'
    BY <1>4, <2>1
  <2>3. CASE UNCHANGED camera /\ Did("uvc_set", <<Pair(c, vs)>>, 0, {})
    <3>1. last'.done = 0
      BY <2>3 DEF Did
    <3>2. QED
      BY <1>3, <2>1, <2>2, <2>3, <3>1
  <2>4. CASE /\ camera' = [camera EXCEPT ![c] = Pack(vs, Width(c))]
             /\ Did("uvc_set", <<Pair(c, vs)>>, 1, {})
    <3>1. last'.pairs[1].control = c /\ last'.pairs[1].values = vs
      BY <2>4 DEF Did, Pair
    <3>2. Pack(vs, Width(c)) \in BytesOf(c)
      BY <1>2, PackedIs
    <3>3. Len(c.fields) \in Nat
      BY <1>2, ShapeIs
    <3>4. Len(vs) = Len(c.fields) /\ \A i \in 1..Len(vs) : Fits16(vs[i])
      BY <3>3, UniformIs
    <3> HIDE DEF vs
    <3>5. Table(camera', controls) /\ camera'[c] = Pack(vs, Width(c))
      BY <1>1, <2>4, <3>2, TableStored DEF CameraHas, Table
    <3>6. DOMAIN shown' = {}
      BY <2>1
    <3>7. CameraHas'
      BY <1>1, <2>1, <3>5 DEF CameraHas, Table
    <3>8. ShownListed' /\ ShownFresh'
      BY <2>1, <3>6 DEF ShownListed, ShownFresh
    <3>9. Written'
      BY <2>1, <3>1, <3>4, <3>5 DEF Written
    <3>10. QED
      BY <2>2, <3>7, <3>8, <3>9 DEF ControlsInv
  <2>5. QED
    BY <1>10, <2>3, <2>4 DEF uvc_set
<1>11. ASSUME NEW c \in controls, NEW v \in Values, CameraChanges(c, v)
       PROVE  ControlsInv'
  <2> DEFINE bytes == Pack(Uniform(v, Len(c.fields)), Width(c))
  <2>1. /\ UNCHANGED <<controls, units, cur, shown>>
        /\ camera' = [camera EXCEPT ![c] = bytes]
        /\ last'.op = "camera" /\ last'.answered = {}
    BY <1>11 DEF CameraChanges, Did
  <2>2. bytes \in BytesOf(c)
    BY <1>2, PackedIs
  <2> HIDE DEF bytes
  <2>3. Table(camera', controls)
    BY <1>1, <2>1, <2>2, TableStored DEF CameraHas
  <2>4. CameraHas' /\ EntriesFit'
    BY <1>1, <1>4, <2>1, <2>3 DEF CameraHas, Table
  <2>5. ShownListed' /\ ShownFresh' /\ Written'
    BY <1>1, <2>1 DEF ShownListed, ShownFresh, Written
  <2>6. QED
    BY <2>4, <2>5 DEF ControlsInv
<1>12. CASE UNCHANGED vars
  <2>1. CameraHas' /\ EntriesFit'
    BY <1>1, <1>4, <1>12 DEF vars, CameraHas, Table
  <2>2. ShownListed' /\ ShownFresh' /\ Written'
    BY <1>1, <1>12 DEF vars, ShownListed, ShownFresh, Written
  <2>3. QED
    BY <2>1, <2>2 DEF ControlsInv
<1>13. QED
  BY <1>5, <1>6, <1>7, <1>8, <1>9, <1>10, <1>11, <1>12 DEF Next

-----------------------------------------------------------------------------
(***************************************************************************)
(* The properties.                                                         *)
(***************************************************************************)

\* The invariant holds in every state.
THEOREM ControlsInvariant == Spec => []ControlsInv
BY InitInvariant, StepInvariant, PTL DEF Spec

\* The camera has the bytes of every control, and the extension lists controls
\* of the camera only, each with as many bytes as the control has.
THEOREM TypeCorrect == Spec => []TypeOK
<1>1. ControlsInv => TypeOK
  <2> SUFFICES ASSUME ControlsInv PROVE TypeOK
    OBVIOUS
  <2>1. CameraHas /\ EntriesFit /\ ShownListed /\ ShownFresh
    BY DEF ControlsInv
  <2>2. ASSUME NEW c \in controls, NEW b \in BytesOf(c)
        PROVE  IsBytes(b, Length(c))
    <3>1. Length(c) \in Nat
      BY <2>1, Shapes, ShapeIs
    <3>2. b \in [1..Length(c) -> 0..255]
      BY DEF BytesOf
    <3>3. Len(b) = Length(c)
      BY <3>1, <3>2, WholeIs
    <3>4. QED
      BY <3>2, <3>3 DEF IsBytes
  <2>3. /\ DOMAIN camera = controls
        /\ \A c \in controls : IsBytes(camera[c], Length(c))
    BY <2>1, <2>2 DEF CameraHas, Table
  <2>4. \A c \in DOMAIN cur :
          Has(c) /\ InTable(c) /\ IsBytes(cur[c], Length(c))
    BY <2>1, <2>2 DEF EntriesFit, Table, Fits
  <2>5. QED
    BY <2>1, <2>3, <2>4
       DEF TypeOK, CameraHas, EntriesFit, ShownListed, ShownFresh
<1>2. QED
  BY <1>1, ControlsInvariant, PTL

\* The table of tcluvc.c and the accessors of ctrl-gen.c cut the bytes of every
\* control alike, and a get accessor reads what the set accessor has written.
THEOREM DescriptionsAgree == Spec => []AccessorsAgree
<1>1. ControlsInv => AccessorsAgree
  <2> SUFFICES ASSUME ControlsInv PROVE AccessorsAgree
    OBVIOUS
  <2>1. CameraHas /\ EntriesFit /\ ShownListed /\ ShownFresh /\ Written
    BY DEF ControlsInv
  <2>2. ScriptAndLibraryAgree
    <3> SUFFICES ASSUME last.op \in {"get", "set"},
                        NEW c \in last.answered \cap DOMAIN shown
                 PROVE  LET read == Numbers(c, camera[c])
                        IN /\ Len(shown[c]) = Len(read)
                           /\ \A i \in DOMAIN read :
                                IF Width(c) = 4 THEN shown[c][i] = read[i]
                                ELSE (shown[c][i] - read[i])
                                       % Places[Width(c) + 1] = 0
      BY DEF ScriptAndLibraryAgree
    <3>1. camera[c] = cur[c] /\ shown[c] = PrintVal(c, cur[c])
      BY <2>1 DEF ShownFresh
    <3>2. c \in DOMAIN cur /\ c \in controls
      BY <2>1 DEF ShownListed, EntriesFit
    <3>3. Shape(c) /\ Fits(c) /\ cur[c] \in BytesOf(c)
      BY <2>1, <3>2, Shapes DEF EntriesFit, Table
    <3> DEFINE b == cur[c]
    <3> HIDE DEF b
    <3>4. b \in BytesOf(c)
      BY <3>3 DEF b
    <3>5. LET read  == Numbers(c, b)
              there == PrintVal(c, b)
          IN /\ Len(there) = Len(read)
             /\ \A i \in DOMAIN read :
                  IF Width(c) = 4 THEN there[i] = read[i]
                  ELSE (there[i] - read[i]) % Places[Width(c) + 1] = 0
      BY <3>3, <3>4, ViewsAgree
    <3>6. QED
      BY <3>1, <3>5 DEF b
  <2>3. LibraryReadsBack
    <3> SUFFICES ASSUME last.op = "uvc_set", last.done = 1
                 PROVE  LET c == last.pairs[1].control
                        IN Numbers(c, camera[c]) =
                             [i \in DOMAIN c.fields |->
                                Converted(last.pairs[1].values[i],
                                          c.fields[i])]
      BY DEF LibraryReadsBack
    <3> DEFINE c  == last.pairs[1].control
               vs == last.pairs[1].values
    <3>1. /\ c \in controls /\ camera[c] = Pack(vs, Width(c))
          /\ Len(vs) = Len(c.fields) /\ \A i \in 1..Len(vs) : Fits16(vs[i])
      BY <2>1 DEF Written
    <3>2. Shape(c)
      BY <2>1, <3>1, Shapes
    <3> HIDE DEF c, vs
    <3>3. Numbers(c, Pack(vs, Width(c))) =
            [i \in DOMAIN c.fields |-> Converted(vs[i], c.fields[i])]
      BY <3>1, <3>2, ReadsBack
    <3>4. QED
      BY <3>1, <3>3 DEF c, vs
  <2>4. QED
    BY <2>2, <2>3 DEF AccessorsAgree
<1>2. QED
  BY <1>1, ControlsInvariant, PTL

\* A step that is a "uvc parameters" has sent a part of a list, from its start.
LEMMA SetStep ==
  ASSUME ControlsInv, Next, last'.op = "set"
  PROVE  /\ ListOf(last'.pairs) /\ last'.done \in 0..Len(last'.pairs)
         /\ camera' = AfterPairs(last'.pairs)[last'.done].camera
<1>1. ASSUME NEW pairs \in Lists, SetControls(pairs)
      PROVE  /\ last'.pairs = pairs /\ last'.done = Len(pairs)
             /\ camera' = AfterPairs(pairs)[Len(pairs)].camera
  BY <1>1 DEF SetControls, Did
<1>2. ASSUME NEW pairs \in Lists, NEW k \in DOMAIN pairs,
             SetControls_fails(pairs, k)
      PROVE  /\ last'.pairs = pairs /\ last'.done = k - 1
             /\ camera' = AfterPairs(pairs)[k - 1].camera
  BY <1>2 DEF SetControls_fails, Did
<1>3. \/ \E pairs \in Lists : SetControls(pairs)
      \/ \E pairs \in Lists :
           \E k \in DOMAIN pairs : SetControls_fails(pairs, k)
  <2>1. InitControls => last'.op = "open"
    BY DEF InitControls, Did
  <2>2. GetControls => last'.op = "get"
    BY DEF GetControls, Did
  <2>3. \A c : uvc_get(c) => last'.op = "uvc_get"
    BY DEF uvc_get, Did
  <2>4. \A c, vs : uvc_set(c, vs) => last'.op = "uvc_set"
    BY DEF uvc_set, Did
  <2>5. \A c, v : CameraChanges(c, v) => last'.op = "camera"
    BY DEF CameraChanges, Did
  <2>6. QED
    BY <2>1, <2>2, <2>3, <2>4, <2>5 DEF Next
<1>4. ASSUME NEW pairs \in Lists
      PROVE  /\ ListOf(pairs) /\ Len(pairs) \in 0..Len(pairs)
             /\ \A k \in DOMAIN pairs : k - 1 \in 0..Len(pairs)
  <2>1. ListOf(pairs)
    BY ListsAre
  <2>2. QED
    BY <2>1 DEF ListOf
<1>5. QED
  BY <1>1, <1>2, <1>3, <1>4

\* Of several settings the camera has those that were sent before one was
\* refused, with the numbers that were given; no other control changes.
THEOREM CameraHasWhatWasSent == Spec => SetsWhatIsNamed
<1> DEFINE A == last'.op = "set" =>
       LET sent == {last'.pairs[i] : i \in 1..last'.done}
       IN \A c \in controls :
            IF \E pair \in sent : pair.control = c /\ c \in DOMAIN cur
            THEN \A pair \in sent : pair.control = c => IsSet(pair)
            ELSE camera'[c] = camera[c]
<1>1. ControlsInv /\ [Next]_vars => [A]_vars
  <2> SUFFICES ASSUME ControlsInv, Next, last'.op = "set"
               PROVE  LET sent == {last'.pairs[i] : i \in 1..last'.done}
                      IN \A c \in controls :
                           IF \E pair \in sent :
                                pair.control = c /\ c \in DOMAIN cur
                           THEN \A pair \in sent :
                                  pair.control = c => IsSet(pair)
                           ELSE camera'[c] = camera[c]
    OBVIOUS
  <2> DEFINE pairs == last'.pairs
             d     == last'.done
             state == AfterPairs(pairs)[d]
  <2>1. ListOf(pairs) /\ d \in 0..Len(pairs) /\ camera' = state.camera
    BY SetStep
  <2> HIDE DEF pairs, d
  <2>2. \A c \in controls :
          /\ \A i \in 1..d :
               pairs[i].control = c /\ c \in DOMAIN cur =>
                 state.camera[c] = StoreVal(c, cur[c], pairs[i].values)
          /\ (\A i \in 1..d : ~(pairs[i].control = c /\ c \in DOMAIN cur))
               => state.camera[c] = camera[c]
    BY <2>1, SentIs
  <2> HIDE DEF state
  <2>3. CameraHas /\ EntriesFit
    BY DEF ControlsInv
  <2>4. ASSUME NEW i \in 1..d, pairs[i].control \in DOMAIN cur
        PROVE  IsSet(pairs[i])
    <3> DEFINE c  == pairs[i].control
               vs == pairs[i].values
    <3>1. i \in 1..Len(pairs)
      BY <2>1 DEF ListOf
    <3>2. c \in controls /\ Numeric(vs)
      BY <2>1, <3>1 DEF ListOf
    <3>3. /\ Shape(c) /\ Fits(c) /\ cur[c] \in BytesOf(c)
          /\ DOMAIN c.fields = 1..Len(c.fields)
      BY <2>3, <2>4, <3>2, Shapes, ShapeIs DEF EntriesFit, Table
    <3>4. camera'[c] = StoreVal(c, cur[c], vs)
      BY <2>1, <2>2, <2>4, <3>2
    <3> HIDE DEF c, vs
    <3>5. ASSUME NEW j \in DOMAIN c.fields
          PROVE  IF j <= Len(vs)
                 THEN Number(c, camera'[c], j) = Pack(<<vs[j]>>, Width(c))
                 ELSE cur[c] = camera[c] =>
                        Number(c, camera'[c], j) = Number(c, camera[c], j)
      <4>1. IF j <= Len(vs)
            THEN Number(c, camera'[c], j) = Pack(<<vs[j]>>, Width(c))
            ELSE Number(c, camera'[c], j) = Number(c, cur[c], j)
        BY <3>2, <3>3, <3>4, SendsGiven
      <4>2. QED
        BY <4>1
    <3>6. QED
      BY <3>5 DEF IsSet, c, vs
  <2>5. ASSUME NEW c \in controls
        PROVE  LET sent == {pairs[i] : i \in 1..d}
               IN IF \E pair \in sent : pair.control = c /\ c \in DOMAIN cur
                  THEN \A pair \in sent : pair.control = c => IsSet(pair)
                  ELSE camera'[c] = camera[c]
    <3>1. CASE c \in DOMAIN cur /\ \E i \in 1..d : pairs[i].control = c
      BY <2>4, <3>1
    <3>2. CASE ~(c \in DOMAIN cur /\ \E i \in 1..d : pairs[i].control = c)
      <4>1. camera'[c] = camera[c]
        BY <2>1, <2>2, <3>2
      <4>2. QED
        BY <3>2, <4>1
    <3>3. QED
      BY <3>1, <3>2
  <2>6. QED
    BY <2>5 DEF pairs, d
<1>2. QED
  BY <1>1, ControlsInvariant, PTL DEF Spec, SetsWhatIsNamed

\* Writing back what "uvc parameters" has returned leaves the camera as it was.
THEOREM WriteBackIsSafe == Spec => WriteBackKeeps
<1> DEFINE A == \A c \in DOMAIN shown :
       /\ last'.op = "set" /\ last'.pairs = <<Pair(c, shown[c])>>
       /\ last.op \in {"get", "set"} /\ c \in last.answered
       => camera' = camera
<1>1. ControlsInv /\ [Next]_vars => [A]_vars
  <2> SUFFICES ASSUME ControlsInv, Next, NEW c \in DOMAIN shown,
                      last'.op = "set", last'.pairs = <<Pair(c, shown[c])>>,
                      last.op \in {"get", "set"}, c \in last.answered
               PROVE  camera' = camera
    OBVIOUS
  <2> DEFINE pairs == last'.pairs
             d     == last'.done
             state == AfterPairs(pairs)[d]
  <2>1. ListOf(pairs) /\ d \in 0..Len(pairs) /\ camera' = state.camera
    BY SetStep
  <2>2. Len(pairs) = 1 /\ pairs[1].control = c /\ pairs[1].values = shown[c]
    BY DEF Pair
  <2> HIDE DEF pairs, d
  <2>3. /\ Table(state.camera, controls)
        /\ \A x \in controls :
             /\ \A i \in 1..d :
                  pairs[i].control = x /\ x \in DOMAIN cur =>
                    state.camera[x] = StoreVal(x, cur[x], pairs[i].values)
             /\ (\A i \in 1..d : ~(pairs[i].control = x /\ x \in DOMAIN cur))
                  => state.camera[x] = camera[x]
    BY <2>1, SentIs
  <2> HIDE DEF state
  <2>4. CameraHas /\ EntriesFit /\ ShownListed /\ ShownFresh
    BY DEF ControlsInv
  <2>5. cur[c] = camera[c] /\ shown[c] = PrintVal(c, cur[c])
    BY <2>4 DEF ShownFresh
  <2>6. c \in DOMAIN cur /\ c \in controls
    BY <2>4 DEF ShownListed, EntriesFit
  <2>7. Shape(c) /\ Fits(c) /\ cur[c] \in BytesOf(c)
    BY <2>4, <2>6, Shapes DEF EntriesFit, Table
  <2>8. StoreVal(c, cur[c], shown[c]) = camera[c]
    BY <2>5, <2>7, WritesBack
  <2>9. \A i \in 1..d : i = 1
    BY <2>1, <2>2
  <2>10. \A x \in controls : state.camera[x] = camera[x]
    BY <2>2, <2>3, <2>6, <2>8, <2>9
  <2>11. Table(camera, controls)
    BY <2>4 DEF CameraHas
  <2>12. QED
    BY <2>1, <2>3, <2>10, <2>11, TablesEqual
<1>2. QED
  BY <1>1, ControlsInvariant, PTL DEF Spec, WriteBackKeeps

=============================================================================
