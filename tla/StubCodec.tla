----------------------------- MODULE StubCodec ------------------------------
(***************************************************************************)
(* The message library of the stub network (stub.c, stub.h): the tables of *)
(* its pack and unpack functions, and its encode, decode and is_in_range   *)
(* functions.  BitCodec says what a table means.                           *)
(*                                                                         *)
(* A signal is counted in hundredths of its unit, so that every scale and  *)
(* offset of the library is an integer.                                    *)
(***************************************************************************)
EXTENDS Integers, FiniteSetsExt

-----------------------------------------------------------------------------
(* Structs.  sign is the bit whose value unpacking copies to the bits      *)
(* above it; the width stands for a member that has none.                  *)
Plain(w) == [width |-> w, sign |-> w, scale |-> 100, offset |-> 0]
Signed(w) == [Plain(w) EXCEPT !.sign = w - 1]

stub_example_message_t ==
    [enable |-> Plain(8), average_radius |-> [Plain(8) EXCEPT !.scale = 10],
     temperature |-> [width |-> 16, sign |-> 11, scale |-> 1,
                      offset |-> 25000]]
stub_example_message2_t == [radius |-> [Plain(8) EXCEPT !.scale = 10]]
stub_function_example_t ==
    [crc |-> Plain(8), alive |-> Plain(8), foo |-> Plain(8), bar |-> Plain(8)]
stub_unsigned_types_t ==
    [u_int8_signal |-> Plain(8), u_int16_signal |-> Plain(16),
     u_int32_signal |-> Plain(32), u_int64_signal |-> Plain(64)]
stub_signed_types_t ==
    [int8_signal |-> Signed(8), int16_signal |-> Signed(16),
     int32_signal |-> Signed(32), int64_signal |-> Signed(64)]
stub_float_types_t ==
    [double_signal |-> Plain(64), float_signal |-> Plain(32)]
stub_scheduled_message_t == [schedule_signal |-> Plain(8)]
stub_mux_message_t ==
    [header_id |-> Plain(32), header_dlc |-> Plain(8),
     foo_double |-> Plain(64), bar_float |-> Plain(32)]

Struct(m) == CASE m = "example_message" -> stub_example_message_t
               [] m = "example_message2" -> stub_example_message2_t
               [] m = "function_example" -> stub_function_example_t
               [] m = "unsigned_types" -> stub_unsigned_types_t
               [] m = "signed_types" -> stub_signed_types_t
               [] m = "float_types" -> stub_float_types_t
               [] m = "scheduled_message" -> stub_scheduled_message_t
               [] m = "mux_message" -> stub_mux_message_t

Messages == {"example_message", "example_message2", "function_example",
             "unsigned_types", "signed_types", "float_types",
             "scheduled_message", "mux_message"}

Member == [f \in UNION {DOMAIN Struct(m) : m \in Messages} |->
               Struct(CHOOSE m \in Messages : f \in DOMAIN Struct(m))[f]]

-----------------------------------------------------------------------------
(* Rows.  Packing with pack_left_shift moves a bit up, pack_right_shift    *)
(* down; unpacking moves it back.                                          *)
Row(f, b, left, bits) ==
    [member |-> f, byte |-> b, left |-> left, bits |-> bits]
PackL(f, b, shift, bits) == Row(f, b, shift, bits)
PackR(f, b, shift, bits) == Row(f, b, 0 - shift, bits)
UnpackL(f, b, shift, bits) == Row(f, b, 0 - shift, bits)
UnpackR(f, b, shift, bits) == Row(f, b, shift, bits)

(* Big-endian members of w bits that start at bit 0 of byte b: the highest *)
(* bit alone, w \div 8 - 1 whole bytes and the last seven bits.            *)
PackSpread(f, b, w) ==
    {PackR(f, b, w - 1, 0 .. 0), PackL(f, b + w \div 8, 1, 1 .. 7)}
    \cup {PackR(f, b + k, w - 1 - 8 * k, 0 .. 7) : k \in 1 .. w \div 8 - 1}
UnpackSpread(f, b, w) ==
    {UnpackL(f, b, w - 1, 0 .. 0), UnpackR(f, b + w \div 8, 1, 1 .. 7)}
    \cup {UnpackL(f, b + k, w - 1 - 8 * k, 0 .. 7) : k \in 1 .. w \div 8 - 1}

(* Little-endian members of n bytes. *)
PackBytes(f, b, n) == {PackR(f, b + k, 8 * k, 0 .. 7) : k \in 0 .. n - 1}
UnpackBytes(f, b, n) == {UnpackL(f, b + k, 8 * k, 0 .. 7) : k \in 0 .. n - 1}

example_message_pack ==
    {PackL("enable", 0, 7, 7 .. 7), PackL("average_radius", 0, 1, 1 .. 6),
     PackR("temperature", 0, 11, 0 .. 0), PackR("temperature", 1, 3, 0 .. 7),
     PackL("temperature", 2, 5, 5 .. 7)}
example_message_unpack ==
    {UnpackR("enable", 0, 7, 7 .. 7), UnpackR("average_radius", 0, 1, 1 .. 6),
     UnpackL("temperature", 0, 11, 0 .. 0), UnpackL("temperature", 1, 3, 0 .. 7),
     UnpackR("temperature", 2, 5, 5 .. 7)}

example_message2_pack == {PackL("radius", 0, 1, 1 .. 6)}
example_message2_unpack == {UnpackR("radius", 0, 1, 1 .. 6)}

function_example_pack ==
    PackBytes("crc", 0, 1) \cup PackBytes("alive", 1, 1)
    \cup PackBytes("foo", 2, 1) \cup PackBytes("bar", 3, 1)
function_example_unpack ==
    UnpackBytes("crc", 0, 1) \cup UnpackBytes("alive", 1, 1)
    \cup UnpackBytes("foo", 2, 1) \cup UnpackBytes("bar", 3, 1)

unsigned_types_pack ==
    PackSpread("u_int8_signal", 0, 8) \cup PackSpread("u_int16_signal", 1, 16)
    \cup PackSpread("u_int32_signal", 3, 32)
    \cup PackSpread("u_int64_signal", 7, 64)
unsigned_types_unpack ==
    UnpackSpread("u_int8_signal", 0, 8)
    \cup UnpackSpread("u_int16_signal", 1, 16)
    \cup UnpackSpread("u_int32_signal", 3, 32)
    \cup UnpackSpread("u_int64_signal", 7, 64)

signed_types_pack ==
    PackSpread("int8_signal", 0, 8) \cup PackSpread("int16_signal", 1, 16)
    \cup PackSpread("int32_signal", 3, 32)
    \cup PackSpread("int64_signal", 7, 64)
signed_types_unpack ==
    UnpackSpread("int8_signal", 0, 8) \cup UnpackSpread("int16_signal", 1, 16)
    \cup UnpackSpread("int32_signal", 3, 32)
    \cup UnpackSpread("int64_signal", 7, 64)

float_types_pack ==
    PackBytes("double_signal", 0, 8) \cup PackBytes("float_signal", 8, 4)
float_types_unpack ==
    UnpackBytes("double_signal", 0, 8) \cup UnpackBytes("float_signal", 8, 4)

scheduled_message_pack == {PackL("schedule_signal", 0, 0, 0 .. 0)}
scheduled_message_unpack == {UnpackR("schedule_signal", 0, 0, 0 .. 0)}

mux_message_pack(c) ==
    PackBytes("header_id", 0, 3) \cup PackBytes("header_dlc", 3, 1)
    \cup (CASE c = "601" -> PackBytes("foo_double", 4, 8)
            [] c = "602" -> PackBytes("bar_float", 4, 4)
            [] OTHER -> {})
mux_message_unpack(c) ==
    UnpackBytes("header_id", 0, 3) \cup UnpackBytes("header_dlc", 3, 1)
    \cup (CASE c = "601" -> UnpackBytes("foo_double", 4, 8)
            [] c = "602" -> UnpackBytes("bar_float", 4, 4)
            [] OTHER -> {})

StubPackRows == [m \in Messages, c \in {"601", "602", "default"} |->
    CASE m = "example_message" -> example_message_pack
      [] m = "example_message2" -> example_message2_pack
      [] m = "function_example" -> function_example_pack
      [] m = "unsigned_types" -> unsigned_types_pack
      [] m = "signed_types" -> signed_types_pack
      [] m = "float_types" -> float_types_pack
      [] m = "scheduled_message" -> scheduled_message_pack
      [] m = "mux_message" -> mux_message_pack(c)]
StubUnpackRows == [m \in Messages, c \in {"601", "602", "default"} |->
    CASE m = "example_message" -> example_message_unpack
      [] m = "example_message2" -> example_message2_unpack
      [] m = "function_example" -> function_example_unpack
      [] m = "unsigned_types" -> unsigned_types_unpack
      [] m = "signed_types" -> signed_types_unpack
      [] m = "float_types" -> float_types_unpack
      [] m = "scheduled_message" -> scheduled_message_unpack
      [] m = "mux_message" -> mux_message_unpack(c)]

(* The size checks. *)
StubLength(m) == CASE m \in {"unsigned_types", "signed_types", "float_types"} -> 16
                   [] m = "mux_message" -> 12
                   [] OTHER -> 8

(* The switch of mux_message: frame ids of the contained messages. *)
MuxCases == {"601", "602", "default"}

-----------------------------------------------------------------------------
(* Encode, decode and is_in_range.  A member of type float or double takes *)
(* a signal as it is; its values stand for bit patterns (FloatPattern).    *)
Floats == {"double_signal", "float_signal", "foo_double", "bar_float"}

FloatPattern(f) ==
    [k \in {0, 100, 200, 300} |->
        {i \in 0 .. Member[f].width - 1 :
            CASE k = 0 -> FALSE
              [] k = 100 -> i % 2 = 0
              [] k = 200 -> i % 3 = 1
              [] k = 300 -> i \in {0, Member[f].width - 1}}]

(* The casts truncate towards zero. *)
Truncated(x, y) == IF x < 0 THEN 0 - ((0 - x) \div y) ELSE x \div y
TowardsZero(n) == IF n < 0 THEN n + 1 ELSE IF n > 0 THEN n - 1 ELSE n

(* Dividing by 0.1 or 0.01 may fall just short of an exact multiple, and   *)
(* the cast then loses a whole unit: 0.3 / 0.1 is 2 and 0.4 / 0.1 is 4.    *)
StubEncode(f, v) ==
    IF f \in Floats THEN {v}
    ELSE LET x == v - Member[f].offset
             n == Truncated(x, Member[f].scale)
         IN  IF Member[f].scale # 100 /\ x % Member[f].scale = 0
             THEN {n, TowardsZero(n)} ELSE {n}

(* Marshalling keeps the result in a variable of the type of the member,   *)
(* but that of an int64_t member in an int16_t.                            *)
StubLocal(f, r) == IF f \notin Floats /\ Member[f].sign = 63
                   THEN ((r + 2 ^ 15) % 2 ^ 16) - 2 ^ 15 ELSE r

example_message_range == [enable |-> 0 .. 1, average_radius |-> 0 .. 50,
                          temperature |-> -2048 .. 2047]
example_message2_range == [radius |-> 0 .. 50]
function_example_range == [crc |-> 0 .. 255, alive |-> 0 .. 255,
                           foo |-> 0 .. 255, bar |-> 0 .. 255]
unsigned_types_range == [u_int8_signal |-> 0 .. 250, u_int16_signal |-> 0 .. 1000,
                         u_int32_signal |-> 0 .. 40000,
                         u_int64_signal |-> 0 .. 800000]
signed_types_range == [int8_signal |-> -128 .. 127,
                       int16_signal |-> -2501 .. 2500,
                       int32_signal |-> -210001 .. 210000,
                       int64_signal |-> -900001 .. 900000]
scheduled_message_range == [schedule_signal |-> 0 .. 1]
mux_message_range == [header_id |-> 0 .. 16777215, header_dlc |-> 0 .. 255]

RangeOf(f) ==
    CASE f \in DOMAIN stub_example_message_t -> example_message_range[f]
      [] f \in DOMAIN stub_example_message2_t -> example_message2_range[f]
      [] f \in DOMAIN stub_function_example_t -> function_example_range[f]
      [] f \in DOMAIN stub_unsigned_types_t -> unsigned_types_range[f]
      [] f \in DOMAIN stub_signed_types_t -> signed_types_range[f]
      [] f \in DOMAIN stub_scheduled_message_t -> scheduled_message_range[f]
      [] f \in DOMAIN stub_mux_message_t -> mux_message_range[f]

StubInRange(f, r) == f \in Floats \/ r \in RangeOf(f)

(* Two's complement.  All raw values are below 2^24 in magnitude, so that  *)
(* the bits from 24 on are those of the sign.                              *)
TopBit == 24
StubBits(f, r) ==
    IF f \in Floats THEN FloatPattern(f)[r]
    ELSE {i \in 0 .. Member[f].width - 1 :
             IF i < TopBit THEN (r \div 2 ^ i) % 2 = 1 ELSE r < 0}

RawOf(f, b) ==
    LET w == Member[f].width
        negative == Member[f].sign < w /\ w - 1 \in b
        top == IF w < TopBit THEN w ELSE TopBit
    IN  MapThenSumSet(LAMBDA i : 2 ^ i, {i \in b : i < top})
            - (IF negative THEN 2 ^ top ELSE 0)

StubDecode(f, b) ==
    IF f \in Floats
    THEN LET match == {k \in DOMAIN FloatPattern(f) : FloatPattern(f)[k] = b}
         IN  IF match = {} THEN -1 ELSE CHOOSE k \in match : TRUE
    ELSE RawOf(f, b) * Member[f].scale + Member[f].offset
=============================================================================
