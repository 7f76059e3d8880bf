-------------------------------- MODULE Printf --------------------------------
(***************************************************************************)
(* The printf engine of linux debug: directives, the fields they print,    *)
(* and the two kinds of stream they go to - a buffer of the caller, whose  *)
(* end cuts the text off, and a function behind a cache that is handed on  *)
(* when it is full and at the end of a line, and otherwise waits for the   *)
(* next call.                                                              *)
(*                                                                         *)
(* A character is a string of length one.  Upper and lower case are not    *)
(* distinguished, and a double is a number of hundredths below 1: for      *)
(* those the product with 10 is the same in binary as in decimal.          *)
(***************************************************************************)
EXTENDS Integers, Sequences, SequencesExt, FiniteSetsExt

CONSTANTS
    Programs,   \* what is printed: sequences of calls [to, size, items], to
                \* "memory" or "function"; size is the buffer's, an item is a
                \* directive
    CacheSize,  \* DEBUG_CONFIG_STDOUT_MEM_CACHE_SIZE
    StackCache  \* FORMAT_STACK_CACHE_SIZE, 16: the digits that need no memory

\* Directives and calls, as far as the model goes: a width or precision that is
\* not given is -1.
Flag == {"left", "plus", "space", "special", "zero", "signed"}
Conversions ==
    [conv : {"literal"}, ch : STRING] \cup [conv : {"unknown"}]
    \cup [conv : {"c"}, ch : STRING, width : Int, flags : SUBSET Flag]
    \cup [conv : {"s"}, str : Seq(STRING), width : Int, precision : Int, flags : SUBSET Flag]
    \cup {d \in [conv : {"d"}, num : Int, width : Int, precision : Int, flags : SUBSET Flag,
                  base : {2, 8, 10, 16}] : d.num < 0 => "signed" \in d.flags}
    \cup [conv : {"f"}, hundredths : 0..99, width : Int, precision : {0, 1}, flags : SUBSET Flag]
    \cup [conv : {"q"}, bytes : Seq(0..255), size : Nat \ {0}, width : Int, flags : SUBSET Flag]
Calls ==
    [to : {"memory"}, size : Nat \ {0}, items : Seq(Conversions)]
    \cup [to : {"function"}, size : {0}, items : Seq(Conversions)]

\* Assumed where the constants get their values (Debug).  The digits of a double
\* below 1 always find room.
PrintfAssumption ==
    /\ CacheSize \in Nat \ {0} /\ StackCache \in Nat \ {0, 1}
    /\ Programs \subseteq Seq(Calls)

Idle == [to |-> "nowhere", size |-> 0, items |-> <<>>]

VARIABLES
    call,       \* the call that runs, or Idle
    items,      \* the directives it has still to print
    n,          \* what it will return
    mem,        \* the bytes of the caller's buffer up to m.pos
    cache,      \* the bytes of f.cache up to f.pos
    written,    \* what write was given, by any call
    printed,    \* history: every character of this call
    before,     \* history: every character printed to the function earlier
    todo        \* the calls that are still to be made

printfvars == <<call, items, n, mem, cache, written, printed, before, todo>>

PrintfInit ==
    /\ call = Idle /\ items = <<>> /\ n = 0
    /\ mem = <<>> /\ cache = <<>> /\ written = <<>>
    /\ printed = <<>> /\ before = <<>>
    /\ todo \in Programs

Digit == <<"0", "1", "2", "3", "4", "5", "6", "7", "8", "9",
           "a", "b", "c", "d", "e", "f">>
Nul == ""

Times(ch, k) == [i \in 1..k |-> ch]
AtLeast0(k) == Max({0, k})

-----------------------------------------------------------------------------
(* Fields *)

\* num_rsh, until num_bit_count digits are there
DigitsOf(num, base) ==
    LET digits[k \in 0..num] ==
          (IF k < base THEN <<>> ELSE digits[k \div base]) \o <<Digit[(k % base) + 1]>>
    IN  digits[num]

\* The text of a field of d, counted as len characters, and the spaces
Padded(d, text, len) ==
    LET pad == Times(" ", AtLeast0(d.width - len))
    IN  IF "left" \in d.flags THEN text \o pad ELSE pad \o text

\* vprintf_char
CharField(d) == Padded(d, <<d.ch>>, 1)

\* vprintf_string
StringField(d) ==
    LET len == IF d.precision < 0 THEN Len(d.str) ELSE Min({d.precision, Len(d.str)})
    IN  Padded(d, SubSeq(d.str, 1, len), len)

\* The sign of what is not negative
PositiveSign(d) ==
    IF "plus" \in d.flags THEN <<"+">> ELSE IF "space" \in d.flags THEN <<" ">> ELSE <<>>

Sign(d) == IF "signed" \in d.flags /\ d.num < 0 THEN <<"-">> ELSE PositiveSign(d)

Special(d) ==
    IF "special" \notin d.flags THEN <<>>
    ELSE CASE d.base = 8 -> <<"0">>
           [] d.base = 10 -> <<>>
           [] d.base = 16 -> <<"0", "x">>
           [] d.base = 2 -> <<"0", "b">>

\* (mutant) the sign is forgotten where the padding is computed
LaidOutUnsigned(d, head, digits) ==
    IF "zero" \in d.flags /\ d.precision < 0
    THEN head \o Times("0", AtLeast0(d.width - Len(Special(d)) - Len(digits))) \o digits
    ELSE LET zeros == AtLeast0(d.precision - Len(digits))
         IN  Padded(d, head \o Times("0", zeros) \o digits,
                    Len(Special(d)) + zeros + Len(digits))

\* Sign and prefix, digits, and what the precision and the width ask for
LaidOut(d, head, digits) ==
    IF "zero" \in d.flags /\ d.precision < 0
    THEN head \o Times("0", AtLeast0(d.width - Len(head) - Len(digits))) \o digits
    ELSE LET zeros == AtLeast0(d.precision - Len(digits))
         IN  Padded(d, head \o Times("0", zeros) \o digits,
                    Len(head) + zeros + Len(digits))

NumberDigits(d) == DigitsOf(IF d.num < 0 THEN -d.num ELSE d.num, d.base)

\* vprintf_number, when it has room for the digits
NumberField(d) == LaidOut(d, Sign(d) \o Special(d), NumberDigits(d))

\* The digits f behind the dot, below limit, and what rounding the rest of a unit makes
\* of them
RoundedUp(integral, f, limit, rest, unit) ==
    CASE 2 * rest > unit -> IF f + 1 >= limit THEN <<integral + 1, 0>> ELSE <<integral, f + 1>>
      [] 2 * rest = unit /\ (f = 0 \/ f % 2 = 1) -> <<integral, f + 1>>
      [] OTHER -> <<integral, f>>

\* float_decentralized, of num hundredths with a precision of 0 or 1: the whole
\* and the fractional part that are printed.
Decentralized(num, precision) ==
    LET integral == num \div 100
        part == num % 100
        up == IF precision = 0 THEN RoundedUp(integral, 0, 1, part, 100)
              ELSE RoundedUp(integral, part \div 10, 10, part % 10, 10)
    IN  IF precision = 0 /\ num - 100 * up[1] >= 50 /\ up[1] % 2 = 1
        THEN <<up[1] + 1, up[2]>> ELSE up

\* <<whole part, fraction>> of a double, with as many digits as the precision asks
\* for
DoubleText(d, parts) ==
    LET dot == IF d.precision > 0 \/ "special" \in d.flags THEN <<".">> ELSE <<>>
        fraction == IF d.precision > 0 THEN DigitsOf(parts[2], 10) ELSE <<>>
    IN  DigitsOf(parts[1], 10) \o dot
        \o Times("0", AtLeast0(d.precision - Len(fraction))) \o fraction

\* `-` loses against `0` here.
LaidOutDouble(d, sign, text) ==
    IF "zero" \in d.flags
    THEN sign \o Times("0", AtLeast0(d.width - (Len(sign) + Len(text)))) \o text
    ELSE Padded(d, sign \o text, Len(sign) + Len(text))

\* vprintf_float_decimalism_or_normalized, for %f with a precision
FloatField(d) ==
    LaidOutDouble(d, PositiveSign(d), DoubleText(d, Decentralized(d.hundredths, d.precision)))

\* The bytes of an item in hex, the highest first: the last one, since memory is
\* little endian
HexOf(bytes) ==
    FlattenSeq([j \in 1..Len(bytes) |->
        LET b == bytes[Len(bytes) + 1 - j] IN <<Digit[(b \div 16) + 1], Digit[(b % 16) + 1]>>])

\* d.bytes in items of d.size bytes, "?" for the bytes an incomplete last item
\* lacks; the padding leaves one item out then.
ArrayText(d, whole, over) ==
    FlattenSeq([i \in 1..whole |->
        (IF i > 1 THEN <<" ">> ELSE <<>>) \o HexOf(SubSeq(d.bytes, (i - 1) * d.size + 1, i * d.size))])
    \o IF over = 0 THEN <<>>
       ELSE <<" ">> \o Times("?", 2 * (d.size - over))
            \o HexOf(SubSeq(d.bytes, whole * d.size + 1, whole * d.size + over))

\* vprintf_array
ArrayField(d) ==
    LET whole == Len(d.bytes) \div d.size
        over == Len(d.bytes) % d.size
        reckoned == whole - (IF over > 0 THEN 1 ELSE 0)
    IN  Padded(d, ArrayText(d, whole, over), reckoned * 2 * d.size + reckoned - 1)

Field(d) ==
    CASE d.conv = "literal" -> <<d.ch>>
      [] d.conv = "c" -> CharField(d)
      [] d.conv = "s" -> StringField(d)
      [] d.conv = "d" -> NumberField(d)
      [] d.conv = "f" -> FloatField(d)
      [] d.conv = "q" -> ArrayField(d)
      [] d.conv = "unknown" -> <<"%">>   \* and what follows it as literals

\* More digits than the stack has room for are put together in memory that may
\* not be there.
NeedsMemory(d) == d.conv = "d" /\ Len(NumberDigits(d)) > StackCache

\* What a directive may print: its field, or nothing for want of memory
Outcomes(d) == {Field(d)} \cup (IF NeedsMemory(d) THEN {<<>>} ELSE {})

\* What a text adds to n: the `%` of an unknown directive is not counted.
Counted(d, text) == IF d.conv = "unknown" THEN 0 ELSE Len(text)

-----------------------------------------------------------------------------
(* Streams *)

\* (mutant) the end of a line does not hand the cache on
InByteFullOnly(s, ch) ==
    LET c == Append(s.cache, ch)
    IN  IF Len(c) = CacheSize
        THEN [s EXCEPT !.written = @ \o c, !.cache = <<>>]
        ELSE [s EXCEPT !.cache = c]

\* streamout_in_byte of a STREAM_TYPE_FUNCTION
InByte(s, ch) ==
    LET c == Append(s.cache, ch)
    IN  IF Len(c) = CacheSize \/ ch = "\n"
        THEN [s EXCEPT !.written = @ \o c, !.cache = <<>>]
        ELSE [s EXCEPT !.cache = c]

\* A text, byte by byte
HandedOn(s, text) ==
    LET after[k \in 0..Len(text)] == IF k = 0 THEN s ELSE InByte(after[k - 1], text[k])
    IN  after[Len(text)]

\* (mutant) the last byte is not kept for the Nul
FinishPast(m, size) == Append(m, Nul)

\* streamout_finish of a STREAM_TYPE_MEMORY; size > 0
FinishMemory(m, size) ==
    IF Len(m) < size THEN Append(m, Nul) ELSE [m EXCEPT ![size] = Nul]

Begin ==
    /\ call = Idle /\ todo # <<>>
    /\ call' = Head(todo) /\ todo' = Tail(todo)
    /\ items' = Head(todo).items
    /\ n' = 0 /\ mem' = <<>> /\ printed' = <<>>
    /\ UNCHANGED <<cache, written, before>>

\* eh_stream_vprintf: the text of the next directive
Prints(text) ==
    LET s == HandedOn([cache |-> cache, written |-> written], text)
    IN  /\ items' = SubSeq(items, 2, Len(items))
        /\ n' = n + Counted(items[1], text)
        /\ printed' = printed \o text
        /\ IF call.to = "memory"
           THEN /\ mem' = mem \o SubSeq(text, 1, Min({Len(text), call.size - Len(mem)}))
                /\ UNCHANGED <<cache, written>>
           ELSE cache' = s.cache /\ written' = s.written /\ UNCHANGED mem
        /\ UNCHANGED <<call, before, todo>>

Directive == items # <<>> /\ \E text \in Outcomes(items[1]) : Prints(text)

\* streamout_finish, and the caller has the result.  The cache of a function
\* stays as it is.
Finish ==
    /\ call # Idle /\ items = <<>>
    /\ mem' = IF call.to = "memory" THEN FinishMemory(mem, call.size) ELSE mem
    /\ before' = IF call.to = "memory" THEN before ELSE before \o printed
    /\ call' = Idle
    /\ UNCHANGED <<items, n, cache, written, printed, todo>>

PrintfNext ==
    \/ Begin \/ Directive \/ Finish

PrintfSpec == PrintfInit /\ [][PrintfNext]_printfvars

-----------------------------------------------------------------------------
(* Properties *)

\* What the caller of eh_snprintf finds: the text as far as it goes into all
\* but one byte of the buffer, a Nul behind it, and the length the whole text
\* would have had.
SnprintfContract ==
    [][ Finish /\ call.to = "memory" =>
          LET fits == Min({Len(printed), call.size - 1})
          IN  /\ mem' = Append(SubSeq(printed, 1, fits), Nul)
              /\ (\A i \in DOMAIN call.items : call.items[i].conv # "unknown") =>
                    n' = Len(printed)
      ]_printfvars

\* Nothing is lost, repeated or reordered on its way through the cache, over any
\* number of calls, and the end of a line is never left waiting in it.
LinesAreHandedOn ==
    /\ written \o cache = before \o (IF call.to = "function" THEN printed ELSE <<>>)
    /\ "\n" \notin ToSet(cache)
    /\ Len(cache) < CacheSize

\* What a number's field says, read back: [sign, digits] without the padding
Value(digits, base) ==
    LET value[k \in 0..Len(digits)] ==
          IF k = 0 THEN 0
          ELSE value[k - 1] * base + SelectInSeq(Digit, LAMBDA x : x = digits[k]) - 1
    IN  value[Len(digits)]

\* Of the field out all is text but so many characters at either end, the blanks.
Framed(out, blanks, front, back) ==
    /\ front + back < Len(out)
    /\ \A i \in 1..Len(out) : out[i] \in blanks <=> i <= front \/ i > Len(out) - back

Unsigned(text) == IF text[1] \in {"-", "+"} THEN Tail(text) ELSE text

\* A sign, a prefix and digits as a number
Read(d, text) ==
    (IF text[1] = "-" THEN -1 ELSE 1)
    * Value(SubSeq(Unsigned(text), Len(Special(d)) + 1, Len(Unsigned(text))), d.base)

\* A number's field reads back as the number, is exactly as wide as asked or has
\* no padding at all, has the digits its precision asks for, and is padded on
\* one side only.
ReadsBack(d, out) ==
    /\ Len(out) = Max({d.width,
                       Len(Sign(d)) + Len(Special(d)) + Max({Len(NumberDigits(d)), d.precision})})
    /\ \E front, back \in 0..Len(out) :
          LET text == SubSeq(out, front + 1, Len(out) - back)
          IN  /\ Framed(out, {" "}, front, back)
              /\ Read(d, text) = d.num
              /\ Len(Unsigned(text)) >= Len(Special(d)) + d.precision
              /\ back > 0 => /\ "left" \in d.flags
                              /\ front <= IF "space" \in d.flags THEN 1 ELSE 0

\* shown units are the unit nearest to num, and of two that are as near the even
\* one.
Rounds(shown, num, unit) ==
    LET off == 2 * (unit * shown - num)
    IN  off \in -unit..unit /\ (off \in {-unit, unit} => shown % 2 = 0)

\* The digits of text are num hundredths, rounded to the unit of the precision, and
\* as many of them as it asks for are behind the dot.
IsNearest(num, precision, text, unit) ==
    LET dot == SelectInSeq(text, LAMBDA x : x = ".")
        whole == IF dot = 0 THEN text ELSE SubSeq(text, 1, dot - 1)
        fraction == IF dot = 0 THEN <<>> ELSE SubSeq(text, dot + 1, Len(text))
    IN  /\ Len(fraction) = precision
        /\ Rounds(Value(whole \o fraction, 10), num, unit)

\* A double's field reads back as the number it is rounded to.
NearlyReadsBack(d, out) ==
    \E front, back \in 0..Len(out) :
        /\ Framed(out, {" ", "+"}, front, back)
        /\ IsNearest(d.hundredths, d.precision, SubSeq(out, front + 1, Len(out) - back),
                     IF d.precision = 0 THEN 100 ELSE 10)

\* The text that the step has printed
Out == SubSeq(printed', Len(printed) + 1, Len(printed'))

\* A double is printed as the nearest number of the precision, of two the even one.
FloatIsNearest ==
    [][ Directive /\ items[1].conv = "f" => NearlyReadsBack(items[1], Out) ]_printfvars

\* What is printed of a number reads back as the number, all of it or, if it needs
\* memory, nothing; and what is printed of a double as what it is rounded to.
FieldsReadBack ==
    [][ Directive =>
          /\ items[1].conv = "d" =>
                ReadsBack(items[1], Out) \/ (NeedsMemory(items[1]) /\ Out = <<>>)
          /\ items[1].conv = "f" => NearlyReadsBack(items[1], Out)
      ]_printfvars
=============================================================================
