------------------------------- MODULE Codecs -------------------------------
(***************************************************************************)
(* The conversions of the core library that have an inverse: atoms, quoted *)
(* strings, floating point numbers and the binary format of messages.      *)
(* Widths are constants, so that every value of a small format is tried.   *)
(***************************************************************************)
EXTENDS Integers, Sequences, SequencesExt, FiniteSetsExt

CONSTANTS AtomLen,    \* sextets of an atom below its leading four bits; 10 in the code
          AtomCodes,  \* bound: the 6 bit codes that are tried
          MaxString,  \* bound: length of a string
          ExpBits, SigBits,   \* floating point format; 8 and 23, or 11 and 52 in the code
          ByteBase,   \* values of a byte; 256 in the code
          LenWidth    \* bytes of a length; 4 in the code

VARIABLES input,   \* <<codec, value>>
          coded    \* <<>>, then <<what the writer made of the value>>

codecVars == <<input, coded>>

-----------------------------------------------------------------------------
(* Atoms.  The interim value starts with the marker 0xF.                   *)
next_interim(current, code) == (current * 64 + code) % (16 * 64 ^ AtomLen)

atom_val(codes) == FoldLeft(next_interim, 15, codes)

Sextet(x, i) == (x \div 64 ^ (AtomLen - i)) % 64
(* to_string: nothing is read before the first sextet or nibble of 0xF.    *)
atom_string(x) ==
  LET marks == {i \in 0 .. AtomLen : (IF i = 0 THEN x \div 64 ^ AtomLen ELSE Sextet(x, i)) = 15}
  IN IF marks = {} THEN <<>> 
     ELSE [i \in 1 .. (AtomLen - Min(marks)) |-> Sextet(x, Min(marks) + i)]

-----------------------------------------------------------------------------
(* Strings of letters "a", quotes "q" and backslashes "b".                 *)
Chars == {"a", "q", "b"}

write_string(s) ==
  <<"q">> \o FlattenSeq([i \in DOMAIN s |-> IF s[i] = "q" THEN <<"b", "q">> ELSE <<s[i]>>]) \o <<"q">>

(* read_value: the value ends at the first quote without a backslash; then *)
(* a backslash before a quote is dropped.                                  *)
Ends(t) == {i \in 2 .. Len(t) : t[i] = "q" /\ t[i - 1] # "b"}

(* A mutant of Unescaped: the backslashes stay.                            *)
UnescapedNot(s) == s

Unescaped(s) ==
  LET kept == SetToSortSeq({i \in DOMAIN s : ~(s[i] = "b" /\ i < Len(s) /\ s[i + 1] = "q")}, <)
  IN [i \in DOMAIN kept |-> s[kept[i]]]

read_string(t) == IF Ends(t) = {} THEN <<"malformed">> ELSE Unescaped(SubSeq(t, 2, Min(Ends(t)) - 1))

-----------------------------------------------------------------------------
(* A floating point number is (-1)^sign * m * 2^k.                         *)
Bias == 2 ^ (ExpBits - 1) - 1
FloatWidth == 1 + ExpBits + SigBits
BitLen(m) == CHOOSE n \in 1 .. (SigBits + 1) : 2 ^ (n - 1) <= m /\ m < 2 ^ n

(* The normalised number less one, times 2^SigBits + 0.5, cut off; a       *)
(* float cannot hold the half, but the result is the same without it.      *)
Significand(m) == ((m - 2 ^ (BitLen(m) - 1)) * (2 ^ (SigBits + 1) + 1)) \div 2 ^ BitLen(m)

pack754(f) ==
  IF f.m = 0 THEN 0
  ELSE LET shift == BitLen(f.m) - 1 + f.k
       IN f.sign * 2 ^ (FloatWidth - 1) + (((shift + Bias) * 2 ^ SigBits) % 2 ^ FloatWidth)
            + Significand(f.m)

Zero == [sign |-> 0, m |-> 0, k |-> 0]
unpack754(i) ==
  IF i = 0 THEN Zero
  ELSE [sign |-> i \div 2 ^ (FloatWidth - 1), m |-> (i % 2 ^ SigBits) + 2 ^ SigBits,
        k |-> ((i \div 2 ^ SigBits) % 2 ^ ExpBits) - Bias - SigBits]

(* Numbers with a hidden one; the code has no case for the others.         *)
Normal == [sign : {0, 1}, m : 2 ^ SigBits .. (2 ^ (SigBits + 1) - 1),
           k : (1 - Bias - SigBits) .. (2 ^ ExpBits - 2 - Bias - SigBits)]

-----------------------------------------------------------------------------
(* The binary format: "int" is two bytes wide, a "str" has elements of one *)
(* byte, a "u16" elements of two; both have their length in front.         *)
write_int(n, width) == [i \in 1 .. width |-> (n \div ByteBase ^ (i - 1)) % ByteBase]
ElemWidth(kind) == IF kind = "str" THEN 1 ELSE 2
write_value(v) ==
  IF v.kind = "int" THEN write_int(v.val, 2)
  ELSE write_int(Len(v.val), LenWidth)
         \o FlattenSeq([i \in DOMAIN v.val |-> write_int(v.val[i], ElemWidth(v.kind))])

range_check(buf, n) == Len(buf) >= n

(* The integer at pos; range_check comes before any use of bytes past the  *)
(* end.                                                                    *)
IntAt(buf, pos, width) ==
  FoldLeft(LAMBDA n, i : n + (IF pos + i <= Len(buf) THEN buf[pos + i] ELSE 0) * ByteBase ^ (i - 1),
           0, [i \in 1 .. width |-> i])

(* What read_value adds to the values read so far, or that it throws.      *)
read_value(r, kind) ==
  LET n == IntAt(r.buf, 0, LenWidth)
      w == ElemWidth(kind)
      size == IF kind = "int" THEN 2 ELSE LenWidth + n * w
      got == IF kind = "int" THEN IntAt(r.buf, 0, 2)
             ELSE [i \in 1 .. n |-> IntAt(r.buf, LenWidth + (i - 1) * w, w)]
  IN IF (kind # "int" => range_check(r.buf, LenWidth)) /\ range_check(r.buf, size)
     THEN [r EXCEPT !.buf = SubSeq(@, size + 1, Len(@)),
                    !.vals = Append(@, [kind |-> kind, val |-> got])]
     ELSE [r EXCEPT !.thrown = TRUE]

Kinds(vs) == [i \in DOMAIN vs |-> vs[i].kind]
Read(kinds, buf) ==
  FoldLeft(LAMBDA r, kind : IF r.thrown THEN r ELSE read_value(r, kind),
           [buf |-> buf, vals |-> <<>>, thrown |-> FALSE], kinds)

Values == [kind : {"int"}, val : {0, 1, ByteBase + 1}]
            \cup [kind : {"str"}, val : SeqOf({0, 1}, 2)]
            \cup [kind : {"u16"}, val : SeqOf({0, ByteBase + 1}, 2)]

-----------------------------------------------------------------------------
Inputs == ({"atom"} \X SeqOf(AtomCodes, AtomLen)) \cup ({"string"} \X SeqOf(Chars, MaxString))
            \cup ({"float"} \X (Normal \cup {Zero})) \cup ({"binary"} \X SeqOf(Values, 2))

CodecInit == input \in Inputs /\ coded = <<>>

Encode(codec, code) == /\ input[1] = codec /\ coded = <<>>
                       /\ coded' = <<code>> /\ UNCHANGED input
write_values(vs) == FlattenSeq([i \in DOMAIN vs |-> write_value(vs[i])])

CodecNext == \/ Encode("atom", atom_val(input[2]))
             \/ Encode("string", write_string(input[2]))
             \/ Encode("float", pack754(input[2]))
             \/ Encode("binary", write_values(input[2]))

CodecSpec == CodecInit /\ [][CodecNext]_codecVars

-----------------------------------------------------------------------------
(* Properties.                                                             *)
Written(codec) == input[1] = codec /\ coded # <<>>

(* An atom of up to AtomLen characters is printed as it was written, also  *)
(* when its characters look like the marker: to_string and atom_val agree  *)
(* (atom_val.hpp:47, string_serialization.cpp:575).                        *)
AtomRoundTrip == Written("atom") => atom_string(coded[1]) = input[2]

(* from_string converts a string created by to_string to its original      *)
(* value (string_serialization.hpp:68).                                    *)
StringRoundTrip == Written("string") => read_string(coded[1]) = input[2]

(* The same for the strings that do not end in a backslash, quotes and     *)
(* backslashes inside included.  A backslash at the end escapes the        *)
(* closing quote, and from_string throws (string_serialization.cpp:97,     *)
(* 332).                                                                   *)
StringsRead ==
  Written("string") /\ (input[2] = <<>> \/ Last(input[2]) # "b") =>
     read_string(coded[1]) = input[2]

(* pack754 and unpack754 are inverse on zero and on all normal numbers     *)
(* (ieee_754.hpp:66, 105).                                                 *)
FloatRoundTrip == Written("float") => unpack754(coded[1]) = input[2]

(* A message written by binary_serializer is read back as it was, with     *)
(* nothing left over, and every shorter buffer makes binary_deserializer   *)
(* throw instead of inventing a value (binary_serializer.cpp:32,           *)
(* binary_deserializer.cpp:50).                                            *)
BinaryExact ==
  Written("binary") =>
     LET kinds == Kinds(input[2])
         buf == coded[1]
     IN /\ Read(kinds, buf) = [buf |-> <<>>, vals |-> input[2], thrown |-> FALSE]
        /\ \A n \in 0 .. (Len(buf) - 1) : Read(kinds, SubSeq(buf, 1, n)).thrown

(* What is written is read back, for all four codecs; of the strings this *)
(* is said of those that do not end in a backslash (atom_val.hpp:47,       *)
(* string_serialization.cpp:97, ieee_754.hpp:66, binary_serializer.cpp:32).*)
RoundTrips == AtomRoundTrip /\ StringsRead /\ FloatRoundTrip /\ BinaryExact
=============================================================================
