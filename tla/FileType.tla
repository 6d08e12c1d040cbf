------------------------------ MODULE FileType ------------------------------
(***************************************************************************)
(* The classifier of Opgave1 (file.c): the first BUF bytes of a file are   *)
(* empty, ASCII, ISO-8859, UTF-8 or data, tested in this order.  A masked  *)
(* test such as (b & 0xE0) == 0xC0 is a division: b \div 32 = 6.           *)
(***************************************************************************)
EXTENDS Integers, Sequences, FiniteSetsExt

CONSTANT BUF        \* 1024: sizeof(buf)

ASSUME BufAssumption == BUF \in Nat

is_ascii_allowed(b) ==
    \/ b >= 32 /\ b <= 126
    \/ b = 27
    \/ b >= 7 /\ b <= 13

is_ascii(buf) == \A p \in 1..Len(buf) : is_ascii_allowed(buf[p])
is_iso8859(buf) == \A p \in 1..Len(buf) : is_ascii_allowed(buf[p]) \/ buf[p] >= 160

utf8_seq_len(b0) ==
    CASE b0 \div 128 = 0 -> 1
      [] b0 \div 32 = 6 -> 2
      [] b0 \div 16 = 14 -> 3
      [] b0 \div 8 = 30 -> 4
      [] OTHER -> -1

is_continuation(c) == c \div 64 = 2

is_valid_UTF8Any(seq, len) ==       \* mutant: the bytes after the first are not tested
    len >= 1 /\ seq[1] \notin {0, 127} /\ utf8_seq_len(seq[1]) = len

is_valid_UTF8(seq, len) ==
    LET b0 == seq[1] IN
    /\ len >= 1
    /\ b0 \notin {0, 127}
    /\ \/ b0 \div 128 = 0 /\ len = 1
       \/ b0 \div 32 = 6 /\ len = 2
       \/ b0 \div 16 = 14 /\ len = 3
       \/ b0 \div 8 = 30 /\ b0 <= 244 /\ len = 4
    /\ \A p \in 2..len : is_continuation(seq[p])

\* The loop of main: sequence after sequence from position p on
utf8_from(buf) ==
    LET from[p \in 1..Len(buf) + 1] ==
          IF p > Len(buf) THEN TRUE
          ELSE LET len == utf8_seq_len(buf[p]) IN
               /\ len >= 1 /\ p + len - 1 <= Len(buf)
               /\ is_valid_UTF8(SubSeq(buf, p, p + len - 1), len)
               /\ from[p + len]
    IN from

fread(file) == SubSeq(file, 1, Min({BUF, Len(file)}))

classify(file) ==
    LET buf == fread(file) IN
    IF Len(buf) < 1 THEN "empty"
    ELSE IF is_ascii(buf) THEN "ASCII"
    ELSE IF is_iso8859(buf) THEN "ISO-8859"
    ELSE IF utf8_from(buf)[1] THEN "UTF-8"
    ELSE "data"

-----------------------------------------------------------------------------
\* The reference: UTF-8 as RFC 3629 has it.  A text is cut into characters
\* somehow, a character being a leading byte and as many bytes 10xxxxxx as it
\* announces; 0 and DEL are no text.
AsciiByte(b) == b \in (7..13) \cup {27} \cup (32..126)
Announces(b, tail) ==
    CASE tail = 0 -> b \in 1..126
      [] tail = 1 -> b \in 192..223
      [] tail = 2 -> b \in 224..239
      [] tail = 3 -> b \in 240..244
      [] OTHER -> FALSE
\* The characters start at the places in starts.
CutAt(t, starts) ==
    /\ 1 \in starts
    /\ \A s \in starts :
         LET next == Min({q \in starts : q > s} \cup {Len(t) + 1}) IN
         /\ Announces(t[s], next - s - 1)
         /\ \A q \in s + 1..next - 1 : t[q] \in 128..191
\* The character at s is not overlong, no surrogate and at most 10FFFF.
WellFormed(t, s) ==
    /\ t[s] \notin {192, 193}
    /\ t[s] = 224 => t[s + 1] >= 160
    /\ t[s] = 237 => t[s + 1] <= 159
    /\ t[s] = 240 => t[s + 1] >= 144
    /\ t[s] = 244 => t[s + 1] <= 143
Utf8Text(t) ==
    \E starts \in SUBSET (1..Len(t)) : CutAt(t, starts) /\ \A s \in starts : WellFormed(t, s)

\* What is read of a file, with the rest of the character that the buffer cuts
Read(file) == SubSeq(file, 1, Min({BUF, Len(file)}))
Continued(file, k) == SubSeq(file, 1, k)
Beyond(file) == (Len(Read(file)) + 1..Len(Read(file)) + 3) \cap 1..Len(file)
IsAscii(t) == \A p \in 1..Len(t) : AsciiByte(t[p])
IsIso(t) == \A p \in 1..Len(t) : AsciiByte(t[p]) \/ t[p] \in 160..255
IsUtf8(file) == Utf8Text(Read(file)) \/ \E k \in Beyond(file) : Utf8Text(Continued(file, k))

Class(file) ==
    CASE Read(file) = <<>> -> "empty"
      [] Read(file) # <<>> /\ IsAscii(Read(file)) -> "ASCII"
      [] ~IsAscii(Read(file)) /\ IsIso(Read(file)) -> "ISO-8859"
      [] ~IsIso(Read(file)) /\ IsUtf8(file) -> "UTF-8"
      [] OTHER -> "data"

\* Where main prints another class: an ill-formed character passes its tests,
\* and a character that ends behind the buffer does not.
IllFormed(t) ==
    \E starts \in SUBSET (1..Len(t)) : CutAt(t, starts) /\ \E s \in starts : ~WellFormed(t, s)
CutByBuffer(file) ==
    ~Utf8Text(Read(file)) /\ \E k \in Beyond(file) : Utf8Text(Continued(file, k))
Misjudged(file) ==
    Read(file) # <<>> /\ ~IsIso(Read(file)) /\ (IllFormed(Read(file)) \/ CutByBuffer(file))

\* What file prints is the right class, from the sets of bytes of the
\* assignment and the definition of UTF-8, except for exactly two kinds of
\* text: those with an overlong character, a surrogate or one above 10FFFF,
\* which are called UTF-8, and those whose last character the buffer cuts,
\* which are called data.
RightType(file) == classify(file) = Class(file) <=> ~Misjudged(file)

\* Without the exceptions it does not hold: a text with an overlong character
\* should be data, and one that is cut by the buffer is UTF-8.
RightClass(file) == classify(file) = Class(file)
\* A UTF-8 file is called so: neither, when its bytes are ISO-8859 as well.
Utf8Recognised(file) == Utf8Text(file) /\ ~IsAscii(file) => classify(file) = "UTF-8"
=============================================================================
