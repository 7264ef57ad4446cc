----------------------------- MODULE Formatting -----------------------------
(****************************************************************************)
(* The functions of format.h that turn numbers and arguments into text: the *)
(* digits and the padding of a number, the slots of a format string, and    *)
(* the two attempts at printing through C. A character of a number is a     *)
(* digit or one of the negative numbers below, any other is a string.       *)
(****************************************************************************)
EXTENDS TextOps, FiniteSets

CONSTANT Bits      \* the width of a number, and the size of the digit buffer

Word == 2 ^ Bits
Minus == -1
Plus == -2
Space == -3

Digits(n, base) ==
  LET digits[m \in 0 .. Word - 1] ==
        IF m < base THEN <<m>> ELSE Append(digits[m \div base], m % base)
  IN  digits[n]

\* The least number is its own negative, which as an unsigned one is right.
format_number(num, base, info) ==
  LET negative == num < 0 /\ ~info.is_unsigned
      marker == IF negative THEN <<Minus>> ELSE info.positive_marker
      pad_to == IF info.count_markers_towards_pad THEN info.pad_to - Len(marker) ELSE info.pad_to
      digits == Digits((IF negative THEN -num ELSE num) % Word, base)
  IN  marker \o [i \in 1 .. Max({0, pad_to - Len(digits)}) |-> info.pad_with] \o digits

-----------------------------------------------------------------------------
(* Slots: an argument is its text, and whether it was passed at all. *)

Open == "{"
Close == "}"
sub_for == <<Open, Close>>

\* the arguments from an index on, up to the first that was not passed
concat_adapted(adapted, from) ==
  LET concat[i \in 0 .. Len(adapted)] ==
        IF i = Len(adapted) \/ ~adapted[i + 1].given THEN <<>>
        ELSE adapted[i + 1].text \o concat[i + 1]
  IN  concat[from]

Escaped(format_str, found) ==
  /\ found > 0 /\ found + 2 < Len(format_str)
  /\ format_str[found] = Open /\ format_str[found + 3] = Close

\* an escaped slot takes its turn among the arguments as well
format_adapted(format_str, adapted) ==
  LET step[last, found_count \in 0 .. Len(format_str)] ==
        LET found == first_index_of(format_str, sub_for, last) IN
        IF found = -1
        THEN slice_range(format_str, last, Len(format_str)) \o concat_adapted(adapted, found_count)
        ELSE IF Escaped(format_str, found)
        THEN slice_range(format_str, last, found - 1) \o sub_for \o step[found + 3, found_count + 1]
        ELSE slice_range(format_str, last, found)
               \o (IF found_count < Len(adapted) /\ adapted[found_count + 1].given
                   THEN adapted[found_count + 1].text ELSE <<>>)
               \o step[found + 2, found_count + 1]
  IN  step[0, 0]

\* a range of what formats to these texts
format_range(texts) ==
  LET rest[i \in 1 .. Len(texts) + 1] ==
        IF i > Len(texts) THEN <<>> ELSE <<",", " ">> \o texts[i] \o rest[i + 1]
  IN  <<"[">> \o (IF texts = <<>> THEN <<>> ELSE texts[1] \o rest[2]) \o <<"]">>

-----------------------------------------------------------------------------
Ended == "null"

\* as much of a text as fits into `room` cells with a null behind it
snprintf(cells, from, room, text) ==
  LET count == IF Len(text) < room THEN Len(text) ELSE room - 1
  IN  [i \in 1 .. Len(cells) |->
         IF from < i /\ i <= from + count THEN text[i - from]
         ELSE IF i = from + count + 1 THEN Ended ELSE cells[i]]

\* grows by what is estimated, then to what the text needs, and prints again
\* when that was more; the string keeps its size plus a cell for its terminator
cformat_single(into, estimated_size, text) ==
  LET Sized(s, n) == [i \in 1 .. n |-> IF i <= Len(s) THEN s[i] ELSE Ended]
      first == snprintf(Sized(into, Len(into) + estimated_size), Len(into), estimated_size, text)
      resized == Sized(first, Len(into) + Len(text))
  IN  IF Len(text) < estimated_size THEN resized
      ELSE snprintf(resized, Len(into), Len(text), text)

-----------------------------------------------------------------------------
(* Properties *)

\* A number reads back, also the least one, in every base and however it is
\* padded; it is as wide as was asked for; its digits fit into the buffer.
NumberReads(num, base, info) ==
  LET out == format_number(num, base, info)
      negative == num < 0 /\ ~info.is_unsigned
      marked == IF negative THEN 1 ELSE Len(info.positive_marker)
      digits == SelectSeq(out, LAMBDA c : c >= 0)
      wide == IF info.count_markers_towards_pad THEN info.pad_to ELSE info.pad_to + marked
      magnitude == FoldLeft(LAMBDA sum, d : sum * base + d, 0, digits)
      size == marked + Len(Digits(magnitude, base))
  IN  /\ (IF negative THEN -magnitude ELSE magnitude) = (IF info.is_unsigned THEN num % Word ELSE num)
      /\ negative = (out[1] = Minus)
      /\ Len(out) = (IF size > wide THEN size ELSE wide)
      /\ Len(Digits(magnitude, base)) <= Bits

Begins(s, prefix) == Len(prefix) <= Len(s) /\ SubSeq(s, 1, Len(prefix)) = prefix

\* what the rules say, read from left to right
Formatted(format_str, adapted) ==
  LET scan[i, n \in 0 .. Len(format_str)] ==
        LET rest == SubSeq(format_str, i + 1, Len(format_str)) IN
        IF rest = <<>> THEN concat_adapted(adapted, n)
        ELSE IF Begins(rest, <<Open>> \o sub_for \o <<Close>>) THEN sub_for \o scan[i + 4, n]
        ELSE IF Begins(rest, sub_for)
        THEN (IF adapted[n + 1].given THEN adapted[n + 1].text ELSE <<>>) \o scan[i + 2, n + 1]
        ELSE <<rest[1]>> \o scan[i + 1, n]
  IN  scan[0, 0]

\* Slots take the arguments in order, those left over follow, slots without one
\* are removed and escaped ones lose their braces. This is not claimed where an
\* argument is passed beside an escaped slot, which takes an argument's turn so
\* that its text is lost, nor of a slot beyond the array of arguments.
SlotsFilled(format_str, adapted) ==
  LET found == {i \in 0 .. Len(format_str) - 2 : Matches(format_str, sub_for, i)} IN
  /\ Cardinality(found) <= Len(adapted)
  /\ (\E i \in found : Escaped(format_str, i)) => \A i \in DOMAIN adapted : ~adapted[i].given
  => format_adapted(format_str, adapted) = Formatted(format_str, adapted)

\* A range is what joining its texts gives, in brackets, an empty one as well.
RangeJoined(texts) == format_range(texts) = join_into(<<"[">>, texts, <<",", " ">>) \o <<"]">>

\* What was there stays in front of what is printed, the string grows by the
\* length of the text, and a text shorter than the estimate is printed whole.
\* Nothing is claimed of what is printed of a longer text, which loses its last
\* character to the null.
PrintedWhole(into, estimated_size, text) ==
  LET out == cformat_single(into, estimated_size, text)
      n == Len(into) + Len(text)
  IN  /\ Len(out) = n /\ SubSeq(out, 1, Len(into)) = into
      /\ Len(text) < estimated_size => out = into \o text
=============================================================================
