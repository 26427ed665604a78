------------------------------- MODULE Base64 --------------------------------
(***************************************************************************)
(* worker.cc, Base64Decode: one step per character of the filter that the  *)
(* storage engine sends as text.  A character is a digit 0 .. 63, white    *)
(* space, padding or anything else, for which the function throws.         *)
(* The accumulator is an int that is shifted on for ever: its bits beyond  *)
(* IntBits fall off.                                                       *)
(***************************************************************************)
EXTENDS Integers, Sequences, SequencesExt

CONSTANTS Bytes,    \* the values a byte takes in the texts decoded
          MaxBytes, \* bound on the bytes a text stands for
          IntBits   \* width of int

VARIABLES bytes,          \* the bytes the sender encoded
          input,          \* the text
          pos,            \* characters read
          buffer, bits_collected, output,
          thrown          \* Base64Decode has thrown

vars == <<bytes, input, pos, buffer, bits_collected, output, thrown>>

(* Characters that are no digits.                                          *)
Space == 64
Pad == 65
Other == 66

(* The text of a sequence of bytes: their bits in groups of six, the last  *)
(* group filled with zeros, and padding.                                   *)
Bit(b, n) == IF n < 8 * Len(b) THEN (b[n \div 8 + 1] \div 2 ^ (7 - (n % 8))) % 2 ELSE 0

Digit(b, k) ==
    32 * Bit(b, 6 * k) + 16 * Bit(b, 6 * k + 1) + 8 * Bit(b, 6 * k + 2)
    + 4 * Bit(b, 6 * k + 3) + 2 * Bit(b, 6 * k + 4) + Bit(b, 6 * k + 5)

Encoded(b) ==
    LET digits == (8 * Len(b) + 5) \div 6
    IN  [k \in 1 .. digits |-> Digit(b, k - 1)] \o [k \in 1 .. (4 - (digits % 4)) % 4 |-> Pad]

WithSpace(text, n) == InsertAt(text, n, Space)

Init ==
    /\ bytes \in UNION {[1 .. n -> Bytes] : n \in 0 .. MaxBytes}
    /\ \/ input = Encoded(bytes)
       \/ \E n \in 1 .. Len(Encoded(bytes)) + 1 :
              input \in {WithSpace(Encoded(bytes), n), InsertAt(Encoded(bytes), n, Other)}
    /\ pos = 0 /\ buffer = 0 /\ bits_collected = 0 /\ output = <<>> /\ thrown = FALSE

Reading == pos < Len(input) /\ ~ thrown

SkipSpace ==
    /\ Reading /\ input[pos + 1] = Space
    /\ pos' = pos + 1
    /\ UNCHANGED <<bytes, input, buffer, bits_collected, output, thrown>>

Padding ==
    /\ Reading /\ input[pos + 1] = Pad
    /\ pos' = Len(input)
    /\ UNCHANGED <<bytes, input, buffer, bits_collected, output, thrown>>

Throw ==
    /\ Reading /\ input[pos + 1] = Other
    /\ thrown' = TRUE
    /\ UNCHANGED <<bytes, input, pos, buffer, bits_collected, output>>

(* Mutant: a byte is taken only once more than eight bits are there.       *)
TakeDigit_OneLate ==
    /\ Reading /\ input[pos + 1] \in 0 .. 63
    /\ buffer' = (buffer * 64 + input[pos + 1]) % 2 ^ IntBits
    /\ LET bits == bits_collected + 6
       IN  IF bits > 8
           THEN /\ bits_collected' = bits - 8
                /\ output' = Append(output, (buffer' \div 2 ^ (bits - 8)) % 256)
           ELSE bits_collected' = bits /\ UNCHANGED output
    /\ pos' = pos + 1
    /\ UNCHANGED <<bytes, input, thrown>>

TakeDigit ==
    /\ Reading /\ input[pos + 1] \in 0 .. 63
    /\ buffer' = (buffer * 64 + input[pos + 1]) % 2 ^ IntBits
    /\ LET bits == bits_collected + 6
       IN  IF bits >= 8
           THEN /\ bits_collected' = bits - 8
                /\ output' = Append(output, (buffer' \div 2 ^ (bits - 8)) % 256)
           ELSE bits_collected' = bits /\ UNCHANGED output
    /\ pos' = pos + 1
    /\ UNCHANGED <<bytes, input, thrown>>

Next == SkipSpace \/ Padding \/ Throw \/ TakeDigit

Spec == Init /\ [][Next]_vars

-----------------------------------------------------------------------------

(* The bits of the text read so far come out as bytes of the filter, each  *)
(* as soon as it is complete, and all of them when the text has been read, *)
(* although the accumulator overflows and white space may be anywhere.     *)
DecodesTheFilter ==
    /\ IsPrefix(output, bytes)
    /\ pos = Len(input) /\ ~ thrown /\ Other \notin Range(input) => output = bytes
=============================================================================
