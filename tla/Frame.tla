-------------------------------- MODULE Frame --------------------------------
(***************************************************************************)
(* The frames of comm_protocol: a payload between A5 and 5A, in which the  *)
(* delimiters and the two escape characters are escaped.                   *)
(***************************************************************************)
EXTENDS Integers, Sequences

CONSTANTS
    NoPayload,  \* what the recovery returns of what is no frame: -1
    IndexMod,   \* 2^16: the recovery counts in a uint16_t
    Endless     \* the recovery does not come back

Begin == 165    \* 0xA5
End == 90       \* 0x5A
EscB == 170     \* 0xAA, escapes Begin and itself
EscE == 85      \* 0x55, escapes End and itself

EscapedByte(b) ==
    CASE b = Begin -> <<EscB, 1>>
      [] b = EscB  -> <<EscB, 2>>
      [] b = End   -> <<EscE, 1>>
      [] b = EscE  -> <<EscE, 2>>
      [] OTHER     -> <<b>>

\* a5_5a_data_escaping
Escaping(data) ==
    LET upto[i \in 0..Len(data)] ==
          IF i = 0 THEN <<Begin>> ELSE upto[i - 1] \o EscapedByte(data[i])
    IN  Append(upto[Len(data)], End)

\* What an escape character and the byte after it stand for
Unescaped(e, b) ==
    CASE e = EscB /\ b = 1 -> <<Begin>>
      [] e = EscB /\ b = 2 -> <<EscB>>
      [] e = EscE /\ b = 1 -> <<End>>
      [] e = EscE /\ b = 2 -> <<EscE>>
      [] OTHER -> NoPayload

\* (mutant) the end is not looked at
RecoveryOpen(trans) ==
    LET n == Len(trans)
        from[i \in 2..(n + 1)] ==
          IF i > IndexMod THEN Endless ELSE IF i >= n THEN <<>>
          ELSE LET pair == trans[i] \in {EscB, EscE}
                   here == IF pair THEN Unescaped(trans[i], trans[i + 1]) ELSE <<trans[i]>>
                   rest == from[IF pair THEN i + 2 ELSE i + 1]
               IN  IF here = NoPayload \/ rest = NoPayload THEN NoPayload
                   ELSE IF rest = Endless THEN Endless ELSE here \o rest
    IN  IF trans[1] # Begin THEN NoPayload ELSE from[2]

\* a5_5a_data_recovery, of at least one byte.  Behind IndexMod bytes the index
\* starts over, finds what it has found before and never comes to the end;
\* what the code stores overruns the buffer of the payload then.
Recovery(trans) ==
    LET n == Len(trans)
        from[i \in 2..(n + 1)] ==
          IF i > IndexMod THEN Endless ELSE IF i >= n THEN <<>>
          ELSE LET pair == trans[i] \in {EscB, EscE}
                   here == IF pair THEN Unescaped(trans[i], trans[i + 1]) ELSE <<trans[i]>>
                   rest == from[IF pair THEN i + 2 ELSE i + 1]
               IN  IF here = NoPayload \/ rest = NoPayload THEN NoPayload
                   ELSE IF rest = Endless THEN Endless ELSE here \o rest
    IN  IF trans[1] # Begin \/ trans[n] # End THEN NoPayload ELSE from[2]
=============================================================================
