------------------------------- MODULE MCDebug -------------------------------
(* Debug for TLC: up to three log files and seven file numbers; two tasks;   *)
(* and the directives that are printed.                                      *)
EXTENDS Debug

CONSTANTS t1, t2

Careful == [sameMax |-> TRUE, killed |-> FALSE]
Any == [sameMax |-> FALSE, killed |-> TRUE]
MCModes == {Careful, Any}

\* Who prints: both tasks under the mutex, everyone and an interrupt, or one
\* task only with the scheduler suspended.
Habit(isr, silent, race, k) == [isr |-> isr, silent |-> silent, race |-> race, prints |-> k]
MCHabits ==
    {Habit(FALSE, {}, FALSE, 2), Habit(TRUE, {}, FALSE, 1), Habit(FALSE, {t1}, FALSE, 2)}
\* Two tasks print first at the same time.
Racing == {Habit(FALSE, {}, TRUE, 1)}

\* Directives
Literal(c) == [conv |-> "literal", ch |-> c]
Unknown == [conv |-> "unknown"]
Char(c, w, f) == [conv |-> "c", ch |-> c, width |-> w, flags |-> f]
String(s, w, p, f) == [conv |-> "s", str |-> s, width |-> w, precision |-> p, flags |-> f]
Number(v, w, p, f, b) ==
    [conv |-> "d", num |-> v, width |-> w, precision |-> p, flags |-> f, base |-> b]
Double(h, w, p, f) ==
    [conv |-> "f", hundredths |-> h, width |-> w, precision |-> p, flags |-> f]
Array(b, s, w, f) == [conv |-> "q", bytes |-> b, size |-> s, width |-> w, flags |-> f]

Flags == SUBSET {"left", "plus", "space", "special", "zero", "signed"}
Into(k, directives) == <<[to |-> "memory", size |-> k, items |-> directives]>>

Numbers ==
    {Into(4, <<Number(v, w, p, f, 10)>>) :
        v \in {0, 7, 345}, w \in {-1, 2, 6}, p \in {-1, 0, 2, 4}, f \in Flags}
    \cup {Into(4, <<Number(-45, w, p, f \cup {"signed"}, 10)>>) :
        w \in {-1, 2, 6}, p \in {-1, 0, 2, 4}, f \in Flags}
    \cup {Into(9, <<Number(v, w, p, f \ {"signed"}, b)>>) :
        v \in {0, 29}, w \in {-1, 6}, p \in {-1, 4}, f \in Flags, b \in {2, 8, 16}}

Doubles(hundredths, precisions) ==
    {Into(9, <<Double(h, w, p, f)>>) :
        h \in hundredths, w \in {-1, 5}, p \in precisions, f \in SUBSET {"left", "plus", "zero"}}

\* Two directives into a buffer that is cut anywhere, and three calls to a
\* function, whose cache they share
Items ==
    {Literal("a"), Literal("\n"), Unknown, Char("d", 2, {}), Char("d", 0, {"left"}),
     String(<<"b", "c">>, -1, -1, {}), String(<<"b", "c">>, 4, 1, {}),
     String(<<"b", "\n">>, 3, -1, {"left"}),
     Array(<<1, 254, 16>>, 1, 9, {"left"}), Array(<<1, 254, 16>>, 2, 12, {}),
     Double(15, 4, 1, {"zero", "plus"}), Double(50, 3, 0, {"space", "left"})}
Texts == {Into(k, <<i, j>>) : k \in {1, 4, 9}, i \in Items, j \in Items}
Stream(directive) == [to |-> "function", size |-> 0, items |-> <<directive>>]
Streamed == {<<Stream(i), Stream(j), Stream(k)>> : i \in Items, j \in Items, k \in Items}

\* 0.05 and 0.95 with one digit are in a run of their own: each is rounded to the wrong
\* number.
MCPrograms ==
    Numbers \cup Doubles(0..99, {0}) \cup Doubles((0..99) \ {5, 95}, {1}) \cup Texts \cup Streamed
Ties == {Into(9, <<Double(95, -1, 1, {}), Double(5, -1, 1, {})>>)}
=============================================================================
