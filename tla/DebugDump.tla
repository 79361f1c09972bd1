----------------------------- MODULE DebugDump -------------------------------
(***************************************************************************)
(* Debug output of src/aes-debug.c: aes_printf, and the four hex dumps     *)
(* with their thresholds, the time stamp, the hiding of keys and the lines *)
(* of the dump with ASCII characters.                                      *)
(*                                                                         *)
(* What is printed is a sequence of lines; a column of a line holds a byte *)
(* or Blank.  Format strings and digits are left out.                      *)
(***************************************************************************)
EXTENDS Integers, Sequences, Functions

CONSTANTS
    Bytes, Printable,   \* the bytes, and those isprint accepts
    Levels,             \* MSG_EXCESSIVE .. MSG_ERROR, as numbers
    MaxLen,             \* bound on the length of a buffer
    LineLen             \* line_len, 16 in the code

\* A line has columns, and there is a level the program begins with.
Inputs == LineLen \in Nat \ {0} /\ MaxLen \in Nat /\ 0 \in Levels

Blank == "blank"        \* a column that is filled up
Underscore == "_"       \* a character that cannot be printed

VARIABLES
    aes_debug_level, aes_debug_show_keys, aes_debug_timestamp,
    pc,         \* "idle", or "lines" inside the loop of _aes_hexdump_ascii
    call,       \* the last call: its function, level and buffer
    pos, len,   \* the local variables of the loop
    out         \* what the last call has printed

settings == <<aes_debug_level, aes_debug_show_keys, aes_debug_timestamp>>
vars == <<settings, pc, call, pos, len, out>>

Dumps == {"hexdump", "hexdump_key", "hexdump_ascii", "hexdump_ascii_key"}
IsKey(function) == function \in {"hexdump_key", "hexdump_ascii_key"}
IsAscii(function) == function \in {"hexdump_ascii", "hexdump_ascii_key"}

Init ==
    /\ aes_debug_level = 0 /\ aes_debug_show_keys = TRUE /\ aes_debug_timestamp = TRUE
    /\ pc = "idle"
    /\ call = [function |-> "none", level |-> 0, null |-> TRUE, buf |-> <<>>]
    /\ pos = 0 /\ len = 0
    /\ out = <<>>

\* The program sets the three global variables.
Configure ==
    /\ pc = "idle"
    /\ aes_debug_level' \in Levels
    /\ aes_debug_show_keys' \in BOOLEAN /\ aes_debug_timestamp' \in BOOLEAN
    /\ call' = [function |-> "none", level |-> 0, null |-> TRUE, buf |-> <<>>]
    /\ out' = <<>>
    /\ UNCHANGED <<pc, pos, len>>

\* A line with a title; "stamp" says that the time is in front of it.
Line(kind, hex, text) ==
    [kind |-> kind, stamp |-> aes_debug_timestamp, hex |-> hex, text |-> text]

\* aes_printf prints at a level and above.
Printf(level) ==
    /\ pc = "idle"
    /\ call' = [function |-> "printf", level |-> level, null |-> TRUE, buf |-> <<>>]
    /\ out' = IF level >= aes_debug_level THEN <<Line("message", <<>>, <<>>)>> ELSE <<>>
    /\ UNCHANGED <<settings, pc, pos, len>>

\* Mutant: a key is shown when it is dumped with its characters.
Show_ascii(function) == function = "hexdump_ascii_key" \/ ~IsKey(function) \/ aes_debug_show_keys

\* The argument show of the two static functions.
Show(function) == ~IsKey(function) \/ aes_debug_show_keys

\* _aes_hexdump: the buffer in one line; a missing one is said before a key is hidden.
Hexdump(null, buf, show) ==
    IF null THEN Line("null", <<>>, <<>>)
    ELSE IF show THEN Line("dump", buf, <<>>) ELSE Line("redacted", <<>>, <<>>)

\* _aes_hexdump_ascii up to its loop: here a key is hidden before one is missing.
AsciiTitle(null, show) ==
    IF ~show THEN Line("redacted", <<>>, <<>>)
    ELSE IF null THEN Line("null", <<>>, <<>>) ELSE Line("dump", <<>>, <<>>)

Dump(function, level, null, buf) ==
    /\ pc = "idle"
    /\ call' = [function |-> function, level |-> level, null |-> null, buf |-> buf]
    /\ IF level < aes_debug_level
       THEN out' = <<>> /\ UNCHANGED <<pc, pos, len>>
       ELSE IF ~IsAscii(function)
       THEN out' = <<Hexdump(null, buf, Show(function))>> /\ UNCHANGED <<pc, pos, len>>
       ELSE /\ out' = <<AsciiTitle(null, Show(function))>>
            /\ IF null \/ ~Show(function)
               THEN UNCHANGED <<pc, pos, len>>
               ELSE pc' = "lines" /\ pos' = 0 /\ len' = Len(buf)
    /\ UNCHANGED settings

Character(byte) == IF byte \in Printable THEN byte ELSE Underscore

Filled(columns) == columns \o [i \in 1..LineLen - Len(columns) |-> Blank]

LineLength(n) == IF n > LineLen THEN LineLen ELSE n

\* One turn of the loop: the numbers of a line, then its characters.
PrintLine ==
    /\ pc = "lines" /\ len > 0
    /\ LET llen == LineLength(len)
           bytes == SubSeq(call.buf, pos + 1, pos + llen)
       IN  /\ out' = Append(out, [kind |-> "line", stamp |-> FALSE, hex |-> Filled(bytes),
                                  text |-> Filled([i \in 1..llen |-> Character(bytes[i])])])
           /\ pos' = pos + llen
           /\ len' = len - llen
    /\ UNCHANGED <<settings, pc, call>>

AsciiDone ==
    /\ pc = "lines" /\ len = 0
    /\ pc' = "idle"
    /\ UNCHANGED <<settings, call, pos, len, out>>

Buffers == UNION {[1..n -> Bytes] : n \in 0..MaxLen}

Next ==
    \/ Configure
    \/ \E level \in Levels : Printf(level)
    \/ \E f \in Dumps, level \in Levels :
           Dump(f, level, TRUE, <<>>) \/ \E buf \in Buffers : Dump(f, level, FALSE, buf)
    \/ PrintLine \/ AsciiDone

Spec == Init /\ [][Next]_vars

------------------------------------------------------------------------------
(* Properties *)

TypeOK ==
    /\ aes_debug_level \in Levels /\ pc \in {"idle", "lines"}
    /\ pos \in 0..MaxLen /\ len \in 0..MaxLen
    /\ \A i \in 1..Len(out) :
           /\ Range(out[i].hex) \subseteq Bytes \cup {Blank}
           /\ Range(out[i].text) \subseteq Printable \cup {Blank, Underscore}

\* The byte a column of line l shows: the lines after the title, 2 and on, count them.
ByteAt(l, c) == LineLen * (l - 2) + c

\* Line l of a dump: each byte of the buffer in its column, by its number and by its
\* character, and blanks behind the last one.
Shows(l) ==
    out[l] =
        [kind |-> "line", stamp |-> FALSE,
         hex  |-> [c \in 1..LineLen |->
                      IF ByteAt(l, c) <= Len(call.buf) THEN call.buf[ByteAt(l, c)] ELSE Blank],
         text |-> [c \in 1..LineLen |-> IF ByteAt(l, c) <= Len(call.buf)
                                        THEN Character(call.buf[ByteAt(l, c)]) ELSE Blank]]

\* A dump with characters that is not hidden has every byte of the buffer once and in
\* order, as a number and as a character, in as many lines as they need, all but the last
\* one full and with columns below each other.
DumpIsWhole ==
    pc = "idle" /\ IsAscii(call.function) /\ out /= <<>> /\ out[1].kind = "dump" =>
        /\ Len(out) = 1 + ((Len(call.buf) + LineLen - 1) \div LineLen)
        /\ \A l \in 2..Len(out) : Shows(l)

\* With aes_debug_show_keys off no function for keys prints a byte of one.
KeysHidden ==
    IsKey(call.function) /\ ~aes_debug_show_keys =>
        \A i \in 1..Len(out) : out[i].hex = <<>> /\ out[i].text = <<>>
==============================================================================
