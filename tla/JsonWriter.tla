----------------------------- MODULE JsonWriter -----------------------------
(***************************************************************************)
(* The writer of json/json.c: a buffer that grows, and calls that append   *)
(* to it.  It keeps no structure and decides from the last character       *)
(* whether a comma is due.                                                 *)
(*                                                                         *)
(* A text is a sequence of characters; a name, a numeral and the words     *)
(* true, false and null count as one character.                            *)
(***************************************************************************)
EXTENDS Integers, SequencesExt

CONSTANTS FirstCap,   \* 256: the capacity a buffer begins with
          Char        \* the characters

Quote     == "\""
Backslash == "\\"
Newline   == "newline"
Control   == "control"      \* a control character without an escape of its own, say 0x01

ASSUME WriterAssumption ==
    /\ FirstCap \in Nat \ {0}
    /\ {Quote, Backslash, "n", "u", "0", "1", ",", ":"} \subseteq Char

VARIABLE jb     \* nsr_json_buf_t: [buf, cap]

-----------------------------------------------------------------------------

\* mutant: the NUL is forgotten
jb_grow_NoNul(cap, len, need) ==
    IF len + need - 1 < cap THEN cap
    ELSE LET m == len + need - 1
             new_cap[k \in 0..m] ==
                 IF k = 0 THEN IF cap = 0 THEN FirstCap ELSE 2 * cap
                 ELSE LET c == new_cap[k - 1] IN IF c < m THEN 2 * c ELSE c
         IN  new_cap[m]

\* the capacity for `need' more bytes, the NUL among them; new_cap[k] is the value
\* after k rounds of the loop, which needs no more than m of them
jb_grow(cap, len, need) ==
    IF len + need < cap THEN cap
    ELSE LET m == len + need
             new_cap[k \in 0..m] ==
                 IF k = 0 THEN IF cap = 0 THEN FirstCap ELSE 2 * cap
                 ELSE LET c == new_cap[k - 1] IN IF c < m THEN 2 * c ELSE c
         IN  new_cap[m]

\* jb_append_raw and jb_append_char
jb_append(b, s) == [buf |-> b.buf \o s, cap |-> jb_grow(b.cap, Len(b.buf), Len(s) + 1)]

needs_comma(b) == b.buf # <<>> /\ Last(b.buf) \notin {"{", "[", ":", ","}

Comma(b) == IF needs_comma(b) THEN jb_append(b, <<",">>) ELSE b

\* mutant: a backslash is not escaped
Escape_NoBackslash(c) ==
    CASE c = Quote   -> <<Backslash, Quote>>
      [] c = Newline -> <<Backslash, "n">>
      [] c = Control -> <<Backslash, "u", "0", "0", "0", "1">>
      [] OTHER       -> <<c>>

\* bytes from 0x20 on, of which characters beyond ASCII consist, are passed through
Escape(c) ==
    CASE c \in {Quote, Backslash} -> <<Backslash, c>>
      [] c = Newline              -> <<Backslash, "n">>
      [] c = Control              -> <<Backslash, "u", "0", "0", "0", "1">>
      [] OTHER                    -> <<c>>

append_escaped(b, s) ==
    LET upto[i \in 0..Len(s)] ==
            IF i = 0 THEN jb_append(b, <<Quote>>) ELSE jb_append(upto[i - 1], Escape(s[i]))
    IN  jb_append(upto[Len(s)], <<Quote>>)

\* nsr_json_obj_start, _obj_end, _arr_start, _arr_end, _key, _string, _int, _bool, _null,
\* _append_raw
Apply(call, b) ==
    CASE call.op = "start"  -> jb_append(Comma(b), <<call.arg>>)
      [] call.op = "end"    -> jb_append(b, <<call.arg>>)
      [] call.op = "key"    -> jb_append(append_escaped(Comma(b), <<call.arg>>), <<":">>)
      [] call.op = "string" -> append_escaped(Comma(b), call.arg)
      [] call.op = "word"   -> jb_append(Comma(b), <<call.arg>>)
      [] call.op = "raw"    -> jb_append(b, call.arg)

Call(op, arg) == [op |-> op, arg |-> arg]

nsr_json_init == [buf |-> <<>>, cap |-> jb_grow(0, 0, 1)]

\* the memory is kept
nsr_json_reset(b) == [b EXCEPT !.buf = <<>>]

-----------------------------------------------------------------------------
(* What may happen to a buffer: any call, whoever makes it, and that it is *)
(* used again.                                                             *)

WriterInit == jb = nsr_json_init

Send(call) == jb' = Apply(call, jb)
Reset      == jb' = nsr_json_reset(jb)

WriterNext ==
    \/ \E op \in {"start", "end", "key", "word"} : \E c \in Char : Send(Call(op, c))
    \/ \E op \in {"string", "raw"} : \E s \in Seq(Char) : Send(Call(op, s))
    \/ Reset

WriterSpec == WriterInit /\ [][WriterNext]_jb

(* Whatever is appended, in whatever pieces and however often the buffer   *)
(* has grown or been used again, the text and its NUL fit into it.         *)
FitsBuffer == Len(jb.buf) < jb.cap
=============================================================================
