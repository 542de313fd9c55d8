----------------------------- MODULE JsonCodec ------------------------------
(***************************************************************************)
(* The JSON writer and reader of json/json.c, which every message between  *)
(* NSR and its plugins goes through.  The writer is module JsonWriter.     *)
(* The reader works on the text in place, with pointers into it and no     *)
(* error but a null pointer.                                               *)
(*                                                                         *)
(* A pointer is a position in the text, the terminating NUL being at       *)
(* Len + 1; Null is 0.                                                     *)
(***************************************************************************)
EXTENDS JsonWriter

CONSTANTS Docs,       \* values written, or received from a plugin
          OutLens,    \* sizes of the arrays strings are read into
          Absent      \* a key no document has

Blank == {" ", Newline}
NUL   == "NUL"
Null  == 0

(* A character beyond ASCII, say a block of the sparkline plugin; NSR sees *)
(* its bytes in UTF-8, json.dumps writes it as an escape.                  *)
Wide     == "wide"
Bytes(c) == IF c = Wide THEN <<"e2", "96", "82">> ELSE <<c>>
PythonEscape(c) == IF c = Wide THEN <<Backslash, "u", "2", "5", "8", "2">> ELSE Escape(c)

\* f(c) for the characters of s, one after the other
Each(s, f(_)) == FlattenSeq([i \in DOMAIN s |-> f(s[i])])

(* Values: what the calls of the writer describe.                          *)
Str(s)  == [type |-> "str", s |-> s]
Word(w) == [type |-> "word", w |-> w]      \* a numeral, true, false, null
Arr(e)  == [type |-> "arr", e |-> e]
Obj(m)  == [type |-> "obj", m |-> m]       \* sequence of [key, val]
Raw(v)  == [type |-> "raw", v |-> v]       \* written to a buffer of its own
Member(k, v) == [key |-> k, val |-> v]

VARIABLES
    doc,    \* the value being written
    calls,  \* the calls that are left
    from    \* "nsr" writes it, or it comes from a "plugin"

vars == <<jb, doc, calls, from>>

-----------------------------------------------------------------------------
(* What is written.                                                        *)

\* the calls that write a value, as the callers make them
RECURSIVE CallsOf(_)
CallsOf(v) ==
    CASE v.type = "str"  -> <<Call("string", Each(v.s, Bytes))>>
      [] v.type = "word" -> <<Call("word", v.w)>>
      [] v.type = "raw"  -> <<Call("raw", FoldLeft(LAMBDA b, c : Apply(c, b), nsr_json_init, CallsOf(v.v)).buf)>>
      [] v.type = "arr"  -> <<Call("start", "[")>>
                              \o FlattenSeq([i \in DOMAIN v.e |-> CallsOf(v.e[i])]) \o <<Call("end", "]")>>
      [] v.type = "obj"  -> <<Call("start", "{")>>
                              \o FlattenSeq([i \in DOMAIN v.m |-> <<Call("key", v.m[i].key)>> \o CallsOf(v.m[i].val)])
                              \o <<Call("end", "}")>>

Joined(parts) == FlattenSeq([i \in DOMAIN parts |-> IF i = 1 THEN parts[i] ELSE <<",", " ">> \o parts[i]])

\* what json.dumps of a Python plugin writes: ASCII, and a blank after , and :
RECURSIVE PythonText(_)
PythonText(v) ==
    CASE v.type = "str"  -> <<Quote>> \o Each(v.s, PythonEscape) \o <<Quote>>
      [] v.type = "word" -> <<v.w>>
      [] v.type = "raw"  -> PythonText(v.v)
      [] v.type = "arr"  -> <<"[">> \o Joined([i \in DOMAIN v.e |-> PythonText(v.e[i])]) \o <<"]">>
      [] v.type = "obj"  ->
            <<"{">> \o Joined([i \in DOMAIN v.m |-> <<Quote, v.m[i].key, Quote, ":", " ">> \o PythonText(v.m[i].val)])
                    \o <<"}">>

\* each call is one of those of WriterNext
ASSUME JsonAssumption ==
    /\ OutLens \subseteq Nat \ {0}
    /\ \A d \in Docs : /\ PythonText(d) \in Seq(Char)
                      /\ \A i \in DOMAIN CallsOf(d) :
                            LET c == CallsOf(d)[i]
                            IN  IF c.op \in {"string", "raw"} THEN c.arg \in Seq(Char) ELSE c.arg \in Char

-----------------------------------------------------------------------------
(* The reader, on a text t.                                                *)

\* beyond the NUL anything may stand
At(t, p) == IF p <= Len(t) THEN t[p] ELSE IF p = Len(t) + 1 THEN NUL ELSE "beyond"
End(t)   == Len(t) + 2

skip_ws(t, p) ==
    IF p >= End(t) THEN p
    ELSE CHOOSE q \in p..(Len(t) + 1) : At(t, q) \notin Blank /\ \A r \in p..(q - 1) : At(t, r) \in Blank

\* mutant: an escape is skipped without a look at what follows
skip_str_Blind(t, p) ==
    LET s[q \in 1..(End(t) + 1)] ==
            IF q >= End(t) THEN q
            ELSE CASE At(t, q) = NUL       -> Null
                   [] At(t, q) = Backslash -> s[q + 2]
                   [] At(t, q) = Quote     -> q + 1
                   [] OTHER                -> s[q + 1]
    IN  IF At(t, p) # Quote THEN Null ELSE s[p + 1]

skip_str(t, p) ==
    LET s[q \in 1..(End(t) + 1)] ==
            IF q >= End(t) THEN q
            ELSE CASE At(t, q) = NUL -> Null
                   [] At(t, q) = Backslash /\ At(t, q + 1) # NUL -> s[q + 2]
                   [] At(t, q) = Quote -> q + 1
                   [] OTHER -> s[q + 1]
    IN  IF At(t, p) # Quote THEN Null ELSE s[p + 1]

\* the end of a word: everything up to a delimiter or the NUL
WordEnd(t, p) ==
    IF p >= End(t) THEN p
    ELSE CHOOSE q \in p..(Len(t) + 1) :
            /\ At(t, q) \in {NUL, ",", "}", "]"}
            /\ \A r \in p..(q - 1) : At(t, r) \notin {NUL, ",", "}", "]"}

\* behind a member or an element: a comma goes on, a bracket ends
skip_value(t, p0) ==
    LET sk[m \in {"value", "members", "elements"}, q \in 0..(End(t) + 1)] ==
            LET p     == skip_ws(t, q)
                close == IF m = "members" THEN "}" ELSE "]"
                After(r) == LET e == skip_ws(t, r)
                            IN  CASE r = Null          -> Null
                                  [] At(t, e) = ","    -> sk[m, e + 1]
                                  [] At(t, e) = close  -> e + 1
                                  [] OTHER             -> Null
            IN  IF q = Null \/ q >= End(t) THEN q
                ELSE IF m = "value"
                THEN CASE At(t, p) = Quote -> skip_str(t, p)
                       [] At(t, p) = "{"   -> sk["members", p + 1]
                       [] At(t, p) = "["   -> sk["elements", p + 1]
                       [] OTHER            -> WordEnd(t, p)
                ELSE IF At(t, p) = close THEN p + 1
                ELSE IF m = "elements" THEN After(sk["value", p])
                ELSE LET k == skip_str(t, p)
                         c == skip_ws(t, k)
                     IN  IF k = Null THEN Null
                         ELSE After(sk["value", IF At(t, c) = ":" THEN c + 1 ELSE c])
    IN  sk["value", p0]

NoValue == [at |-> Null, len |-> 0]

\* a key is compared as it is written, escapes included
obj_get(t, p0, key) ==
    LET get[q \in 1..(End(t) + 1)] ==
            LET p == skip_ws(t, q)
                k == skip_str(t, p)
                c == skip_ws(t, k)
                v == skip_ws(t, c + 1)
                e == skip_value(t, v)
                n == skip_ws(t, e)
            IN  IF At(t, p) # Quote \/ k = Null THEN NoValue
                ELSE IF At(t, c) # ":" \/ e = Null THEN NoValue
                ELSE IF SubSeq(t, p + 1, k - 2) = <<key>> THEN [at |-> v, len |-> e - v]
                ELSE IF At(t, n) = "," THEN get[n + 1] ELSE NoValue
    IN  IF At(t, skip_ws(t, p0)) # "{" THEN NoValue ELSE get[skip_ws(t, p0) + 1]

\* elem and next of arr_first and arr_next; elem is Null at the end
arr_first(t, p0) ==
    LET p == skip_ws(t, p0)
        v == skip_ws(t, p + 1)
        e == skip_value(t, v)
    IN  IF At(t, p) # "[" \/ At(t, v) = "]" \/ e = Null THEN [elem |-> Null, next |-> Null]
        ELSE [elem |-> v, next |-> e]

arr_next(t, next) ==
    LET p == skip_ws(t, next)
        v == skip_ws(t, p + 1)
        e == skip_value(t, v)
    IN  IF At(t, p) # "," \/ e = Null THEN [elem |-> Null, next |-> Null]
        ELSE [elem |-> v, next |-> e]

Cut(s, n) == SubSeq(s, 1, IF n < Len(s) THEN n ELSE Len(s))

\* \u is no escape to the reader: its digits stay
Unescape(c) == IF c = "n" THEN Newline ELSE c

\* the characters a string stands for, cut to the array; FALSE if it is none
parse_str(t, p, len, out_len) ==
    LET end == p + len - 1
        d[q \in p..(end + 1)] ==
            IF q >= end THEN <<>>
            ELSE IF At(t, q) = Backslash /\ q + 1 < end THEN <<Unescape(At(t, q + 1))>> \o d[q + 2]
            ELSE <<At(t, q)>> \o d[q + 1]
    IN  IF len < 2 \/ At(t, p) # Quote \/ At(t, end) # Quote THEN <<FALSE, <<>>>>
        ELSE <<TRUE, Cut(d[p + 1], out_len - 1)>>

\* parse_int and parse_bool take the text of a value only as a whole
parse_word(t, p, len) == SubSeq(t, p, p + len - 1)

-----------------------------------------------------------------------------
(* A buffer: filled by NSR's own calls, or with a line a plugin has sent,  *)
(* which recv_line appends raw.                                            *)

Init ==
    /\ doc \in Docs /\ WriterInit
    /\ \/ from = "nsr" /\ calls = CallsOf(doc)
       \/ from = "plugin" /\ calls = <<Call("raw", PythonText(doc))>>

\* the next call of the writer
Write ==
    /\ calls # <<>>
    /\ Send(Head(calls)) /\ calls' = Tail(calls)
    /\ UNCHANGED <<doc, from>>

\* the next line is received into the same buffer
NextLine ==
    /\ from = "plugin" /\ calls = <<>>
    /\ doc' \in Docs
    /\ Reset /\ calls' = <<Call("raw", PythonText(doc'))>>
    /\ UNCHANGED from

Next == Write \/ NextLine

Spec == Init /\ [][Next]_vars

-----------------------------------------------------------------------------
(* Properties.                                                             *)

\* the elements of an array, by arr_first and arr_next
RECURSIVE ElementsFrom(_, _)
ElementsFrom(t, it) == IF it.elem = Null THEN <<>> ELSE <<it>> \o ElementsFrom(t, arr_next(t, it.next))

\* what becomes of a character: of one written as \uXXXX the text uXXXX
ReadChar(c) ==
    CASE c = Control                   -> <<"u", "0", "0", "0", "1">>
      [] c = Wide /\ from = "plugin"   -> <<"u", "2", "5", "8", "2">>
      [] OTHER                         -> Bytes(c)

\* the value at p, len characters long, is read as v
RECURSIVE ReadsAs(_, _, _, _)
ReadsAs(t, p, len, v) ==
    CASE v.type = "str"  -> \A n \in OutLens : parse_str(t, p, len, n) = <<TRUE, Cut(Each(v.s, ReadChar), n - 1)>>
      [] v.type = "word" -> parse_word(t, p, len) = <<v.w>>
      [] v.type = "raw"  -> ReadsAs(t, p, len, v.v)
      [] v.type = "arr"  -> LET es == ElementsFrom(t, arr_first(t, p))
                            IN  /\ Len(es) = Len(v.e)
                                /\ \A i \in DOMAIN es : ReadsAs(t, es[i].elem, es[i].next - es[i].elem, v.e[i])
      [] v.type = "obj"  -> /\ \A i \in DOMAIN v.m :
                                LET r == obj_get(t, p, v.m[i].key)
                                IN  r # NoValue /\ ReadsAs(t, r.at, r.len, v.m[i].val)
                            /\ obj_get(t, p, Absent) = NoValue

(* What NSR writes, and what a plugin writes with blanks, is read back as  *)
(* the same value: nesting, order and number of elements, strings with     *)
(* quotes, backslashes and brackets in them, and no key that is not there; *)
(* a string too long for its array is cut between two bytes.  The one loss *)
(* is what was written as \uXXXX: a control character without an escape of *)
(* its own, and every character beyond ASCII that a Python plugin sends    *)
(* (sparkline.py), is read as the text uXXXX; NSR's own bytes beyond ASCII *)
(* come back as they were.                                                 *)
ReadBack == calls = <<>> => ReadsAs(jb.buf, 1, Len(jb.buf), doc)

(* A text cut off anywhere (geoip.c keeps 2047 bytes of an answer) is read *)
(* without a step beyond its NUL, and a member that is found and not empty *)
(* has been there as a whole, unless it is a number or a word.             *)
CutIsNoticed ==
    calls = <<>> =>
        \A n \in 0..(Len(jb.buf) - 1) :
            LET t == SubSeq(jb.buf, 1, n)
            IN  /\ skip_value(t, 1) <= n + 1
                /\ doc.type = "obj" =>
                    \A i \in DOMAIN doc.m :
                        LET r == obj_get(t, 1, doc.m[i].key)
                        IN  /\ r.at + r.len <= n + 1
                            /\ (r.len > 0 /\ doc.m[i].val.type # "word") => ReadsAs(t, r.at, r.len, doc.m[i].val)
=============================================================================
