---------------------------- MODULE MCJsonCodec -----------------------------
(* Documents up to three levels deep, strings with every character that is *)
(* special to the writer or the reader; instance of JsonCodec for TLC.     *)
EXTENDS JsonCodec

Chars   == {"x", "n", Quote, Backslash, Newline, Control, Wide, ",", "}", "]", " "}
Strings == {Str(<<>>)} \cup {Str(<<c>>) : c \in Chars} \cup {Str(<<c, d>>) : c, d \in Chars}
Words   == {Word(w) : w \in {"42", "true", "null"}}
Few     == {Str(<<Backslash>>), Str(<<"}", Quote>>), Str(<<Wide>>), Word("42")}

Pairs1  == {Obj(<<Member("j", v)>>) : v \in Few} \cup {Obj(<<>>), Arr(<<>>)}
Inner   == Few \cup Pairs1 \cup {Arr(<<v, w>>) : v, w \in Few}

MCChar == Chars \cup {"{", "[", ":", "42", "true", "null", "j", "k", "l", "e2", "96", "82", "u", "0", "1", "2", "5", "8"}

MCDocs ==
    {Obj(<<Member("k", v)>>) : v \in Strings \cup Words}
    \cup {Obj(<<Member("k", v), Member("l", w)>>) : v, w \in Inner}
    \cup {Arr(<<v, w>>) : v \in Inner, w \in Pairs1}
    \cup {Obj(<<Member("l", Arr(<<v, w>>)), Member("k", x)>>) : v \in Pairs1, w \in Few, x \in Few}
    \cup {Obj(<<Member("k", Raw(v)), Member("l", w)>>) : v \in Pairs1, w \in Few}
=============================================================================
