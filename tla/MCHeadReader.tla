---------------------------- MODULE MCHeadReader ----------------------------
(* Instances of HeadReader for TLC: lines of up to eight bytes.            *)
EXTENDS HeadReader, FiniteSetsExt

A == <<"A">>
Ask(u, h) == [method |-> A, url |-> u, headers |-> h]

\* Urls and values that fit in a line, that just fit, and that do not.
Urls == {A, <<"A", "COLON">>, <<"A", "SP", "A">>, <<"A", "A", "A">>}
Values == {<<>>, <<"A", "COLON">>, <<"A", "SP", "V">>, <<"A", "A", "A", "A">>,
           <<"A", "A", "A", "A", "A">>, <<"A", "A", "A", "A", "A", "A">>,
           <<"SP", "A">>, <<"A", "CR", "A", "A", "A", "A">>}
Fields == {<<k, v>> : k \in {A, <<"A", "A">>, <<"COLON">>}, v \in Values}

Headers == {<<>>} \cup {<<f>> : f \in Fields}
             \cup {<<f, <<<<"V">>, A>> >> : f \in Fields}
First == Ask(A, << <<A, A>> >>)
Exchanges ==
  {<<Ask(u, h)>> : u \in Urls, h \in Headers}
    \cup {<<Ask(A, h), First>> : h \in Headers} \cup {<<First, First>>}

\* One request with a byte changed, or taken out, or cut short.
Damaged ==
  LET w == Written(First)
  IN {ReplaceAt(w, i, b) : i \in DOMAIN w, b \in Byte}
       \cup {RemoveAt(w, i) : i \in DOMAIN w}
       \cup {SubSeq(w, 1, i) : i \in 0..Len(w)}

\* And the lines of up to three bytes that can be made of these.
Snippets == UNION {[1..n -> Byte] : n \in 0..3}

Noise == Damaged \cup Snippets

=============================================================================
