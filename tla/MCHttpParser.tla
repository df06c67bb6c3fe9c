---------------------------- MODULE MCHttpParser -------------------------------
(***************************************************************************)
(* HttpParser for streams of up to two requests: GET and HEAD with one or  *)
(* two headers, and POST with a body; and of a POST, alone or after a GET, *)
(* with a length that is no number, too large, negative, or followed by    *)
(* something else.                                                         *)
(***************************************************************************)
EXTENDS HttpParser

MCLetters == {"k", "v", "w", "L", "1", "2", "-", "b"}

K == << <<"k">>, <<"v">> >>
L(text) == << <<"L">>, text >>

Get1 == [method |-> GET, headers |-> <<K>>, body |-> <<>>]
Get2 == [method |-> GET, headers |-> <<K, << <<"k", "k">>, <<"w", "w">> >> >>, body |-> <<>>]
Head1 == [method |-> HEAD, headers |-> <<K>>, body |-> <<>>]
Post(hs) == [method |-> POST, headers |-> hs, body |-> <<"b">>]

MCStreams ==
    LET odd == {Post(<<L(t)>>) : t \in {<<"v">>, <<"2", "1">>, <<"-", "1">>, <<" ", "1", "v">>}}
    IN SeqOf({Get1, Get2, Head1, Post(<<L(<<"1">>)>>), Post(<<K, L(<<"1">>)>>)}, 2)
       \cup {<<p>> : p \in odd} \cup {<<Get1, p>> : p \in odd}
===============================================================================
