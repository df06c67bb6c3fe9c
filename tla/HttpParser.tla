------------------------------ MODULE HttpParser -------------------------------
(***************************************************************************)
(* What handleRead of version3.0 (net/HttpData.cpp) makes of the bytes of  *)
(* one connection: they arrive in pieces of any size, wait in inBuffer_,   *)
(* and a state machine takes requests out of it, each of them answered or  *)
(* refused.  An error is final: handleConn closes the connection.  So is   *)
(* the end of the stream, which readn reports with the last piece or after *)
(* it: the connection is H_DISCONNECTING, and all that a later handleRead  *)
(* does is to clear inBuffer_, which nothing reads again; this is left out.*)
(*                                                                         *)
(* Bytes are symbols.  A request line is a method, written in two symbols  *)
(* because the parser can lose the first one, and a version; the other     *)
(* symbols are one byte each: CR, LF, ":", " ", a letter of a key, a       *)
(* letter or a digit of a value.  The key "L" is Content-length.  A piece  *)
(* ends between two symbols.                                               *)
(* The file that is asked for exists, and what an answer contains, apart   *)
(* from the headers that it is an answer to, does not matter here.  The    *)
(* socket does not fail: Connection has the errors of reading and writing. *)
(*                                                                         *)
(* A definition A_x that follows the comment "Slip" is A with a plausible  *)
(* mistake; no specification uses it.  Putting it in A's place shows that  *)
(* a property notices the mistake.                                         *)
(***************************************************************************)
EXTENDS Integers, Sequences, FiniteSets, SequencesExt

CONSTANTS
    Letters,                    \* what keys, values and bodies are made of
    Streams,                    \* what a peer may send: sequences of requests
    IntMax                      \* INT_MAX

VARIABLES
    wire,                       \* the symbols still to come
    inBuffer,                   \* inBuffer_
    state,                      \* state_
    hState,                     \* hState_
    method,                     \* method_
    headers,                    \* headers_: pairs of key and value
    error,                      \* error_
    connectionState,            \* connectionState_
    pc,                         \* "idle": the loop waits for input; "parse": in handleRead;
                                \* "again": in the handleRead that handleRead has called;
                                \* "crashed": an exception has ended the process
    sent,                       \* history: the requests of the stream
    split,                      \* history: a piece has ended inside a request
    joined,                     \* history: more than one request was there at a time
    answers                     \* history: the headers of the requests answered, in order

parser == <<state, hState, method, headers>>
history == <<sent, split, joined>>
vars == <<wire, inBuffer, parser, error, connectionState, pc, history, answers>>

-------------------------------------------------------------------------------
(* Requests on the wire.                                                   *)

GET == <<"G", "ET">>
POST == <<"P", "OST">>
HEAD == <<"H", "EAD">>
Version == " HTTP/1.1"

Line(key, value) == key \o <<":", " ">> \o value \o <<"CR", "LF">>

Symbol == Letters \cup {"CR", "LF", ":", " ", "junk", Version}
          \cup ToSet(GET) \cup ToSet(POST) \cup ToSet(HEAD)

Word(symbols) == Seq(symbols) \ {<<>>}

\* A header: its line is shorter than the limit of 255.
Header == {h \in Word(Letters) \X Word(Letters \cup {":", " "}) : Len(h[1]) + Len(h[2]) < 250}

\* HTTP/1.1 asks for one header at least; none comes twice, and only a POST has a body.
Request == {r \in [method : {GET, POST, HEAD}, headers : Word(Header), body : Seq(Letters)] :
                /\ \A i, j \in DOMAIN r.headers : r.headers[i][1] = r.headers[j][1] => i = j
                /\ r.method # POST => r.body = <<>>}

ASSUME LettersAssumption == Letters \cap {"CR", "LF", ":", " ", "junk"} = {}

ASSUME StreamsAssumption == \A rs \in Streams : rs \in Seq(Request)

Bytes(r) == r.method \o <<Version, "CR", "LF">>
            \o FlattenSeq([i \in DOMAIN r.headers |-> Line(r.headers[i][1], r.headers[i][2])])
            \o <<"CR", "LF">> \o r.body

Wire(rs) == FlattenSeq([i \in DOMAIN rs |-> Bytes(rs[i])])

HeadersOf(r) == ToSet(r.headers)

\* The positions of the wire at which one request ends and the next begins.
Ends(rs) == {Len(Wire(SubSeq(rs, 1, n))) : n \in 0 .. Len(rs)}

Init == /\ sent \in Streams
        /\ wire = Wire(sent)
        /\ inBuffer = <<>>
        /\ state = "URI" /\ hState = "START" /\ method = "GET" /\ headers = {}
        /\ error = FALSE /\ connectionState = "CONNECTED" /\ pc = "idle"
        /\ split = FALSE /\ joined = FALSE
        /\ answers = <<>>

Received == Len(Wire(sent)) - Len(wire)

\* readn, at the beginning of handleRead, appends what has come to the buffer.
\* The loop calls handleRead because there is something, a piece or the end of
\* the stream (zero): the peer may close at any place.  The handleRead that
\* handleRead calls may find nothing new.
Arrive ==
    /\ pc \in {"idle", "again"} /\ connectionState = "CONNECTED" /\ ~error
    /\ \E n \in 0 .. Len(wire), zero \in BOOLEAN :
           /\ pc = "idle" => n > 0 \/ zero
           /\ inBuffer' = inBuffer \o SubSeq(wire, 1, n)
           /\ wire' = SubSeq(wire, n + 1, Len(wire))
           /\ split' = (split \/ Received + n \notin Ends(sent))
           /\ joined' = (joined \/ \E e \in Ends(sent) : Received < e /\ e < Received + n)
           /\ connectionState' = IF zero THEN "DISCONNECTING" ELSE connectionState
           /\ pc' = IF zero /\ n = 0 THEN "idle" ELSE "parse"
    /\ UNCHANGED <<parser, error, sent, answers>>

-------------------------------------------------------------------------------
(* The steps of handleRead.                                                *)

Fail == error' = TRUE /\ pc' = "idle"
Await == pc' = "idle" /\ UNCHANGED error
GoOn == UNCHANGED <<error, pc>>

HasPair(line, pair) == \E i \in 1 .. Len(line) - 1 : SubSeq(line, i, i + 1) = pair

\* parseURI.  The position of the first CR is unsigned and never found to be
\* negative: without one, the line is the whole buffer, which stays.
Cut(s) == LET crs == {i \in DOMAIN s : s[i] = "CR"}
              p == CHOOSE i \in crs : \A j \in crs : i <= j
          IN IF crs = {} THEN [line |-> s, rest |-> s]
             ELSE [line |-> SubSeq(s, 1, p - 1), rest |-> SubSeq(s, p + 1, Len(s))]

MethodOf(line) == IF HasPair(line, GET) THEN "GET"
                  ELSE IF HasPair(line, POST) THEN "POST"
                  ELSE IF HasPair(line, HEAD) THEN "HEAD" ELSE "none"

ParseURI ==
    LET c == Cut(inBuffer)
        known == MethodOf(c.line) # "none"
        ok == known /\ Contains(c.line, Version)
    IN /\ pc = "parse" /\ state = "URI"
       /\ method' = IF known THEN MethodOf(c.line) ELSE method
       /\ inBuffer' = IF ok THEN c.rest ELSE <<>>
       /\ state' = IF ok THEN "HEADERS" ELSE state
       /\ IF ok THEN GoOn ELSE Fail
       /\ UNCHANGED <<wire, hState, headers, connectionState, history, answers>>

\* parseHeaders, a scan of the buffer.  h is hState_; the others are local: the
\* positions where the key and the value begin and end (0 is the -1 of the
\* code), where the current line begins, and how far the scan has come.
NoScan == [h |-> hState, ks |-> 0, ke |-> 0, vs |-> 0, ve |-> 0, begin |-> 1, n |-> 0,
           headers |-> headers, end |-> "more"]

Bad(p) == [p EXCEPT !.end = "error"]

\* Slips: one character too many, and one too few.
Text_Long(a, b) == SubSeq(inBuffer, IF a = 0 THEN 1 ELSE a, b)
Text_Short(a, b) == IF a = b THEN <<>> ELSE SubSeq(inBuffer, IF a = 0 THEN 1 ELSE a, b - 2)

\* The characters from position a up to b; with a = 0 one from before the buffer.
Text(a, b) == IF a = b THEN <<>>
              ELSE IF a = 0 THEN <<"junk">> \o SubSeq(inBuffer, 1, b - 1)
              ELSE SubSeq(inBuffer, a, b - 1)

\* Slip: insert() in place of an assignment by key.
Put_Twice(hs, key, value) == hs \cup {<<key, value>>}

Put(hs, key, value) == {p \in hs : p[1] # key} \cup {<<key, value>>}

Switch(p, i) ==
    LET c == inBuffer[i]
        newline == c \in {"CR", "LF"}
    IN CASE p.h = "START"  -> IF newline THEN p
                              ELSE [p EXCEPT !.h = "KEY", !.ks = i, !.begin = i]
         [] p.h = "KEY"    -> IF newline \/ (c = ":" /\ i <= p.ks) THEN Bad(p)
                              ELSE IF c = ":" THEN [p EXCEPT !.h = "COLON", !.ke = i] ELSE p
         [] p.h = "COLON"  -> IF c = " " THEN [p EXCEPT !.h = "SPACES"] ELSE Bad(p)
         [] p.h = "SPACES" -> [p EXCEPT !.h = "VALUE", !.vs = i]
         [] p.h = "VALUE"  -> IF c # "CR" THEN p
                              ELSE IF i <= p.vs THEN Bad(p)
                              ELSE [p EXCEPT !.h = "CR", !.ve = i]
         [] p.h = "CR"     -> IF c # "LF" THEN Bad(p)
                              ELSE [p EXCEPT !.h = "LF", !.begin = i,
                                             !.headers = Put(@, Text(p.ks, p.ke), Text(p.vs, p.ve))]
         [] p.h = "LF"     -> IF c = "CR" THEN [p EXCEPT !.h = "END_CR"]
                              ELSE [p EXCEPT !.h = "KEY", !.ks = i]
         [] p.h = "END_CR" -> IF c = "LF" THEN [p EXCEPT !.h = "END_LF"] ELSE Bad(p)
         [] p.h = "END_LF" -> [p EXCEPT !.end = "stop", !.begin = i]

Taken(p, i) == IF p.end # "more" THEN p ELSE [Switch(p, i) EXCEPT !.n = i]

Scan == LET scan[n \in 0 .. Len(inBuffer)] == IF n = 0 THEN NoScan ELSE Taken(scan[n - 1], n)
        IN scan[Len(inBuffer)]

From(i) == SubSeq(inBuffer, i, Len(inBuffer))

\* Slip: the end of a header taken for the end of the headers.
AtEnd_Early(p) == p.end # "error" /\ p.h \in {"LF", "END_CR", "END_LF"}

AtEnd(p) == p.end # "error" /\ p.h = "END_LF"

ParseHeaders ==
    /\ pc = "parse" /\ state = "HEADERS"
    /\ LET p == Scan
           all == AtEnd(p)
       IN /\ hState' = p.h
          /\ headers' = p.headers
          /\ inBuffer' = IF p.end = "error" THEN inBuffer
                         ELSE IF all THEN From(p.n + 1) ELSE From(p.begin)
          /\ state' = IF all THEN (IF method = "POST" THEN "BODY" ELSE "ANALYSIS") ELSE state
          /\ IF p.end = "error" THEN Fail ELSE IF all THEN GoOn ELSE Await
    /\ UNCHANGED <<wire, method, connectionState, history, answers>>

\* stoi: blanks, a sign, and digits up to the first symbol that is none.  It
\* throws when there is no digit, and when the number does not fit into an int.
Digits == <<"0", "1", "2", "3", "4", "5", "6", "7", "8", "9">>

\* How many symbols of this kind a text begins with.
Leading(s, kind) == CHOOSE n \in 0 .. Len(s) : /\ \A i \in 1 .. n : s[i] \in kind
                                               /\ n < Len(s) => s[n + 1] \notin kind

Stoi(v) ==
    LET text == SubSeq(v, Leading(v, {" "}) + 1, Len(v))
        signed == text # <<>> /\ text[1] \in {"+", "-"}
        sign == IF signed /\ text[1] = "-" THEN -1 ELSE 1
        number == IF signed THEN Tail(text) ELSE text
        digits == SubSeq(number, 1, Leading(number, ToSet(Digits)))
        value(d) == CHOOSE k \in 0 .. 9 : Digits[k + 1] = d
        n == sign * FoldLeft(LAMBDA sum, d : 10 * sum + value(d), 0, digits)
    IN [throws |-> digits = <<>> \/ n > IntMax \/ n < -IntMax - 1, n |-> n]

\* Slip: headers_["Content-length"] without find.
Announced_NoFind == LET found == {p \in headers : p[1] = <<"L">>}
                    IN IF found = {} THEN {<<>>} ELSE {p[2] : p \in found}

Announced == {p[2] : p \in {q \in headers : q[1] = <<"L">>}}

\* A body has to have its length announced; nothing catches what stoi throws.
ReceiveBody ==
    LET length == Announced
        number == Stoi(CHOOSE v \in length : TRUE)
    IN /\ pc = "parse" /\ state = "BODY"
       /\ IF length = {} THEN Fail /\ UNCHANGED state
          ELSE IF number.throws THEN pc' = "crashed" /\ UNCHANGED <<state, error>>
          ELSE IF Len(inBuffer) < number.n THEN Await /\ UNCHANGED state
          ELSE GoOn /\ state' = "ANALYSIS"
       /\ UNCHANGED <<wire, inBuffer, hState, method, headers, connectionState, history, answers>>

\* Slip: what is left is parsed when the next piece comes.
NextRequest_Waits == Await

\* If there is more input, handleRead calls itself, but not after the end of the stream.
NextRequest ==
    /\ pc' = IF inBuffer # <<>> /\ connectionState = "CONNECTED" THEN "again" ELSE "idle"
    /\ UNCHANGED error

\* analysisRequest answers a GET or a HEAD, and reset makes the parser ready for
\* the next request.  It fails on a POST.
Analyse ==
    LET ok == method # "POST"
    IN /\ pc = "parse" /\ state = "ANALYSIS"
       /\ answers' = IF ok THEN Append(answers, headers) ELSE answers
       /\ state' = IF ok THEN "URI" ELSE state
       /\ hState' = IF ok THEN "START" ELSE hState
       /\ headers' = IF ok THEN {} ELSE headers
       /\ IF ok THEN NextRequest ELSE Fail
       /\ UNCHANGED <<wire, inBuffer, method, connectionState, history>>

Parse == ParseURI \/ ParseHeaders \/ ReceiveBody \/ Analyse

Next == Arrive \/ Parse

Spec == Init /\ [][Next]_vars

-------------------------------------------------------------------------------
TypeOK ==
    /\ sent \in Streams
    /\ IsSuffix(wire, Wire(sent))
    /\ state \in {"URI", "HEADERS", "BODY", "ANALYSIS"}
    /\ hState \in {"START", "KEY", "COLON", "SPACES", "VALUE", "CR", "LF", "END_CR", "END_LF"}
    /\ method \in {"GET", "POST", "HEAD"}
    /\ error \in BOOLEAN /\ split \in BOOLEAN /\ joined \in BOOLEAN
    /\ connectionState \in {"CONNECTED", "DISCONNECTING"}
    /\ pc \in {"idle", "parse", "again", "crashed"}
    /\ \A p, q \in headers : p[1] = q[1] => p = q

\* Requests of the stream that have arrived completely.
Complete == Cardinality({n \in 1 .. Len(sent) : Len(Wire(SubSeq(sent, 1, n))) <= Received})

(***************************************************************************)
(* No answer comes before its request is complete, and none twice, however *)
(* the requests are cut into pieces.                                       *)
(***************************************************************************)
NoExtraAnswer == Len(answers) <= Complete

(***************************************************************************)
(* When every piece is one request, requests are answered in turn, with    *)
(* exactly the headers that they have, up to the first that is a POST.     *)
(***************************************************************************)
Exact ==
    ~split /\ ~joined =>
        /\ \A i \in DOMAIN answers : answers[i] = HeadersOf(sent[i])
        /\ (\A i \in 1 .. Complete : sent[i].method # POST)
               => ~error /\ (pc = "idle" => Len(answers) = Complete)

(***************************************************************************)
(* A header that is stored under a key that was sent has a value that was  *)
(* sent with this key, however the requests are cut into pieces.           *)
(***************************************************************************)
HeadersTrue ==
    LET pairs == UNION {HeadersOf(sent[i]) : i \in DOMAIN sent}
    IN \A p \in headers : (\E q \in pairs : q[1] = p[1]) => p \in pairs

(***************************************************************************)
(* Nothing but a length that is no number ends the process: stoi sees only *)
(* the text that the POST which is being read has sent as its length,      *)
(* however it is cut into pieces.                                          *)
(***************************************************************************)
CrashesOnlyOnBadLength ==
    pc = "crashed" =>
        LET r == sent[Len(answers) + 1]
        IN r.method = POST /\ \E h \in HeadersOf(r) : h[1] = <<"L">> /\ Stoi(h[2]).throws

(***************************************************************************)
(* A parser that waits for input has none that it could use: once all of a *)
(* stream without a POST has been handled, each request is answered or one *)
(* was refused.  What is lost is a request that came in one piece with     *)
(* another, and with the end of the stream.                                *)
(***************************************************************************)
NothingPending ==
    (/\ pc = "idle" /\ wire = <<>> /\ ~error
     /\ \A i \in DOMAIN sent : sent[i].method # POST)
       => Len(answers) = Len(sent) \/ (joined /\ connectionState = "DISCONNECTING")

\* README.md of version3.0 says, line 10, that pipelining is supported: requests
\* that are not cut into pieces are not refused when several come in one piece.
Pipelines == ~split /\ (\A i \in DOMAIN sent : sent[i].method # POST) => ~error
===============================================================================
