--------------------------- MODULE HttpParser_proofs ---------------------------
(***************************************************************************)
(* Theorems about HttpParser, for all streams of requests, of any number   *)
(* of headers of any length, that are cut into pieces in any way.          *)
(*                                                                         *)
(* The text of a request, and where its parts are in the stream; one step  *)
(* of the scan, and what it stores; the whole scan, which keeps track of   *)
(* its place in the request; the request line; the invariant, one lemma    *)
(* for each action; and the theorems.                                      *)
(***************************************************************************)
EXTENDS HttpParser, SequenceLemmas, FiniteSetTheorems

-------------------------------------------------------------------------------
(* The text of a request.                                                  *)

Colon == <<":", " ">>
Newline == <<"CR", "LF">>
FirstLine == <<Version, "CR", "LF">>

\* What the fixed parts of a request are made of.
LEMMA Symbols ==
    /\ Letters \subseteq Symbol /\ {"CR", "LF", ":", " ", "junk", Version} \subseteq Symbol
    /\ GET \in Seq(Symbol) /\ POST \in Seq(Symbol) /\ HEAD \in Seq(Symbol)
    /\ Len(GET) = 2 /\ Len(POST) = 2 /\ Len(HEAD) = 2
    /\ FirstLine \in Seq(Symbol) /\ Colon \in Seq(Symbol) /\ Newline \in Seq(Symbol)
    /\ Len(FirstLine) = 3 /\ Len(Colon) = 2 /\ Len(Newline) = 2
<1>1. Letters \subseteq Symbol /\ {"CR", "LF", ":", " ", "junk", Version} \subseteq Symbol
  BY DEF Symbol
<1>2. {"G", "ET", "P", "OST", "H", "EAD"} \subseteq Symbol
  BY DEF Symbol, ToSet, GET, POST, HEAD
<1>3. \A x, y, z \in Symbol : <<x, y>> \in Seq(Symbol) /\ Len(<<x, y>>) = 2
                                /\ <<x, y, z>> \in Seq(Symbol) /\ Len(<<x, y, z>>) = 3
  OBVIOUS
<1>4. /\ GET \in Seq(Symbol) /\ POST \in Seq(Symbol) /\ HEAD \in Seq(Symbol)
      /\ Len(GET) = 2 /\ Len(POST) = 2 /\ Len(HEAD) = 2
  BY <1>2, <1>3 DEF GET, POST, HEAD
<1>5. /\ FirstLine \in Seq(Symbol) /\ Colon \in Seq(Symbol) /\ Newline \in Seq(Symbol)
      /\ Len(FirstLine) = 3 /\ Len(Colon) = 2 /\ Len(Newline) = 2
  BY <1>1, <1>3 DEF FirstLine, Colon, Newline
<1> QED BY <1>1, <1>4, <1>5

\* Where line j of a request begins and ends, when it is seen from the start of the request.
Lines(r) == [i \in DOMAIN r.headers |-> Line(r.headers[i][1], r.headers[i][2])]
Upto(r, j) == 5 + LenFirst(Lines(r), j)
KeyLen(r, j) == Len(r.headers[j][1])
ValueLen(r, j) == Len(r.headers[j][2])
Count(r) == Len(r.headers)

\* A sequence over a set is one over every larger set.
LEMMA SymbolWords ==
    ASSUME NEW S, NEW T, S \subseteq T, NEW s \in Seq(S)
    PROVE  s \in Seq(T) /\ \A i \in DOMAIN s : s[i] \in S
BY LenProperties

\* A key has none of the symbols that delimit, a value none that ends a line.
LEMMA HeaderTypes ==
    ASSUME NEW h \in Header
    PROVE  /\ h[1] \in Seq(Symbol) /\ h[2] \in Seq(Symbol)
           /\ Len(h[1]) \in Nat \ {0} /\ Len(h[2]) \in Nat \ {0}
           /\ \A i \in 1 .. Len(h[1]) : h[1][i] \notin {"CR", "LF", ":", " ", "junk"}
           /\ \A i \in 1 .. Len(h[2]) : h[2][i] \notin {"CR", "LF"}
<1>0. /\ h[1] \in Seq(Letters) /\ h[1] # <<>>
      /\ h[2] \in Seq(Letters \cup {":", " "}) /\ h[2] # <<>>
  BY DEF Header, Word
<1>1. /\ h[1] \in Seq(Symbol) /\ \A i \in DOMAIN h[1] : h[1][i] \notin {"CR", "LF", ":", " ", "junk"}
      /\ h[2] \in Seq(Symbol) /\ \A i \in DOMAIN h[2] : h[2][i] \notin {"CR", "LF"}
  <2>1. Letters \subseteq Symbol /\ Letters \cup {":", " "} \subseteq Symbol
    BY Symbols
  <2>2. h[1] \in Seq(Symbol) /\ \A i \in DOMAIN h[1] : h[1][i] \in Letters
    BY <1>0, <2>1, SymbolWords
  <2>3. h[2] \in Seq(Symbol) /\ \A i \in DOMAIN h[2] : h[2][i] \in Letters \cup {":", " "}
    <3> DEFINE V == Letters \cup {":", " "}
    <3>1. h[2] \in Seq(V) /\ V \subseteq Symbol
      BY <1>0, <2>1
    <3> HIDE DEF V
    <3>2. h[2] \in Seq(Symbol) /\ \A i \in DOMAIN h[2] : h[2][i] \in V
      BY <3>1, SymbolWords
    <3> QED BY <3>2 DEF V
  <2>4. \A x \in Letters : x \notin {"CR", "LF", ":", " ", "junk"}
    BY LettersAssumption
  <2> QED BY <2>2, <2>3, <2>4
<1>2. DOMAIN h[1] = 1 .. Len(h[1]) /\ DOMAIN h[2] = 1 .. Len(h[2])
  BY <1>1, LenProperties
<1> QED BY <1>0, <1>1, <1>2, EmptySeq

\* The parts of a line, and where they are in it.
LEMMA LineText ==
    ASSUME NEW key \in Seq(Symbol), NEW value \in Seq(Symbol)
    PROVE  LET line == Line(key, value)
           IN  /\ line \in Seq(Symbol) /\ Len(line) = Len(key) + Len(value) + 4
               /\ Reads(line, 0, key) /\ Reads(line, Len(key), Colon)
               /\ Reads(line, Len(key) + 2, value)
               /\ Reads(line, Len(key) + Len(value) + 2, Newline)
<1> DEFINE u == key \o Colon
           v == u \o value
           line == v \o Newline
<1>0. /\ Colon \in Seq(Symbol) /\ Newline \in Seq(Symbol) /\ Len(Colon) = 2 /\ Len(Newline) = 2
      /\ Len(key) \in Nat /\ Len(value) \in Nat
  BY Symbols, LenProperties
<1>1. /\ u \in Seq(Symbol) /\ Len(u) = Len(key) + 2
      /\ Reads(u, 0, key) /\ Reads(u, Len(key), Colon)
  BY <1>0, ReadsConcat
<1> HIDE DEF u
<1>2. /\ v \in Seq(Symbol) /\ Len(v) = Len(key) + 2 + Len(value)
      /\ Reads(v, 0, u) /\ Reads(v, Len(key) + 2, value)
  <2>1. /\ v \in Seq(Symbol) /\ Len(v) = Len(u) + Len(value)
        /\ Reads(v, 0, u) /\ Reads(v, Len(u), value)
    BY <1>1, ReadsConcat
  <2> QED BY <1>1, <2>1
<1> HIDE DEF v
<1>3. /\ line \in Seq(Symbol) /\ Len(line) = Len(key) + Len(value) + 4
      /\ Reads(line, 0, v) /\ Reads(line, Len(key) + Len(value) + 2, Newline)
  <2>1. /\ line \in Seq(Symbol) /\ Len(line) = Len(v) + Len(Newline)
        /\ Reads(line, 0, v) /\ Reads(line, Len(v), Newline)
    BY <1>0, <1>2, ReadsConcat
  <2>2. Len(v) + Len(Newline) = Len(key) + Len(value) + 4 /\ Len(v) = Len(key) + Len(value) + 2
    BY <1>0, <1>2
  <2> QED BY <2>1, <2>2
<1> HIDE DEF line
<1>4. Reads(line, 0, u) /\ Reads(line, Len(key) + 2, value)
  <2>1. Reads(line, 0 + 0, u) /\ Reads(line, 0 + (Len(key) + 2), value)
    BY <1>0, <1>1, <1>2, <1>3, ReadsWithin
  <2> QED BY <1>0, <2>1
<1>5. Reads(line, 0, key) /\ Reads(line, Len(key), Colon)
  <2>1. Reads(line, 0 + 0, key) /\ Reads(line, 0 + Len(key), Colon)
    BY <1>0, <1>1, <1>3, <1>4, ReadsWithin
  <2> QED BY <1>0, <2>1
<1>6. line = Line(key, value)
  BY DEF Line, line, v, u, Colon, Newline
<1> QED BY <1>3, <1>4, <1>5, <1>6

\* What a request is made of.
LEMMA RequestTypes ==
    ASSUME NEW r \in Request
    PROVE  /\ r.method \in {GET, POST, HEAD} /\ r.headers \in Seq(Header) /\ r.body \in Seq(Symbol)
           /\ Count(r) \in Nat \ {0} /\ DOMAIN r.headers = 1 .. Count(r)
           /\ \A j \in 1 .. Count(r) : r.headers[j] \in Header
           /\ \A i, j \in 1 .. Count(r) : r.headers[i][1] = r.headers[j][1] => i = j
           /\ r.method # POST => r.body = <<>>
           /\ Lines(r) \in Seq(Seq(Symbol)) /\ Len(Lines(r)) = Count(r)
           /\ \A j \in 1 .. Count(r) : Lines(r)[j] = Line(r.headers[j][1], r.headers[j][2])
<1>1. /\ r.method \in {GET, POST, HEAD} /\ r.headers \in Seq(Header) /\ r.body \in Seq(Symbol)
      /\ r.headers # <<>> /\ (r.method # POST => r.body = <<>>)
      /\ \A i, j \in DOMAIN r.headers : r.headers[i][1] = r.headers[j][1] => i = j
  <2>1. r.body \in Seq(Letters)
    BY DEF Request
  <2>2. r.body \in Seq(Symbol)
    BY <2>1, Symbols, SymbolWords
  <2> QED BY <2>2 DEF Request, Word
<1>2. Count(r) \in Nat \ {0} /\ DOMAIN r.headers = 1 .. Count(r)
  BY <1>1, LenProperties, EmptySeq DEF Count
<1>3. \A j \in 1 .. Count(r) : r.headers[j] \in Header
  BY <1>1, <1>2, ElementOfSeq DEF Count
<1>4. \A j \in 1 .. Count(r) : Line(r.headers[j][1], r.headers[j][2]) \in Seq(Symbol)
  BY <1>3, HeaderTypes, LineText, Zenon
<1>5. Lines(r) = [j \in 1 .. Count(r) |-> Line(r.headers[j][1], r.headers[j][2])]
  BY <1>2 DEF Lines
<1>6. Lines(r) \in Seq(Seq(Symbol)) /\ Len(Lines(r)) = Count(r)
  BY <1>2, <1>4, <1>5
<1> QED BY <1>1, <1>2, <1>3, <1>5, <1>6

\* The lengths add up.
LEMMA Lengths ==
    ASSUME NEW r \in Request
    PROVE  /\ Upto(r, 0) = 5
           /\ \A j \in 0 .. Count(r) : Upto(r, j) \in Nat /\ Upto(r, j) <= Upto(r, Count(r))
           /\ \A j \in 1 .. Count(r) : /\ Upto(r, j) = Upto(r, j - 1) + KeyLen(r, j) + ValueLen(r, j) + 4
                                       /\ KeyLen(r, j) \in Nat \ {0} /\ ValueLen(r, j) \in Nat \ {0}
<1> DEFINE ss == Lines(r)
<1>1. /\ ss \in Seq(Seq(Symbol)) /\ Len(ss) = Count(r) /\ Count(r) \in Nat
      /\ \A j \in 1 .. Count(r) : ss[j] = Line(r.headers[j][1], r.headers[j][2]) /\ r.headers[j] \in Header
  BY RequestTypes
<1> HIDE DEF ss
<1>2. /\ LenFirst(ss, 0) = 0 /\ LenFirst(ss, Len(ss)) = Len(FlattenSeq(ss))
      /\ \A k \in 0 .. Len(ss) : LenFirst(ss, k) \in Nat /\ LenFirst(ss, k) <= Len(FlattenSeq(ss))
      /\ \A k \in 1 .. Len(ss) : LenFirst(ss, k) = LenFirst(ss, k - 1) + Len(ss[k])
  BY <1>1, ReadsFlatten
<1>3. \A j : Upto(r, j) = 5 + LenFirst(ss, j)
  BY DEF Upto, ss
<1>4. ASSUME NEW j \in 1 .. Count(r)
      PROVE  /\ Len(ss[j]) = KeyLen(r, j) + ValueLen(r, j) + 4
             /\ KeyLen(r, j) \in Nat \ {0} /\ ValueLen(r, j) \in Nat \ {0}
  BY <1>1, HeaderTypes, LineText DEF KeyLen, ValueLen
<1>5. ASSUME NEW j \in 0 .. Count(r) PROVE Upto(r, j) \in Nat /\ Upto(r, j) <= Upto(r, Count(r))
  BY <1>1, <1>2, <1>3
<1>6. ASSUME NEW j \in 1 .. Count(r)
      PROVE  Upto(r, j) = Upto(r, j - 1) + KeyLen(r, j) + ValueLen(r, j) + 4
  <2>1. LenFirst(ss, j) = LenFirst(ss, j - 1) + Len(ss[j]) /\ LenFirst(ss, j - 1) \in Nat
    BY <1>1, <1>2
  <2> QED BY <1>3, <1>4, <2>1
<1> QED BY <1>2, <1>3, <1>4, <1>5, <1>6

\* What a sequence reads that has the bytes of request r from b on.
Shows(w, b, r) ==
    /\ Reads(w, b, r.method) /\ Reads(w, b + 2, FirstLine)
    /\ \A j \in 1 .. Count(r) : Reads(w, b + Upto(r, j - 1), Line(r.headers[j][1], r.headers[j][2]))
    /\ Reads(w, b + Upto(r, Count(r)), Newline)

\* The bytes of a request show all of its parts.
LEMMA BytesText ==
    ASSUME NEW r \in Request
    PROVE  /\ Bytes(r) \in Seq(Symbol)
           /\ Len(Bytes(r)) = Upto(r, Count(r)) + 2 + Len(r.body)
           /\ Shows(Bytes(r), 0, r)
<1> DEFINE ss == Lines(r)
           f == FlattenSeq(ss)
           t == r.method \o FirstLine
           u == t \o f
           v == u \o Newline
           w == v \o r.body
<1>0. /\ FirstLine \in Seq(Symbol) /\ Newline \in Seq(Symbol) /\ Len(FirstLine) = 3 /\ Len(Newline) = 2
      /\ r.method \in Seq(Symbol) /\ Len(r.method) = 2 /\ r.body \in Seq(Symbol) /\ Len(r.body) \in Nat
      /\ ss \in Seq(Seq(Symbol)) /\ f \in Seq(Symbol) /\ Len(f) \in Nat /\ Len(ss) = Count(r)
  <2>1. /\ FirstLine \in Seq(Symbol) /\ Newline \in Seq(Symbol) /\ Len(FirstLine) = 3 /\ Len(Newline) = 2
        /\ r.method \in Seq(Symbol) /\ Len(r.method) = 2
    BY Symbols, RequestTypes
  <2>2. r.body \in Seq(Symbol) /\ ss \in Seq(Seq(Symbol)) /\ Len(ss) = Count(r)
    BY RequestTypes
  <2> HIDE DEF ss
  <2>3. f \in Seq(Symbol)
    BY <2>2, FlattenType
  <2> HIDE DEF f
  <2> QED BY <2>1, <2>2, <2>3, LenProperties
<1>1. Bytes(r) = w
  BY DEF Bytes, Lines, FirstLine, Newline
<1>2. Upto(r, Count(r)) = 5 + Len(f)
  BY <1>0, ReadsFlatten DEF Upto
<1> HIDE DEF f
<1>3. t \in Seq(Symbol) /\ Len(t) = 5 /\ Reads(t, 0, r.method) /\ Reads(t, 2, FirstLine)
  <2>1. t \in Seq(Symbol) /\ Len(t) = Len(r.method) + Len(FirstLine)
        /\ Reads(t, 0, r.method) /\ Reads(t, Len(r.method), FirstLine)
    BY <1>0, ReadsConcat
  <2> QED BY <1>0, <2>1
<1> HIDE DEF t
<1>4. u \in Seq(Symbol) /\ Len(u) = 5 + Len(f) /\ Reads(u, 0, t) /\ Reads(u, 5, f)
  <2>1. u \in Seq(Symbol) /\ Len(u) = Len(t) + Len(f) /\ Reads(u, 0, t) /\ Reads(u, Len(t), f)
    BY <1>0, <1>3, ReadsConcat
  <2> QED BY <1>3, <2>1
<1> HIDE DEF u
<1>5. v \in Seq(Symbol) /\ Len(v) = 5 + Len(f) + 2 /\ Reads(v, 0, u) /\ Reads(v, 5 + Len(f), Newline)
  <2>1. v \in Seq(Symbol) /\ Len(v) = Len(u) + Len(Newline) /\ Reads(v, 0, u) /\ Reads(v, Len(u), Newline)
    BY <1>0, <1>4, ReadsConcat
  <2> QED BY <1>0, <1>4, <2>1
<1> HIDE DEF v
<1>6. w \in Seq(Symbol) /\ Len(w) = 5 + Len(f) + 2 + Len(r.body) /\ Reads(w, 0, v)
  <2>1. w \in Seq(Symbol) /\ Len(w) = Len(v) + Len(r.body) /\ Reads(w, 0, v)
    BY <1>0, <1>5, ReadsConcat
  <2> QED BY <1>5, <2>1
<1> HIDE DEF w
<1>7. Reads(w, 0, u) /\ Reads(w, 5 + Len(f), Newline)
  <2>1. Reads(w, 0 + 0, u) /\ Reads(w, 0 + (5 + Len(f)), Newline)
    BY <1>0, <1>4, <1>5, <1>6, ReadsWithin
  <2> QED BY <1>0, <2>1
<1>8. Reads(w, 0, t) /\ Reads(w, 5, f)
  <2>1. Reads(w, 0 + 0, t) /\ Reads(w, 0 + 5, f)
    BY <1>0, <1>3, <1>4, <1>6, <1>7, ReadsWithin
  <2> QED BY <2>1
<1>9. Reads(w, 0, r.method) /\ Reads(w, 2, FirstLine)
  <2>1. Reads(w, 0 + 0, r.method) /\ Reads(w, 0 + 2, FirstLine)
    BY <1>0, <1>3, <1>6, <1>8, ReadsWithin
  <2> QED BY <2>1
<1>10. ASSUME NEW j \in 1 .. Count(r)
       PROVE  Reads(w, Upto(r, j - 1), Line(r.headers[j][1], r.headers[j][2]))
  <2>1. ss[j] = Line(r.headers[j][1], r.headers[j][2]) /\ ss[j] \in Seq(Symbol)
    BY <1>0, RequestTypes, ElementOfSeq
  <2>2. Reads(f, LenFirst(ss, j - 1), ss[j]) /\ LenFirst(ss, j - 1) \in Nat
    <3>1. j \in 1 .. Len(ss) /\ j - 1 \in 0 .. Len(ss)
      BY <1>0, RequestTypes
    <3> QED BY <1>0, <3>1, ReadsFlatten DEF f
  <2>3. Reads(w, 5 + LenFirst(ss, j - 1), ss[j])
    BY <1>0, <1>6, <1>8, <2>1, <2>2, ReadsWithin
  <2> QED BY <2>1, <2>3 DEF Upto
<1>11. Shows(w, 0, r)
  <2>1. \A j \in 0 .. Count(r) : Upto(r, j) \in Nat
    BY Lengths
  <2>2. Count(r) \in Nat
    BY RequestTypes
  <2>3. \A x \in Nat : 0 + x = x
    OBVIOUS
  <2>4. \A j \in 1 .. Count(r) : 0 + Upto(r, j - 1) = Upto(r, j - 1)
    <3>1. \A j \in 1 .. Count(r) : j - 1 \in 0 .. Count(r)
      BY <2>2
    <3> QED BY <2>1, <2>3, <3>1
  <2>5. 0 + Upto(r, Count(r)) = Upto(r, Count(r)) /\ 0 + 2 = 2
    BY <2>1, <2>2
  <2> QED BY <1>2, <1>7, <1>9, <1>10, <2>4, <2>5 DEF Shows
<1> QED BY <1>1, <1>2, <1>6, <1>11

-------------------------------------------------------------------------------
(* The text of a stream.                                                   *)

\* Where request k ends.
Before(rs, k) == Len(Wire(SubSeq(rs, 1, k)))

Texts(rs) == [i \in DOMAIN rs |-> Bytes(rs[i])]

\* The wire shows one request after the other.
LEMMA WireText ==
    ASSUME NEW rs \in Seq(Request)
    PROVE  /\ Wire(rs) \in Seq(Symbol) /\ Len(rs) \in Nat
           /\ Before(rs, 0) = 0 /\ Before(rs, Len(rs)) = Len(Wire(rs))
           /\ \A k \in 0 .. Len(rs) : Before(rs, k) \in Nat /\ Before(rs, k) <= Len(Wire(rs))
           /\ \A k \in 1 .. Len(rs) :
                 /\ rs[k] \in Request
                 /\ Before(rs, k) = Before(rs, k - 1) + Upto(rs[k], Count(rs[k])) + 2 + Len(rs[k].body)
                 /\ Before(rs, k - 1) < Before(rs, k)
                 /\ Shows(Wire(rs), Before(rs, k - 1), rs[k])
<1> DEFINE ss == Texts(rs)
           w == Wire(rs)
<1>1. /\ Len(rs) \in Nat /\ DOMAIN rs = 1 .. Len(rs)
      /\ \A k \in 1 .. Len(rs) : rs[k] \in Request
  BY LenProperties, ElementOfSeq
<1>2. /\ ss \in Seq(Seq(Symbol)) /\ Len(ss) = Len(rs)
      /\ \A k \in 1 .. Len(rs) : ss[k] = Bytes(rs[k])
  <2>1. ss = [k \in 1 .. Len(rs) |-> Bytes(rs[k])]
    BY <1>1 DEF Texts
  <2>2. \A k \in 1 .. Len(rs) : Bytes(rs[k]) \in Seq(Symbol)
    BY <1>1, BytesText
  <2> QED BY <1>1, <2>1, <2>2
<1>3. w = FlattenSeq(ss)
  BY DEF Wire, Texts
<1>4. ASSUME NEW k \in 0 .. Len(rs) PROVE Before(rs, k) = LenFirst(ss, k)
  <2> DEFINE tt == SubSeq(rs, 1, k)
  <2>1. tt \in Seq(Request) /\ Len(tt) = k /\ \A i \in 1 .. k : tt[i] = rs[i]
    BY PrefixProperties
  <2>2. DOMAIN tt = 1 .. k /\ 1 .. k \subseteq 1 .. Len(rs)
    BY <1>1, <2>1, LenProperties
  <2> HIDE DEF tt
  <2>3. Texts(tt) = [i \in 1 .. k |-> Bytes(rs[i])]
    BY <2>1, <2>2 DEF Texts
  <2>4. SubSeq(ss, 1, k) = Texts(tt)
    <3>1. k \in 0 .. Len(ss)
      BY <1>2
    <3>2. /\ SubSeq(ss, 1, k) \in Seq(Seq(Symbol)) /\ Len(SubSeq(ss, 1, k)) = k
          /\ \A i \in 1 .. k : SubSeq(ss, 1, k)[i] = ss[i]
      BY <1>2, <3>1, PrefixProperties
    <3>3. \A i \in 1 .. k : ss[i] = Bytes(rs[i]) /\ ss[i] \in Seq(Symbol)
      BY <1>2, <2>2, ElementOfSeq
    <3>4. k \in Nat
      OBVIOUS
    <3> HIDE DEF ss
    <3>5. Texts(tt) \in Seq(Seq(Symbol)) /\ Len(Texts(tt)) = k
          /\ \A i \in 1 .. k : Texts(tt)[i] = ss[i]
      BY <2>3, <3>3, <3>4
    <3>6. \A i \in 1 .. k : SubSeq(ss, 1, k)[i] = Texts(tt)[i]
      BY <3>2, <3>5
    <3> QED BY <3>2, <3>5, <3>6, SeqEqual
  <2> QED BY <2>4 DEF Before, Wire, Texts, LenFirst, tt
<1> HIDE DEF ss
<1>5. /\ w \in Seq(Symbol)
      /\ LenFirst(ss, 0) = 0 /\ LenFirst(ss, Len(rs)) = Len(w)
      /\ \A k \in 0 .. Len(rs) : LenFirst(ss, k) \in Nat /\ LenFirst(ss, k) <= Len(w)
      /\ \A k \in 1 .. Len(rs) : /\ LenFirst(ss, k) = LenFirst(ss, k - 1) + Len(ss[k])
                                 /\ Reads(w, LenFirst(ss, k - 1), ss[k])
  BY <1>2, <1>3, ReadsFlatten, FlattenType
<1> HIDE DEF w
<1>6. Before(rs, 0) = 0 /\ Before(rs, Len(rs)) = Len(w)
      /\ \A k \in 0 .. Len(rs) : Before(rs, k) \in Nat /\ Before(rs, k) <= Len(w)
  <2>1. 0 \in 0 .. Len(rs) /\ Len(rs) \in 0 .. Len(rs)
    BY <1>1
  <2> QED BY <1>4, <1>5, <2>1
<1>7. ASSUME NEW k \in 1 .. Len(rs)
      PROVE  /\ Before(rs, k) = Before(rs, k - 1) + Upto(rs[k], Count(rs[k])) + 2 + Len(rs[k].body)
             /\ Before(rs, k - 1) < Before(rs, k)
             /\ Shows(w, Before(rs, k - 1), rs[k])
  <2> DEFINE r == rs[k]
             b == Before(rs, k - 1)
  <2>1. k - 1 \in 0 .. Len(rs) /\ k \in 0 .. Len(rs) /\ r \in Request
    BY <1>1
  <2>2. /\ Bytes(r) \in Seq(Symbol) /\ Shows(Bytes(r), 0, r)
        /\ Len(Bytes(r)) = Upto(r, Count(r)) + 2 + Len(r.body)
    BY <2>1, BytesText
  <2>3. b \in Nat /\ Reads(w, b, Bytes(r)) /\ Before(rs, k) = b + Len(Bytes(r))
    BY <1>2, <1>4, <1>5, <1>6, <2>1
  <2> HIDE DEF b, r
  <2>4. /\ Count(r) \in Nat \ {0} /\ r.method \in Seq(Symbol) /\ Len(r.body) \in Nat
        /\ \A j \in 0 .. Count(r) : Upto(r, j) \in Nat
        /\ \A j \in 1 .. Count(r) : Line(r.headers[j][1], r.headers[j][2]) \in Seq(Symbol)
    <3>1. Count(r) \in Nat \ {0} /\ r.method \in Seq(Symbol) /\ Len(r.body) \in Nat
      BY <2>1, RequestTypes, Symbols, LenProperties
    <3>2. \A j \in 0 .. Count(r) : Upto(r, j) \in Nat
      BY <2>1, Lengths
    <3>3. \A j \in 1 .. Count(r) : Line(r.headers[j][1], r.headers[j][2]) \in Seq(Symbol)
      <4>1. \A j \in 1 .. Count(r) : r.headers[j][1] \in Seq(Symbol) /\ r.headers[j][2] \in Seq(Symbol)
        BY <2>1, RequestTypes, HeaderTypes, Zenon
      <4> QED BY <4>1, LineText, Zenon
    <3> QED BY <3>1, <3>2, <3>3
  <2>5. ASSUME NEW q \in Nat, NEW t \in Seq(Symbol), Reads(Bytes(r), 0 + q, t)
        PROVE  Reads(w, b + q, t)
    <3>1. 0 + q = q
      OBVIOUS
    <3> QED BY <1>5, <2>2, <2>3, <2>5, <3>1, ReadsWithin
  <2>6. Reads(w, b, r.method)
    <3>1. Reads(w, b + 0, r.method)
      BY <2>2, <2>4, <2>5 DEF Shows
    <3> QED BY <2>3, <3>1
  <2>7. Reads(w, b + 2, FirstLine)
    BY <2>2, <2>5, Symbols DEF Shows
  <2>8. Reads(w, b + Upto(r, Count(r)), Newline)
    <3>1. Count(r) \in 0 .. Count(r)
      BY <2>4
    <3> QED BY <2>2, <2>4, <2>5, <3>1, Symbols DEF Shows
  <2>9. ASSUME NEW j \in 1 .. Count(r)
        PROVE  Reads(w, b + Upto(r, j - 1), Line(r.headers[j][1], r.headers[j][2]))
    <3>1. j - 1 \in 0 .. Count(r)
      BY <2>4
    <3> QED BY <2>2, <2>4, <2>5, <3>1 DEF Shows
  <2>10. Shows(w, b, r)
    BY <2>6, <2>7, <2>8, <2>9 DEF Shows
  <2>11. Upto(r, Count(r)) \in Nat /\ Len(r.body) \in Nat
    BY <2>4
  <2>12. Before(rs, k) = b + Upto(r, Count(r)) + 2 + Len(r.body) /\ b < Before(rs, k)
    <3>1. \A x, y, z \in Nat : z + (x + 2 + y) = z + x + 2 + y /\ z < z + (x + 2 + y)
      OBVIOUS
    <3>2. b + (Upto(r, Count(r)) + 2 + Len(r.body)) = b + Upto(r, Count(r)) + 2 + Len(r.body)
          /\ b < b + (Upto(r, Count(r)) + 2 + Len(r.body))
      BY <2>3, <2>11, <3>1, Zenon
    <3> QED BY <2>2, <2>3, <3>2, Zenon
  <2> QED BY <2>10, <2>12 DEF b, r
<1> QED BY <1>1, <1>5, <1>6, <1>7 DEF w

\* Requests follow one another.
LEMMA InTurn ==
    ASSUME NEW rs \in Seq(Request), NEW i \in 0 .. Len(rs), NEW j \in 0 .. Len(rs)
    PROVE  /\ i <= j => Before(rs, i) <= Before(rs, j)
           /\ i < j => Before(rs, i) < Before(rs, j)
<1> DEFINE T == {m \in 0 .. Len(rs) - i : m = 0 \/ Before(rs, i) < Before(rs, i + m)}
<1>0. Len(rs) \in Nat /\ Len(rs) - i \in Nat
  BY WireText
<1>1. 0 \in T
  BY <1>0
<1>2. ASSUME NEW m \in 1 .. Len(rs) - i, m - 1 \in T PROVE m \in T
  <2>1. i + m \in 1 .. Len(rs) /\ (i + m) - 1 = i + (m - 1) /\ i + (m - 1) \in 0 .. Len(rs)
        /\ m \in 0 .. Len(rs) - i
    BY <1>0
  <2>2. PICK k \in 1 .. Len(rs) : k = i + m
    BY <2>1
  <2>3. Before(rs, k - 1) < Before(rs, k) /\ Before(rs, k - 1) \in Nat /\ Before(rs, k) \in Nat
        /\ Before(rs, i) \in Nat
    <3>1. k \in 0 .. Len(rs) /\ k - 1 \in 0 .. Len(rs)
      BY <1>0
    <3> QED BY <3>1, WireText
  <2>4. k - 1 = i + (m - 1) /\ (m - 1 = 0 => k - 1 = i)
    BY <2>1, <2>2
  <2>5. m - 1 = 0 \/ Before(rs, i) < Before(rs, k - 1)
    BY <1>2, <2>4
  <2>6. Before(rs, i) < Before(rs, k)
    BY <2>3, <2>4, <2>5
  <2> QED BY <2>1, <2>2, <2>6
<1>3. 0 .. Len(rs) - i \subseteq T
  <2> HIDE DEF T
  <2> QED BY <1>0, <1>1, <1>2, UpTo
<1>4. ASSUME i < j PROVE Before(rs, i) < Before(rs, j)
  <2>1. PICK m \in 1 .. Len(rs) - i : j = i + m
    BY <1>0, <1>4
  <2>2. m \in 0 .. Len(rs) - i /\ m # 0
    BY <1>0
  <2>3. m \in T
    BY <1>3, <2>2
  <2> QED BY <2>1, <2>2, <2>3
<1>5. Before(rs, i) \in Nat /\ Before(rs, j) \in Nat /\ i \in Nat /\ j \in Nat
  BY WireText
<1>6. i = j \/ i < j \/ i > j
  OBVIOUS
<1> QED BY <1>4, <1>5, <1>6

\* The parts of a header in the text.
ShowsHeader(w, b, r, j) ==
    LET p == b + Upto(r, j - 1)
        q == p + KeyLen(r, j) + 2
    IN  /\ Reads(w, p, r.headers[j][1]) /\ Reads(w, p + KeyLen(r, j), Colon)
        /\ Reads(w, q, r.headers[j][2]) /\ Reads(w, q + ValueLen(r, j), Newline)

\* What shows a request shows the parts of each of its headers.
LEMMA HeaderText ==
    ASSUME NEW r \in Request, NEW w \in Seq(Symbol), NEW b \in Nat, Shows(w, b, r),
           NEW j \in 1 .. Count(r)
    PROVE  ShowsHeader(w, b, r, j)
<1> DEFINE key == r.headers[j][1]
           value == r.headers[j][2]
           line == Line(key, value)
           p == b + Upto(r, j - 1)
           m == Len(key)
           n == Len(value)
<1>1. key \in Seq(Symbol) /\ value \in Seq(Symbol) /\ m \in Nat /\ n \in Nat
  BY RequestTypes, HeaderTypes
<1>2. p \in Nat /\ Reads(w, p, line)
  <2>1. j - 1 \in 0 .. Count(r)
    BY RequestTypes
  <2> QED BY <2>1, Lengths DEF Shows
<1> HIDE DEF key, value, p, m, n
<1>3. /\ line \in Seq(Symbol)
      /\ Reads(line, 0, key) /\ Reads(line, m, Colon)
      /\ Reads(line, m + 2, value) /\ Reads(line, m + n + 2, Newline)
  BY <1>1, LineText DEF m, n
<1> HIDE DEF line
<1>4. ASSUME NEW t \in Seq(Symbol), NEW q \in Nat, Reads(line, q, t), NEW x, x = p + q
      PROVE  Reads(w, x, t)
  BY <1>2, <1>3, <1>4, ReadsWithin
<1>5. /\ 0 \in Nat /\ m + 2 \in Nat /\ m + n + 2 \in Nat
      /\ p = p + 0 /\ p + m + 2 = p + (m + 2) /\ p + m + 2 + n = p + (m + n + 2)
  BY <1>1, <1>2
<1>6. Reads(w, p, key)
  BY <1>1, <1>3, <1>4, <1>5, Zenon
<1>7. Reads(w, p + m, Colon)
  BY <1>1, <1>3, <1>4, Symbols, Zenon
<1>8. Reads(w, p + m + 2, value)
  BY <1>1, <1>3, <1>4, <1>5, Zenon
<1>9. Reads(w, p + m + 2 + n, Newline)
  BY <1>3, <1>4, <1>5, Symbols, Zenon
<1> QED BY <1>6, <1>7, <1>8, <1>9 DEF ShowsHeader, KeyLen, ValueLen, p, m, n, key, value

-------------------------------------------------------------------------------
(* The invariant.                                                          *)

\* How much of the stream has left the buffer; the request that is being read; where it
\* begins; and where the symbols of the buffer are in it.
Gone == Received - Len(inBuffer)
Asked == sent[Len(answers) + 1]
Start == Before(sent, Len(answers))
Offset(i) == Gone + i - Start

\* What is in the buffer and on the wire is a part of the stream.
Window == /\ sent \in Seq(Request)
          /\ wire \in Seq(Symbol) /\ inBuffer \in Seq(Symbol)
          /\ Received \in Nat /\ Gone \in Nat
          /\ \A i \in 1 .. Len(wire) : wire[i] = Wire(sent)[Received + i]
          /\ \A i \in 1 .. Len(inBuffer) : inBuffer[i] = Wire(sent)[Gone + i]

\* The request that is being read.
N == Count(Asked)
U(j) == Upto(Asked, j)
K(j) == KeyLen(Asked, j)
V(j) == ValueLen(Asked, j)
More == Len(answers) \in Nat /\ Len(answers) < Len(sent)

\* The sizes of the request that is being read.
LEMMA Sizes ==
    ASSUME Window, More
    PROVE  /\ Asked \in Request /\ Start \in Nat /\ Shows(Wire(sent), Start, Asked)
           /\ N \in Nat \ {0} /\ U(0) = 5
           /\ \A j \in 0 .. N : U(j) \in Nat /\ U(j) <= U(N)
           /\ \A j \in 1 .. N : /\ U(j) = U(j - 1) + K(j) + V(j) + 4
                                /\ K(j) \in Nat \ {0} /\ V(j) \in Nat \ {0}
           /\ Before(sent, Len(answers) + 1) = Start + U(N) + 2 + Len(Asked.body)
           /\ Len(Asked.body) \in Nat
<1> DEFINE k == Len(answers) + 1
<1>1. k \in 1 .. Len(sent) /\ k - 1 = Len(answers) /\ k - 1 \in 0 .. Len(sent) /\ Asked = sent[k]
  BY WireText DEF Window, More, Asked
<1>2. /\ Asked \in Request /\ Start \in Nat /\ Shows(Wire(sent), Start, Asked)
      /\ Before(sent, k) = Start + U(N) + 2 + Len(Asked.body)
  BY <1>1, WireText DEF Window, Start, U, N
<1>3. Len(Asked.body) \in Nat /\ N \in Nat \ {0}
  BY <1>2, RequestTypes, LenProperties DEF N
<1>4. /\ U(0) = 5
      /\ \A j \in 0 .. N : U(j) \in Nat /\ U(j) <= U(N)
      /\ \A j \in 1 .. N : /\ U(j) = U(j - 1) + K(j) + V(j) + 4
                           /\ K(j) \in Nat \ {0} /\ V(j) \in Nat \ {0}
  BY <1>2, Lengths DEF U, N, K, V
<1> QED BY <1>2, <1>3, <1>4

\* What the symbols of the buffer are, by their places in the request.
LEMMA SeenIn ==
    ASSUME Window, Start \in Nat, NEW p \in Nat, NEW s \in Seq(Symbol), Reads(Wire(sent), Start + p, s),
           NEW i \in 1 .. Len(inBuffer), NEW k \in 1 .. Len(s), Offset(i) = p + k
    PROVE  inBuffer[i] = s[k]
<1>1. Gone \in Nat /\ Len(s) \in Nat /\ Len(inBuffer) \in Nat
  BY LenProperties DEF Window
<1>2. Gone + i = Start + p + k
  BY <1>1 DEF Offset
<1>3. Wire(sent)[Start + p + k] = s[k]
  BY DEF Reads
<1>4. inBuffer[i] = Wire(sent)[Gone + i]
  BY DEF Window
<1> QED BY <1>2, <1>3, <1>4

\* The symbols of the buffer, and the places that they have in the request.
LEMMA Places ==
    ASSUME Window, NEW i \in 1 .. Len(inBuffer), Start \in Nat
    PROVE  inBuffer[i] \in Symbol /\ Offset(i) \in Int
BY ElementOfSeq, LenProperties DEF Window, Offset

\* The request line, and the empty line at the end.
LEMMA SeenLine ==
    ASSUME Window, Start \in Nat, NEW s \in Seq(Symbol), NEW p \in Nat, Reads(Wire(sent), Start + p, s),
           NEW i \in 1 .. Len(inBuffer), NEW k \in 1 .. Len(s), NEW o, o = p + k
    PROVE  Offset(i) = o => inBuffer[i] = s[k]
BY SeenIn

\* The symbols of the first line and of the end of the headers.
LEMMA Seen ==
    ASSUME Window, More, NEW i \in 1 .. Len(inBuffer)
    PROVE  /\ Offset(i) = 1 => inBuffer[i] = Asked.method[1]
           /\ Offset(i) = 2 => inBuffer[i] = Asked.method[2]
           /\ Offset(i) = 3 => inBuffer[i] = Version
           /\ Offset(i) = 4 => inBuffer[i] = "CR"
           /\ Offset(i) = 5 => inBuffer[i] = "LF"
           /\ Offset(i) = U(N) + 1 => inBuffer[i] = "CR"
           /\ Offset(i) = U(N) + 2 => inBuffer[i] = "LF"
<1>1. Start \in Nat /\ U(N) \in Nat
  <2>1. N \in 0 .. N
    BY Sizes
  <2> QED BY <2>1, Sizes
<1>2. Shows(Wire(sent), Start, Asked)
  BY Sizes
<1>3. Reads(Wire(sent), Start + 0, Asked.method)
  <2>1. Start + 0 = Start
    BY <1>1
  <2> QED BY <1>2, <2>1 DEF Shows
<1>4. Reads(Wire(sent), Start + 2, FirstLine)
  BY <1>2 DEF Shows
<1>5. Reads(Wire(sent), Start + U(N), Newline)
  BY <1>2 DEF Shows, U, N
<1>6. Asked.method \in Seq(Symbol) /\ Len(Asked.method) = 2
  <2>1. Asked.method \in {GET, POST, HEAD}
    BY Sizes, RequestTypes
  <2> QED BY <2>1, Symbols
<1>7. ASSUME NEW k \in 1 .. 2 PROVE Offset(i) = k => inBuffer[i] = Asked.method[k]
  <2>1. k \in 1 .. Len(Asked.method) /\ k = 0 + k /\ 0 \in Nat
    BY <1>6
  <2>2. Asked.method \in Seq(Symbol)
    BY <1>6
  <2> DEFINE s == Asked.method
  <2>3. s \in Seq(Symbol) /\ k \in 1 .. Len(s) /\ Reads(Wire(sent), Start + 0, s)
    BY <1>3, <2>1, <2>2
  <2> HIDE DEF s
  <2>4. Offset(i) = k => inBuffer[i] = s[k]
    BY <1>1, <2>1, <2>3, SeenLine
  <2> QED BY <2>4 DEF s
<1>8. ASSUME NEW k \in 1 .. 3 PROVE Offset(i) = k + 2 => inBuffer[i] = FirstLine[k]
  <2>1. FirstLine \in Seq(Symbol) /\ Len(FirstLine) = 3
    BY Symbols
  <2>2. k \in 1 .. Len(FirstLine) /\ k + 2 = 2 + k /\ 2 \in Nat
    BY <2>1
  <2>3. FirstLine \in Seq(Symbol)
    BY <2>1
  <2> QED BY <1>1, <1>4, <2>2, <2>3, SeenLine
<1>9. ASSUME NEW k \in 1 .. 2 PROVE Offset(i) = U(N) + k => inBuffer[i] = Newline[k]
  <2>1. Newline \in Seq(Symbol) /\ Len(Newline) = 2
    BY Symbols
  <2>2. k \in 1 .. Len(Newline)
    BY <2>1
  <2> QED BY <1>1, <1>5, <2>1, <2>2, SeenLine
<1>10. FirstLine[1] = Version /\ FirstLine[2] = "CR" /\ FirstLine[3] = "LF"
  BY DEF FirstLine
<1>11. Newline[1] = "CR" /\ Newline[2] = "LF"
  BY DEF Newline
<1>12. /\ Offset(i) = 1 => inBuffer[i] = Asked.method[1]
       /\ Offset(i) = 2 => inBuffer[i] = Asked.method[2]
  BY <1>7
<1>13. /\ Offset(i) = 3 => inBuffer[i] = FirstLine[1]
       /\ Offset(i) = 4 => inBuffer[i] = FirstLine[2]
       /\ Offset(i) = 5 => inBuffer[i] = FirstLine[3]
  BY <1>8
<1>14. /\ Offset(i) = U(N) + 1 => inBuffer[i] = Newline[1]
       /\ Offset(i) = U(N) + 2 => inBuffer[i] = Newline[2]
  BY <1>9
<1> QED BY <1>10, <1>11, <1>12, <1>13, <1>14, Zenon

\* A place in a part of the text.
LEMMA Inside ==
    ASSUME NEW x \in Int, NEW a \in Nat, NEW n \in Nat, a < x, x <= a + n
    PROVE  \E k \in 1 .. n : x = a + k
<1>1. x - a \in 1 .. n /\ x = a + (x - a)
  OBVIOUS
<1> QED BY <1>1

\* A symbol of the buffer whose place is in a part is one of this part.
LEMMA SeenWord ==
    ASSUME Window, Start \in Nat, NEW s \in Seq(Symbol), NEW p \in Nat, Reads(Wire(sent), Start + p, s),
           NEW i \in 1 .. Len(inBuffer), p < Offset(i), Offset(i) <= p + Len(s)
    PROVE  \E k \in 1 .. Len(s) : Offset(i) = p + k /\ inBuffer[i] = s[k]
<1>1. PICK k \in 1 .. Len(s) : Offset(i) = p + k
  <2>1. Offset(i) \in Int /\ Len(s) \in Nat
    BY Places, LenProperties
  <2> QED BY <2>1, Inside
<1> QED BY <1>1, SeenIn

\* The same of a part of two symbols.
LEMMA SeenPair ==
    ASSUME Window, Start \in Nat, NEW s \in {Colon, Newline}, NEW p \in Nat, Reads(Wire(sent), Start + p, s),
           NEW i \in 1 .. Len(inBuffer)
    PROVE  /\ Offset(i) = p + 1 => inBuffer[i] = s[1]
           /\ Offset(i) = p + 2 => inBuffer[i] = s[2]
<1>1. s \in Seq(Symbol) /\ Len(s) = 2
  BY Symbols
<1>2. 1 \in 1 .. Len(s) /\ 2 \in 1 .. Len(s)
  BY <1>1
<1> QED BY <1>1, <1>2, SeenIn

\* The line of a header.
LEMMA SeenHeader ==
    ASSUME Window, More, NEW i \in 1 .. Len(inBuffer), NEW j \in 1 .. N
    PROVE  /\ U(j - 1) < Offset(i) /\ Offset(i) <= U(j - 1) + K(j)
                => inBuffer[i] \notin {"CR", "LF", ":", " "}
           /\ Offset(i) = U(j - 1) + K(j) + 1 => inBuffer[i] = ":"
           /\ Offset(i) = U(j - 1) + K(j) + 2 => inBuffer[i] = " "
           /\ U(j - 1) + K(j) + 2 < Offset(i) /\ Offset(i) < U(j) - 1
                => inBuffer[i] \notin {"CR", "LF"}
           /\ Offset(i) = U(j) - 1 => inBuffer[i] = "CR"
           /\ Offset(i) = U(j) => inBuffer[i] = "LF"
<1> DEFINE w == Wire(sent)
           r == Asked
           key == r.headers[j][1]
           value == r.headers[j][2]
<1>1. Start \in Nat /\ Offset(i) \in Int
  BY Sizes, Places
<1>2. PICK b \in Nat, o \in Int : b = Start /\ o = Offset(i)
  BY <1>1
<1>3. PICK u \in Nat, k \in Nat, n \in Nat :
          u = U(j - 1) /\ k = K(j) /\ n = V(j) /\ U(j) = u + k + n + 4
  <2>1. j - 1 \in 0 .. N
    BY Sizes
  <2> QED BY <2>1, Sizes
<1>4. /\ key \in Seq(Symbol) /\ value \in Seq(Symbol) /\ Len(key) = k /\ Len(value) = n
      /\ \A m \in 1 .. Len(key) : key[m] \notin {"CR", "LF", ":", " "}
      /\ \A m \in 1 .. Len(value) : value[m] \notin {"CR", "LF"}
  <2>1. r.headers[j] \in Header
    BY Sizes, RequestTypes DEF N
  <2>2. Len(key) = k /\ Len(value) = n
    BY <1>3 DEF K, V, KeyLen, ValueLen
  <2>3. /\ key \in Seq(Symbol) /\ \A m \in 1 .. Len(key) : key[m] \notin {"CR", "LF", ":", " ", "junk"}
        /\ value \in Seq(Symbol) /\ \A m \in 1 .. Len(value) : value[m] \notin {"CR", "LF"}
    BY <2>1, HeaderTypes
  <2> QED BY <2>2, <2>3
<1>5. ShowsHeader(w, b, r, j)
  <2>1. r \in Request /\ Shows(w, b, r) /\ j \in 1 .. Count(r)
    BY <1>2, Sizes DEF N
  <2>2. w \in Seq(Symbol)
    BY WireText DEF Window
  <2> QED BY <2>1, <2>2, HeaderText
<1>6. /\ Reads(w, b + u, key) /\ Reads(w, b + u + k, Colon)
      /\ Reads(w, b + u + k + 2, value) /\ Reads(w, b + u + k + 2 + n, Newline)
  BY <1>3, <1>5 DEF ShowsHeader, U, K, V
<1>7. b + u + k = b + (u + k) /\ b + u + k + 2 = b + (u + k + 2)
      /\ b + u + k + 2 + n = b + (u + k + 2 + n)
  OBVIOUS
<1>8. /\ Reads(w, b + u, key) /\ Reads(w, b + (u + k), Colon)
      /\ Reads(w, b + (u + k + 2), value) /\ Reads(w, b + (u + k + 2 + n), Newline)
  BY <1>6, <1>7, Zenon
<1> HIDE DEF w, r, key, value
<1>9. ASSUME u < o, o <= u + k PROVE inBuffer[i] \notin {"CR", "LF", ":", " "}
  <2>1. u < Offset(i) /\ Offset(i) <= u + Len(key) /\ key \in Seq(Symbol)
    BY <1>2, <1>4, <1>9
  <2>2. Reads(Wire(sent), Start + u, key)
    BY <1>2, <1>8 DEF w
  <2>3. PICK m \in 1 .. Len(key) : inBuffer[i] = key[m]
    BY <1>1, <2>1, <2>2, SeenWord
  <2> QED BY <1>4, <2>3
<1>10. ASSUME u + k + 2 < o, o < u + k + n + 3 PROVE inBuffer[i] \notin {"CR", "LF"}
  <2>0. Len(value) = n /\ value \in Seq(Symbol)
    BY <1>4
  <2>1. u + k + 2 \in Nat /\ u + k + 2 < o /\ o <= u + k + 2 + n
    BY <1>10
  <2>2. Reads(Wire(sent), Start + (u + k + 2), value)
    BY <1>2, <1>8 DEF w
  <2>3. PICK m \in 1 .. Len(value) : inBuffer[i] = value[m]
    BY <1>1, <1>2, <2>0, <2>1, <2>2, SeenWord
  <2> QED BY <1>4, <2>3
<1>11. (o = u + k + 1 => inBuffer[i] = ":") /\ (o = u + k + 2 => inBuffer[i] = " ")
  <2>1. u + k \in Nat /\ Colon \in {Colon, Newline}
    OBVIOUS
  <2>2. (o = u + k + 1 => inBuffer[i] = Colon[1]) /\ (o = u + k + 2 => inBuffer[i] = Colon[2])
    BY <1>2, <1>8, <2>1, SeenPair DEF w
  <2>3. Colon[1] = ":" /\ Colon[2] = " "
    BY DEF Colon
  <2> QED BY <2>2, <2>3
<1>12. (o = u + k + n + 3 => inBuffer[i] = "CR") /\ (o = u + k + n + 4 => inBuffer[i] = "LF")
  <2>1. u + k + 2 + n \in Nat /\ Newline \in {Colon, Newline}
    OBVIOUS
  <2>2. (o = u + k + 2 + n + 1 => inBuffer[i] = Newline[1]) /\ (o = u + k + 2 + n + 2 => inBuffer[i] = Newline[2])
    BY <1>2, <1>8, <2>1, SeenPair DEF w
  <2>3. Newline[1] = "CR" /\ Newline[2] = "LF"
    BY DEF Newline
  <2>4. u + k + 2 + n + 1 = u + k + n + 3 /\ u + k + 2 + n + 2 = u + k + n + 4
    OBVIOUS
  <2> QED BY <2>2, <2>3, <2>4
<1>13. U(j) - 1 = u + k + n + 3
  BY <1>3
<1> QED BY <1>2, <1>3, <1>9, <1>10, <1>11, <1>12, <1>13

-------------------------------------------------------------------------------
(* One step of the scan, field by field.                                   *)

States == {"START", "KEY", "COLON", "SPACES", "VALUE", "CR", "LF", "END_CR", "END_LF"}

Unique(hs) == \A p, q \in hs : p[1] = q[1] => p = q

\* What the scan works with: a state of the scan is a record of these fields.
IsScan(p) ==
    /\ p = [h |-> p.h, ks |-> p.ks, ke |-> p.ke, vs |-> p.vs, ve |-> p.ve, begin |-> p.begin,
            n |-> p.n, headers |-> p.headers, end |-> p.end]
    /\ p.h \in States /\ Unique(p.headers)

\* The marks of the key and of the value are kept.
KeepsKey(p, q) == q.ks = p.ks /\ q.ke = p.ke
KeepsLine(p, q) == q.begin = p.begin /\ q.headers = p.headers /\ q.end = p.end

Refused(p, q) == q.h = p.h /\ q.headers = p.headers /\ q.end = "error"

\* An assignment by key leaves one value to each key.
LEMMA PutUnique ==
    ASSUME NEW hs, Unique(hs), NEW key, NEW value
    PROVE  Unique(Put(hs, key, value))
<1>1. <<key, value>>[1] = key
  OBVIOUS
<1> QED BY <1>1 DEF Unique, Put

\* hState_ START: line ends are skipped, and anything else begins a key.
LEMMA AtStart ==
    ASSUME NEW p, NEW i, IsScan(p), p.end = "more", p.h = "START"
    PROVE  LET q == Taken(p, i)
               c == inBuffer[i]
           IN  /\ IsScan(q) /\ q.n = i
               /\ c \in {"CR", "LF"} => q.h = "START" /\ KeepsLine(p, q)
               /\ c \notin {"CR", "LF"} => /\ q.h = "KEY" /\ q.ks = i /\ q.begin = i
                                           /\ q.headers = p.headers /\ q.end = "more"
<1> DEFINE c == inBuffer[i]
<1>1. CASE c \in {"CR", "LF"}
  <2>1. Taken(p, i) = [p EXCEPT !.n = i]
    BY <1>1 DEF Taken, Switch
  <2> QED BY <1>1, <2>1 DEF IsScan, KeepsLine, States
<1>2. CASE c \notin {"CR", "LF"}
  <2>1. Taken(p, i) = [[p EXCEPT !.h = "KEY", !.ks = i, !.begin = i] EXCEPT !.n = i]
    BY <1>2 DEF Taken, Switch
  <2> QED BY <1>2, <2>1 DEF IsScan, States
<1> QED BY <1>1, <1>2

\* hState_ KEY: a colon ends the key, and a line end is an error.
LEMMA AtKey ==
    ASSUME NEW p, NEW i, IsScan(p), p.end = "more", p.h = "KEY"
    PROVE  LET q == Taken(p, i)
               c == inBuffer[i]
           IN  /\ IsScan(q) /\ q.n = i
               /\ c \in {"CR", "LF"} => Refused(p, q)
               /\ c = ":" => \/ i <= p.ks /\ Refused(p, q)
                             \/ ~(i <= p.ks) /\ q.h = "COLON" /\ q.ks = p.ks /\ q.ke = i /\ KeepsLine(p, q)
               /\ c \notin {"CR", "LF", ":"} => q.h = "KEY" /\ q.ks = p.ks /\ KeepsLine(p, q)
<1> DEFINE c == inBuffer[i]
<1>1. CASE c \in {"CR", "LF"} \/ (c = ":" /\ i <= p.ks)
  <2>1. Taken(p, i) = [[p EXCEPT !.end = "error"] EXCEPT !.n = i]
    BY <1>1 DEF Taken, Switch, Bad
  <2>2. IsScan(Taken(p, i)) /\ Taken(p, i).n = i /\ Refused(p, Taken(p, i))
    BY <2>1 DEF IsScan, Refused, States
  <2>3. c \in {"CR", "LF"} => c # ":"
    OBVIOUS
  <2> QED BY <1>1, <2>2, <2>3
<1>2. CASE c = ":" /\ ~(i <= p.ks)
  <2>1. Taken(p, i) = [[p EXCEPT !.h = "COLON", !.ke = i] EXCEPT !.n = i]
    BY <1>2 DEF Taken, Switch
  <2>2. IsScan(Taken(p, i)) /\ Taken(p, i).n = i /\ Taken(p, i).h = "COLON" /\ Taken(p, i).ks = p.ks
        /\ Taken(p, i).ke = i /\ KeepsLine(p, Taken(p, i))
    BY <2>1 DEF IsScan, KeepsLine, States
  <2>3. c \notin {"CR", "LF"}
    BY <1>2
  <2> QED BY <1>2, <2>2, <2>3
<1>3. CASE c \notin {"CR", "LF", ":"}
  <2>1. Taken(p, i) = [p EXCEPT !.n = i]
    BY <1>3 DEF Taken, Switch
  <2>2. IsScan(Taken(p, i)) /\ Taken(p, i).n = i /\ Taken(p, i).h = "KEY" /\ Taken(p, i).ks = p.ks
        /\ KeepsLine(p, Taken(p, i))
    BY <2>1 DEF IsScan, KeepsLine, States
  <2> QED BY <1>3, <2>2
<1> QED BY <1>1, <1>2, <1>3

\* hState_ COLON: a space follows, or there is an error.
LEMMA AtColon ==
    ASSUME NEW p, NEW i, IsScan(p), p.end = "more", p.h = "COLON"
    PROVE  LET q == Taken(p, i)
               c == inBuffer[i]
           IN  /\ IsScan(q) /\ q.n = i
               /\ c = " " => q.h = "SPACES" /\ KeepsKey(p, q) /\ KeepsLine(p, q)
               /\ c # " " => Refused(p, q)
<1> DEFINE c == inBuffer[i]
<1>1. CASE c = " "
  <2>1. Taken(p, i) = [[p EXCEPT !.h = "SPACES"] EXCEPT !.n = i]
    BY <1>1 DEF Taken, Switch
  <2> QED BY <1>1, <2>1 DEF IsScan, KeepsKey, KeepsLine, States
<1>2. CASE c # " "
  <2>1. Taken(p, i) = [[p EXCEPT !.end = "error"] EXCEPT !.n = i]
    BY <1>2 DEF Taken, Switch, Bad
  <2> QED BY <1>2, <2>1 DEF IsScan, Refused, States
<1> QED BY <1>1, <1>2

\* hState_ SPACES: the value begins, whatever comes.
LEMMA AtSpaces ==
    ASSUME NEW p, NEW i, IsScan(p), p.end = "more", p.h = "SPACES"
    PROVE  LET q == Taken(p, i)
           IN  IsScan(q) /\ q.n = i /\ q.h = "VALUE" /\ KeepsKey(p, q) /\ q.vs = i /\ KeepsLine(p, q)
<1>1. Taken(p, i) = [[p EXCEPT !.h = "VALUE", !.vs = i] EXCEPT !.n = i]
  BY DEF Taken, Switch
<1> QED BY <1>1 DEF IsScan, KeepsKey, KeepsLine, States

\* hState_ VALUE: a CR ends it.
LEMMA AtValue ==
    ASSUME NEW p, NEW i, IsScan(p), p.end = "more", p.h = "VALUE"
    PROVE  LET q == Taken(p, i)
               c == inBuffer[i]
           IN  /\ IsScan(q) /\ q.n = i
               /\ c # "CR" => q.h = "VALUE" /\ KeepsKey(p, q) /\ q.vs = p.vs /\ KeepsLine(p, q)
               /\ c = "CR" => \/ i <= p.vs /\ Refused(p, q)
                              \/ /\ ~(i <= p.vs) /\ q.h = "CR" /\ KeepsKey(p, q) /\ q.vs = p.vs /\ q.ve = i
                                 /\ KeepsLine(p, q)
<1> DEFINE c == inBuffer[i]
<1>1. CASE c # "CR"
  <2>1. Taken(p, i) = [p EXCEPT !.n = i]
    BY <1>1 DEF Taken, Switch
  <2> QED BY <1>1, <2>1 DEF IsScan, KeepsKey, KeepsLine, States
<1>2. CASE c = "CR" /\ i <= p.vs
  <2>1. Taken(p, i) = [[p EXCEPT !.end = "error"] EXCEPT !.n = i]
    BY <1>2 DEF Taken, Switch, Bad
  <2> QED BY <1>2, <2>1 DEF IsScan, Refused, States
<1>3. CASE c = "CR" /\ ~(i <= p.vs)
  <2>1. Taken(p, i) = [[p EXCEPT !.h = "CR", !.ve = i] EXCEPT !.n = i]
    BY <1>3 DEF Taken, Switch
  <2> QED BY <1>3, <2>1 DEF IsScan, KeepsKey, KeepsLine, States
<1> QED BY <1>1, <1>2, <1>3

\* hState_ CR: with the LF the header is stored.
LEMMA AtCR ==
    ASSUME NEW p, NEW i, IsScan(p), p.end = "more", p.h = "CR"
    PROVE  LET q == Taken(p, i)
               c == inBuffer[i]
           IN  /\ IsScan(q) /\ q.n = i
               /\ c = "LF" => /\ q.h = "LF" /\ q.begin = i /\ q.end = "more"
                              /\ q.headers = Put(p.headers, Text(p.ks, p.ke), Text(p.vs, p.ve))
               /\ c # "LF" => Refused(p, q)
<1> DEFINE c == inBuffer[i]
           hs == Put(p.headers, Text(p.ks, p.ke), Text(p.vs, p.ve))
<1>0. Unique(hs)
  BY PutUnique DEF IsScan
<1>1. CASE c = "LF"
  <2>1. Taken(p, i) = [[p EXCEPT !.h = "LF", !.begin = i, !.headers = hs] EXCEPT !.n = i]
    BY <1>1 DEF Taken, Switch, IsScan
  <2> HIDE DEF hs
  <2>2. /\ IsScan(Taken(p, i)) /\ Taken(p, i).n = i /\ Taken(p, i).h = "LF" /\ Taken(p, i).begin = i
        /\ Taken(p, i).end = "more" /\ Taken(p, i).headers = hs
    BY <1>0, <2>1 DEF IsScan, States
  <2> QED BY <1>1, <2>2 DEF hs
<1>2. CASE c # "LF"
  <2>1. Taken(p, i) = [[p EXCEPT !.end = "error"] EXCEPT !.n = i]
    BY <1>2 DEF Taken, Switch, Bad
  <2> QED BY <1>2, <2>1 DEF IsScan, Refused, States
<1> QED BY <1>1, <1>2

\* hState_ LF: a second CR ends the headers, and anything else begins a key.
LEMMA AtLF ==
    ASSUME NEW p, NEW i, IsScan(p), p.end = "more", p.h = "LF"
    PROVE  LET q == Taken(p, i)
               c == inBuffer[i]
           IN  /\ IsScan(q) /\ q.n = i /\ KeepsLine(p, q)
               /\ c = "CR" => q.h = "END_CR"
               /\ c # "CR" => q.h = "KEY" /\ q.ks = i
<1> DEFINE c == inBuffer[i]
<1>1. CASE c = "CR"
  <2>1. Taken(p, i) = [[p EXCEPT !.h = "END_CR"] EXCEPT !.n = i]
    BY <1>1 DEF Taken, Switch
  <2> QED BY <1>1, <2>1 DEF IsScan, KeepsLine, States
<1>2. CASE c # "CR"
  <2>1. Taken(p, i) = [[p EXCEPT !.h = "KEY", !.ks = i] EXCEPT !.n = i]
    BY <1>2 DEF Taken, Switch
  <2> QED BY <1>2, <2>1 DEF IsScan, KeepsLine, States
<1> QED BY <1>1, <1>2

\* hState_ END_CR: the LF of the empty line.
LEMMA AtEndCR ==
    ASSUME NEW p, NEW i, IsScan(p), p.end = "more", p.h = "END_CR"
    PROVE  LET q == Taken(p, i)
               c == inBuffer[i]
           IN  /\ IsScan(q) /\ q.n = i
               /\ c = "LF" => q.h = "END_LF" /\ KeepsLine(p, q)
               /\ c # "LF" => Refused(p, q)
<1> DEFINE c == inBuffer[i]
<1>1. CASE c = "LF"
  <2>1. Taken(p, i) = [[p EXCEPT !.h = "END_LF"] EXCEPT !.n = i]
    BY <1>1 DEF Taken, Switch
  <2> QED BY <1>1, <2>1 DEF IsScan, KeepsLine, States
<1>2. CASE c # "LF"
  <2>1. Taken(p, i) = [[p EXCEPT !.end = "error"] EXCEPT !.n = i]
    BY <1>2 DEF Taken, Switch, Bad
  <2> QED BY <1>2, <2>1 DEF IsScan, Refused, States
<1> QED BY <1>1, <1>2

\* hState_ END_LF: the symbol that follows is looked at, and the scan stops.
LEMMA AtEndLF ==
    ASSUME NEW p, NEW i, IsScan(p), p.end = "more", p.h = "END_LF"
    PROVE  LET q == Taken(p, i)
           IN  IsScan(q) /\ q.n = i /\ q.h = "END_LF" /\ q.headers = p.headers /\ q.end = "stop"
<1>1. Taken(p, i) = [[p EXCEPT !.end = "stop", !.begin = i] EXCEPT !.n = i]
  BY DEF Taken, Switch
<1> QED BY <1>1 DEF IsScan, States

\* The types alone.
LEMMA ScanTypes ==
    ASSUME NEW p, NEW i, IsScan(p)
    PROVE  IsScan(Taken(p, i))
<1>1. CASE p.end = "more"
  <2>1. p.h \in States
    BY DEF IsScan
  <2> QED BY <1>1, <2>1, AtStart, AtKey, AtColon, AtSpaces, AtValue, AtCR, AtLF, AtEndCR, AtEndLF DEF States
<1>2. CASE p.end # "more"
  BY <1>2 DEF Taken
<1> QED BY <1>1, <1>2

-------------------------------------------------------------------------------
(* The scan, step by step.                                                 *)

\* The scan is its steps, one after the other: the function that Scan chooses exists.
LEMMA ScanSteps ==
    ASSUME Len(inBuffer) \in Nat
    PROVE  \E f : /\ f[0] = NoScan /\ Scan = f[Len(inBuffer)]
                  /\ \A n \in 1 .. Len(inBuffer) : f[n] = Taken(f[n - 1], n)
<1> DEFINE D == 0 .. Len(inBuffer)
           Def(n, s) == IF n = 0 THEN NoScan ELSE Taken(s, n)
           IsFor(f, m) == f = [n \in 0 .. m |-> Def(n, f[n - 1])]
           T == {m \in D : \E f : IsFor(f, m)}
<1>1. 0 \in T
  <2>1. IsFor([n \in 0 .. 0 |-> NoScan], 0)
    OBVIOUS
  <2>2. 0 \in D
    OBVIOUS
  <2> HIDE DEF D, IsFor
  <2>3. \E f : IsFor(f, 0)
    BY <2>1
  <2> QED BY <2>2, <2>3
<1>2. ASSUME NEW m \in 1 .. Len(inBuffer), m - 1 \in T PROVE m \in T
  <2>1. PICK f : IsFor(f, m - 1)
    BY <1>2
  <2> DEFINE g == [n \in 0 .. m |-> IF n = m THEN Taken(f[m - 1], m) ELSE f[n]]
  <2>2. ASSUME NEW n \in 0 .. m PROVE g[n] = Def(n, g[n - 1])
    <3>1. CASE n = m
      <4>1. m # 0 /\ m - 1 \in 0 .. m /\ m - 1 # m
        OBVIOUS
      <4>2. g[n] = Taken(f[m - 1], m) /\ g[m - 1] = f[m - 1]
        BY <3>1, <4>1
      <4> QED BY <3>1, <4>1, <4>2
    <3>2. CASE n = 0
      <4>1. n # m /\ n \in 0 .. m - 1
        BY <3>2
      <4>2. g[n] = f[n] /\ f[n] = NoScan
        BY <2>1, <3>2, <4>1
      <4> QED BY <3>2, <4>2
    <3>3. CASE n # 0 /\ n # m
      <4>1. n \in 0 .. m - 1 /\ n - 1 \in 0 .. m /\ n - 1 # m
        BY <3>3
      <4>2. g[n] = f[n] /\ g[n - 1] = f[n - 1]
        BY <3>3, <4>1
      <4>3. f[n] = Taken(f[n - 1], n)
        BY <2>1, <3>3, <4>1
      <4> QED BY <3>3, <4>2, <4>3
    <3> QED BY <3>1, <3>2, <3>3
  <2>3. g = [n \in 0 .. m |-> Def(n, g[n - 1])]
    <3>1. g = [n \in 0 .. m |-> g[n]]
      OBVIOUS
    <3> HIDE DEF g, Def
    <3> QED BY <2>2, <3>1
  <2>4. m \in D
    OBVIOUS
  <2>5. IsFor(g, m)
    BY <2>3
  <2> HIDE DEF D, IsFor, g
  <2>6. \E s : IsFor(s, m)
    BY <2>5
  <2> QED BY <2>4, <2>6
<1>3. Len(inBuffer) \in T
  <2> HIDE DEF T
  <2>1. 0 .. Len(inBuffer) \subseteq T
    BY <1>1, <1>2, UpTo
  <2> QED BY <2>1
<1>4. PICK f : f = [n \in D |-> Def(n, f[n - 1])]
  BY <1>3
<1> DEFINE scan == CHOOSE s : s = [n \in D |-> Def(n, s[n - 1])]
<1>5. scan = [n \in D |-> Def(n, scan[n - 1])]
  BY <1>4
<1>6. Scan = scan[Len(inBuffer)]
  BY DEF Scan
<1> HIDE DEF scan
<1>7. scan[0] = NoScan
  BY <1>5
<1>8. ASSUME NEW n \in 1 .. Len(inBuffer) PROVE scan[n] = Taken(scan[n - 1], n)
  <2>1. n \in D /\ n # 0
    OBVIOUS
  <2> QED BY <1>5, <2>1
<1> QED BY <1>6, <1>7, <1>8

-------------------------------------------------------------------------------
(* What is stored of a header.                                             *)

\* No key that is sent looks like this one.
Improper(t) == t = <<>> \/ t[1] \in {"junk", "LF"}

\* A key that begins where an earlier scan has left the line.
Stale(a) == a = 0 \/ (a = 1 /\ inBuffer[1] = "LF")

\* A key cut out with a mark of an earlier scan is no key of a request.
LEMMA StaleText ==
    ASSUME Window, NEW a, Stale(a), NEW b \in 0 .. Len(inBuffer)
    PROVE  Improper(Text(a, b))
<1>0. inBuffer \in Seq(Symbol) /\ Len(inBuffer) \in Nat
  BY LenProperties DEF Window
<1>1. CASE a = b
  BY <1>1 DEF Text, Improper
<1>2. CASE a = 0 /\ b # 0
  <2> DEFINE rest == SubSeq(inBuffer, 1, b - 1)
             first == <<"junk">>
  <2>1. Text(a, b) = first \o rest
    BY <1>2 DEF Text
  <2>2. rest \in Seq(Symbol)
    <3>1. b - 1 \in 0 .. Len(inBuffer)
      BY <1>0, <1>2
    <3> QED BY <1>0, <3>1, PrefixProperties
  <2>3. first \in Seq(Symbol) /\ Len(first) = 1 /\ first[1] = "junk"
    <3>1. "junk" \in Symbol
      BY Symbols
    <3> QED BY <3>1
  <2> HIDE DEF rest, first
  <2>4. Reads(first \o rest, 0, first)
    BY <2>2, <2>3, ReadsConcat
  <2>5. (first \o rest)[0 + 1] = first[1]
    BY <2>3, <2>4 DEF Reads
  <2>6. 0 + 1 = 1
    OBVIOUS
  <2> QED BY <2>1, <2>3, <2>5, <2>6 DEF Improper
<1>3. CASE a = 1 /\ b # 1 /\ a # 0
  <2>1. inBuffer[1] = "LF" /\ Text(a, b) = SubSeq(inBuffer, 1, b - 1)
    BY <1>3 DEF Stale, Text
  <2>2. CASE b = 0
    <3>1. SubSeq(inBuffer, 1, 0 - 1) = <<>>
      BY <1>0, SubSeqEmpty
    <3> QED BY <2>1, <2>2, <3>1 DEF Improper
  <2>3. CASE b # 0
    <3>1. b - 1 \in 0 .. Len(inBuffer) /\ 1 \in 1 .. b - 1
      BY <1>0, <1>3, <2>3
    <3>2. SubSeq(inBuffer, 1, b - 1)[1] = inBuffer[1]
      BY <1>0, <3>1, PrefixProperties
    <3> QED BY <2>1, <3>2 DEF Improper
  <2> QED BY <2>2, <2>3
<1> QED BY <1>1, <1>2, <1>3 DEF Stale

\* A text that is cut out between the right marks is the part that was sent.
LEMMA TrueText ==
    ASSUME Window, Start \in Nat, NEW s \in Seq(Symbol), NEW p \in Nat, Reads(Wire(sent), Start + p, s),
           NEW a \in 1 .. Len(inBuffer), Offset(a) = p + 1, Len(s) # 0,
           NEW b \in 1 .. Len(inBuffer), b = a + Len(s)
    PROVE  Text(a, b) = s
<1>0. inBuffer \in Seq(Symbol) /\ Len(inBuffer) \in Nat /\ Len(s) \in Nat /\ Gone \in Nat
  BY LenProperties DEF Window
<1>1. Text(a, b) = SubSeq(inBuffer, a, b - 1)
  BY <1>0 DEF Text
<1>2. a \in 1 .. Len(inBuffer) + 1 /\ b - 1 \in a - 1 .. Len(inBuffer) /\ b - 1 - a + 1 = Len(s)
  BY <1>0
<1>3. /\ SubSeq(inBuffer, a, b - 1) \in Seq(Symbol) /\ Len(SubSeq(inBuffer, a, b - 1)) = Len(s)
      /\ \A m \in 1 .. Len(s) : SubSeq(inBuffer, a, b - 1)[m] = inBuffer[a + m - 1]
  BY <1>0, <1>2, SubSeqProperties
<1>4. ASSUME NEW m \in 1 .. Len(s) PROVE inBuffer[a + m - 1] = s[m]
  <2>1. PICK i \in 1 .. Len(inBuffer) : i = a + m - 1
    BY <1>0
  <2>2. Offset(i) = p + m
    BY <1>0, <2>1 DEF Offset
  <2> QED BY <2>1, <2>2, SeenIn
<1>5. \A m \in 1 .. Len(s) : SubSeq(inBuffer, a, b - 1)[m] = s[m]
  BY <1>3, <1>4
<1> QED BY <1>1, <1>3, <1>5, SeqEqual

\* The key and the value of header j, by their places.
LEMMA HeaderStored ==
    ASSUME Window, More, NEW j \in 1 .. N,
           NEW a \in 1 .. Len(inBuffer), NEW b \in 1 .. Len(inBuffer)
    PROVE  /\ Offset(a) = U(j - 1) + 1 /\ b = a + K(j) => Text(a, b) = Asked.headers[j][1]
           /\ Offset(a) = U(j - 1) + K(j) + 3 /\ b = a + V(j) => Text(a, b) = Asked.headers[j][2]
<1> DEFINE w == Wire(sent)
           r == Asked
           key == r.headers[j][1]
           value == r.headers[j][2]
<1>1. Start \in Nat
  BY Sizes
<1>2. PICK g \in Nat : g = Start
  BY <1>1
<1>3. PICK u \in Nat, k \in Nat \ {0}, n \in Nat \ {0} : u = U(j - 1) /\ k = K(j) /\ n = V(j)
  <2>1. j - 1 \in 0 .. N
    BY Sizes
  <2> QED BY <2>1, Sizes
<1>4. key \in Seq(Symbol) /\ value \in Seq(Symbol) /\ Len(key) = k /\ Len(value) = n
  <2>1. r.headers[j] \in Header
    BY Sizes, RequestTypes DEF N
  <2>2. Len(key) = k /\ Len(value) = n
    BY <1>3 DEF K, V, KeyLen, ValueLen
  <2> QED BY <2>1, <2>2, HeaderTypes
<1>5. ShowsHeader(w, g, r, j)
  <2>1. r \in Request /\ Shows(w, g, r) /\ j \in 1 .. Count(r)
    BY <1>2, Sizes DEF N
  <2>2. w \in Seq(Symbol)
    BY WireText DEF Window
  <2> QED BY <2>1, <2>2, HeaderText
<1>6. Reads(w, g + u, key) /\ Reads(w, g + u + k + 2, value)
  BY <1>3, <1>5 DEF ShowsHeader, U, K
<1>7. g + u + k + 2 = g + (u + k + 2) /\ u + k + 2 \in Nat /\ u + k + 3 = u + k + 2 + 1
  OBVIOUS
<1> HIDE DEF w, r, key, value
<1>8. ASSUME Offset(a) = u + 1, b = a + k PROVE Text(a, b) = key
  <2>1. Reads(Wire(sent), Start + u, key) /\ Len(key) # 0 /\ b = a + Len(key)
    BY <1>2, <1>4, <1>6, <1>8 DEF w
  <2> QED BY <1>1, <1>4, <1>8, <2>1, TrueText
<1>9. ASSUME Offset(a) = u + k + 3, b = a + n PROVE Text(a, b) = value
  <2>1. Reads(Wire(sent), Start + (u + k + 2), value)
    BY <1>2, <1>6, <1>7 DEF w
  <2>2. Len(value) # 0 /\ b = a + Len(value)
    BY <1>4, <1>9
  <2>3. Offset(a) = u + k + 2 + 1 /\ u + k + 2 \in Nat
    BY <1>7, <1>9
  <2> QED BY <1>1, <1>4, <2>1, <2>2, <2>3, TrueText
<1> QED BY <1>3, <1>8, <1>9 DEF key, value, r

\* The last symbol of the request before.
LEMMA SeenBefore ==
    ASSUME Window, Len(answers) \in Nat \ {0}, Len(answers) <= Len(sent), sent[Len(answers)].method # POST,
           NEW i \in 1 .. Len(inBuffer), Offset(i) = 0
    PROVE  inBuffer[i] = "LF"
<1> DEFINE w == Wire(sent)
<1>1. PICK k \in 1 .. Len(sent) : k = Len(answers)
  BY WireText DEF Window
<1> DEFINE r == sent[k]
           e == Upto(r, Count(r))
<1>2. /\ r \in Request /\ Start = Before(sent, k - 1) + e + 2 + Len(r.body)
      /\ Shows(w, Before(sent, k - 1), r)
  BY <1>1, WireText DEF Window, Start
<1>3. Len(r.body) = 0
  <2>1. r.body = <<>>
    BY <1>1, <1>2, RequestTypes
  <2> QED BY <2>1, EmptySeq
<1>4. Before(sent, k - 1) \in Nat /\ e \in Nat
  <2>1. sent \in Seq(Request)
    BY DEF Window
  <2>2. Len(sent) \in Nat
    BY <2>1, LenProperties
  <2>3. k - 1 \in 0 .. Len(sent)
    BY <2>2
  <2>4. Count(r) \in Nat
    BY <1>2, RequestTypes
  <2>5. Count(r) \in 0 .. Count(r)
    BY <2>4
  <2> QED BY <1>2, <2>1, <2>3, <2>5, WireText, Lengths
<1>5. Reads(w, Before(sent, k - 1) + e, Newline)
  BY <1>2 DEF Shows
<1>6. PICK b \in Nat : b = Before(sent, k - 1) + e
  BY <1>4
<1>7. Start = b + 2
  BY <1>2, <1>3, <1>4, <1>6
<1>8. w[b + 2] = "LF"
  <2>1. Len(Newline) = 2
    BY Symbols
  <2>2. 2 \in 1 .. Len(Newline)
    BY <2>1
  <2>3. w[b + 2] = Newline[2]
    BY <1>5, <1>6, <2>2 DEF Reads
  <2> QED BY <2>3 DEF Newline
<1>9. Gone + i = b + 2
  BY <1>7 DEF Offset, Window
<1> QED BY <1>8, <1>9 DEF Window

-------------------------------------------------------------------------------
(* Where the scan is in the request that is being read.                    *)

Reading == /\ Window /\ More
           /\ Len(answers) # 0 => sent[Len(answers)].method # POST

\* How far the request has arrived.
Reach == Received - Start

\* Every pair that is stored was sent, or is stored under a key that none has.
PairsTrue(hs) == \A p \in hs : p \in HeadersOf(Asked) \/ Improper(p[1])

FirstOf(m) == {Asked.headers[i] : i \in 1 .. m}

\* Where the buffer is cut when the scan ends in line j.
Opening(j) == IF j = 1 THEN 5 ELSE U(j - 1) - 1

\* The scan is the first one of the headers.
Fresh == hState = "START" /\ Offset(0) = 4

\* The marks of line j are right, or the key's is from an earlier scan.
CleanKey(p, j) == p.ks \in 1 .. Len(inBuffer) /\ Offset(p.ks) = U(j - 1) + 1
CleanColon(p, j) == CleanKey(p, j) /\ p.ke = p.ks + K(j)
CleanValue(p, j) == CleanColon(p, j) /\ p.vs = p.ks + K(j) + 2
CleanLine(p, j) == CleanValue(p, j) /\ p.ve = p.vs + V(j)
DirtyKey(p) == ~Fresh /\ Stale(p.ks)
DirtyLine(p) == DirtyKey(p) /\ p.ke \in 0 .. Len(inBuffer)

InKey(p, i, j) == /\ p.h = "KEY" /\ U(j - 1) <= Offset(i)
                  /\ \/ j \in 1 .. N /\ Offset(i) <= U(j - 1) + K(j) /\ (CleanKey(p, j) \/ DirtyKey(p))
                     \/ j = N + 1 /\ Offset(i) = U(N) /\ DirtyKey(p)
InColon(p, i, j) == /\ p.h = "COLON" /\ j \in 1 .. N /\ Offset(i) = U(j - 1) + K(j) + 1
                    /\ CleanColon(p, j) \/ DirtyLine(p)
InSpaces(p, i, j) == /\ p.h = "SPACES" /\ j \in 1 .. N /\ Offset(i) = U(j - 1) + K(j) + 2
                     /\ CleanColon(p, j) \/ DirtyLine(p)
InValue(p, i, j) == /\ p.h = "VALUE" /\ j \in 1 .. N /\ U(j - 1) <= Offset(i) /\ Offset(i) <= U(j) - 2
                    /\ CleanValue(p, j) \/ DirtyLine(p)
InCR(p, i, j) == /\ p.h = "CR" /\ j \in 1 .. N /\ Offset(i) = U(j) - 1
                 /\ CleanLine(p, j) \/ DirtyLine(p)
InLF(p, i, j) == p.h = "LF" /\ j \in 2 .. N + 1 /\ Offset(i) = U(j - 1)
InEndCR(p, i, j) == p.h = "END_CR" /\ j = N + 1 /\ Offset(i) = U(N) + 1
InEndLF(p, i, j) == /\ p.h = "END_LF" /\ j = N + 1 /\ Reach >= U(N) + 2
                    /\ Offset(i) = U(N) + 2 \/ (Offset(i) = U(N) /\ ~Fresh)

Holds(p, j) == /\ Offset(p.begin) = Opening(j) + 1
               /\ Fresh => p.headers = FirstOf(j - 1)

OnLine(p, i, j) == /\ Holds(p, j)
                   /\ \/ InKey(p, i, j) \/ InColon(p, i, j) \/ InSpaces(p, i, j) \/ InValue(p, i, j)
                      \/ InCR(p, i, j) \/ InLF(p, i, j) \/ InEndCR(p, i, j) \/ InEndLF(p, i, j)

\* Before the first header, and in a request whose first line was not understood.
Before1(p, i) == p.h = "START" /\ p.headers = {} /\ Offset(p.begin) = 5 /\ Offset(i) \in {4, 5}
LostStart(p, i) == p.h = "START" /\ ~Fresh /\ Offset(i) \in {-1, 0}
LostKey(p, i) == p.h = "KEY" /\ ~Fresh /\ Offset(p.begin) = 1 /\ Offset(i) \in 0 .. 3

Going(p, i) == Before1(p, i) \/ LostStart(p, i) \/ LostKey(p, i) \/ \E j \in 1 .. N + 1 : OnLine(p, i, j)

Tracked(p, i) ==
    /\ IsScan(p) /\ PairsTrue(p.headers)
    /\ \/ p.end = "more" /\ p.n = i /\ Going(p, i)
       \/ p.end = "error" /\ ~Fresh
       \/ /\ p.end = "stop" /\ p.h = "END_LF"
          /\ p.n \in 1 .. i /\ Reach >= U(N) + 2
          /\ Offset(p.n) = U(N) + 3 \/ (Offset(p.n) = U(N) + 1 /\ ~Fresh)
          /\ Fresh => p.headers = FirstOf(N)

\* Places in the request follow one another as those in the buffer do.
LEMMA Offsets ==
    ASSUME Window, Start \in Nat
    PROVE  \E d \in Int : \A k \in Int : Offset(k) = d + k
<1>1. Gone \in Int /\ Gone - Start \in Int
  BY DEF Window
<1>2. \A k \in Int : Offset(k) = Gone - Start + k
  BY <1>1 DEF Offset
<1> QED BY <1>1, <1>2

\* A step that keeps the line keeps what is known of it.
LEMMA HoldsOn ==
    ASSUME NEW p, NEW q, NEW j, Holds(p, j), KeepsLine(p, q), p.end = "more", PairsTrue(p.headers)
    PROVE  Holds(q, j) /\ q.end = "more" /\ PairsTrue(q.headers)
BY DEF Holds, KeepsLine

\* After an error there is nothing to know, except that it is not the first scan.
LEMMA RefusedIsTracked ==
    ASSUME NEW p, NEW q, NEW i, PairsTrue(p.headers), IsScan(q), Refused(p, q), ~Fresh
    PROVE  Tracked(q, i)
BY DEF Refused, Tracked

\* A scan that is going on in the right way is tracked.
LEMMA GoingIsTracked ==
    ASSUME NEW q, NEW i, IsScan(q), PairsTrue(q.headers), q.end = "more", q.n = i, Going(q, i)
    PROVE  Tracked(q, i)
BY DEF Tracked

\* The symbols of the request line.
LEMMA MethodSymbols ==
    ASSUME NEW m \in {GET, POST, HEAD}
    PROVE  m[1] \notin {"CR", "LF", ":"} /\ m[2] \notin {"CR", "LF", ":"}
BY DEF GET, POST, HEAD

\* The steps of the scan, one lemma for each state: START, before the first header or, after a
\* request line that was not understood, before the request.
LEMMA TrackStart ==
    ASSUME Reading, NEW i \in 1 .. Len(inBuffer), NEW p, IsScan(p), PairsTrue(p.headers), p.end = "more",
           Before1(p, i - 1) \/ LostStart(p, i - 1)
    PROVE  Tracked(Taken(p, i), i)
<1> DEFINE c == inBuffer[i]
           q == Taken(p, i)
<1>0. /\ IsScan(q) /\ q.n = i
      /\ c \in {"CR", "LF"} => q.h = "START" /\ KeepsLine(p, q)
      /\ c \notin {"CR", "LF"} => q.h = "KEY" /\ q.ks = i /\ q.begin = i /\ q.headers = p.headers /\ q.end = "more"
  BY AtStart DEF Before1, LostStart
<1>1. PairsTrue(q.headers) /\ q.end = "more"
  BY <1>0 DEF KeepsLine
<1> HIDE DEF q
<1>2. Window /\ More /\ Start \in Nat /\ Asked \in Request /\ N \in Nat \ {0} /\ U(0) = 5 /\ K(1) \in Nat \ {0}
  BY Sizes DEF Reading
<1>3. PICK d \in Int : \A k \in Int : Offset(k) = d + k
  BY <1>2, Offsets
<1>4. Offset(i) = Offset(i - 1) + 1
  BY <1>3
<1>5. CASE Before1(p, i - 1)
  <2>1. CASE Offset(i) = 5
    <3>1. c = "LF"
      BY <1>2, <2>1, Seen
    <3>2. q.h = "START" /\ KeepsLine(p, q)
      BY <1>0, <3>1
    <3>3. Before1(q, i)
      BY <1>5, <2>1, <3>2 DEF Before1, KeepsLine
    <3>4. Going(q, i)
      BY <3>3 DEF Going
    <3> QED BY <1>0, <1>1, <3>4, GoingIsTracked DEF q
  <2>2. CASE Offset(i) = 6
    <3>1. 1 \in 1 .. N /\ U(1 - 1) < Offset(i) /\ Offset(i) <= U(1 - 1) + K(1)
      BY <1>2, <2>2
    <3>2. c \notin {"CR", "LF", ":", " "}
      BY <1>2, <3>1, SeenHeader
    <3>3. q.h = "KEY" /\ q.ks = i /\ q.begin = i /\ q.headers = {}
      BY <1>0, <1>5, <3>2 DEF Before1
    <3>4. U(1 - 1) = 5 /\ FirstOf(1 - 1) = {} /\ Opening(1) = 5
      BY <1>2 DEF FirstOf, Opening
    <3>5. InKey(q, i, 1)
      BY <2>2, <3>1, <3>3, <3>4 DEF InKey, CleanKey
    <3>6. Holds(q, 1)
      BY <2>2, <3>3, <3>4 DEF Holds
    <3>7. 1 \in 1 .. N + 1
      BY <1>2
    <3>8. Going(q, i)
      BY <3>5, <3>6, <3>7 DEF Going, OnLine
    <3> QED BY <1>0, <1>1, <3>8, GoingIsTracked DEF q
  <2> QED BY <1>4, <1>5, <2>1, <2>2 DEF Before1
<1>6. CASE LostStart(p, i - 1)
  <2>0. ~Fresh
    BY <1>6 DEF LostStart
  <2>1. CASE Offset(i) = 0
    <3>1. Len(answers) \in Nat /\ Len(answers) <= Len(sent)
      BY <1>2, WireText DEF More, Window
    <3>2. Len(answers) # 0
      <4>1. Len(answers) = 0 => Start = 0
        BY <1>2, WireText DEF Start, Window
      <4>2. Gone \in Nat /\ Offset(i) = Gone + i - Start
        BY <1>2 DEF Window, Offset
      <4> QED BY <2>1, <4>1, <4>2
    <3>3. c = "LF"
      BY <1>2, <2>1, <3>1, <3>2, SeenBefore DEF Reading
    <3>4. LostStart(q, i)
      BY <1>0, <2>0, <2>1, <3>3 DEF LostStart
    <3>5. Going(q, i)
      BY <3>4 DEF Going
    <3> QED BY <1>0, <1>1, <3>5, GoingIsTracked DEF q
  <2>2. CASE Offset(i) = 1
    <3>1. c = Asked.method[1]
      BY <1>2, <2>2, Seen
    <3>2. c \notin {"CR", "LF"}
      BY <1>2, <3>1, RequestTypes, MethodSymbols
    <3>3. LostKey(q, i)
      BY <1>0, <2>0, <2>2, <3>2 DEF LostKey
    <3>4. Going(q, i)
      BY <3>3 DEF Going
    <3> QED BY <1>0, <1>1, <3>4, GoingIsTracked DEF q
  <2> QED BY <1>4, <1>6, <2>1, <2>2 DEF LostStart
<1> QED BY <1>5, <1>6

\* A scan that goes on in a line.
LEMMA LineIsTracked ==
    ASSUME NEW q, NEW i, NEW j \in 1 .. N + 1, IsScan(q), PairsTrue(q.headers), q.end = "more", q.n = i,
           OnLine(q, i, j)
    PROVE  Tracked(q, i)
BY GoingIsTracked DEF Going

\* The distance of two places is that in the buffer.
LEMMA OffsetGap ==
    ASSUME Window, More, NEW a \in Int, NEW b \in Int
    PROVE  Offset(a) \in Int /\ Offset(a) = Offset(b) + (a - b)
<1>1. Gone \in Int /\ Start \in Int
  BY Sizes DEF Window
<1> QED BY <1>1 DEF Offset

\* The next symbol has the next place.
LEMMA NextOffset ==
    ASSUME Window, More, NEW i \in 1 .. Len(inBuffer)
    PROVE  \E o \in Int : o = Offset(i) /\ o - 1 = Offset(i - 1)
<1>1. Gone \in Int /\ Start \in Int
  BY Sizes DEF Window
<1> QED BY <1>1 DEF Offset

\* What is at place o of a line of which the key begins at u and has k symbols, and the
\* value has v.
LineReads(c, o, u, k, v) ==
    /\ u < o /\ o <= u + k => c \notin {"CR", "LF", ":", " "}
    /\ o = u + k + 1 => c = ":"
    /\ o = u + k + 2 => c = " "
    /\ u + k + 2 < o /\ o < u + k + v + 3 => c \notin {"CR", "LF"}
    /\ o = u + k + v + 3 => c = "CR"
    /\ o = u + k + v + 4 => c = "LF"

\* The places of a line as numbers.
LEMMA LineNumbers ==
    ASSUME Window, More, NEW j \in 1 .. N
    PROVE  \E u \in Nat, k \in Nat \ {0}, v \in Nat \ {0} :
               /\ u = U(j - 1) /\ k = K(j) /\ v = V(j) /\ U(j) = u + k + v + 4
               /\ U(j) - 1 = u + k + v + 3 /\ U(j) - 2 = u + k + v + 2
               /\ Opening(j + 1) = u + k + v + 3
               /\ \A i \in 1 .. Len(inBuffer) : LineReads(inBuffer[i], Offset(i), u, k, v)
<1>1. N \in Nat \ {0} /\ Start \in Nat
  BY Sizes
<1>2. PICK u \in Nat, k \in Nat \ {0}, v \in Nat \ {0} :
          u = U(j - 1) /\ k = K(j) /\ v = V(j) /\ U(j) = u + k + v + 4
  <2>1. j - 1 \in 0 .. N
    BY <1>1
  <2> QED BY <2>1, Sizes
<1>3. Opening(j + 1) = u + k + v + 3
  <2>1. j + 1 # 1 /\ j + 1 - 1 = j
    BY <1>1
  <2>2. Opening(j + 1) = U(j) - 1
    BY <2>1 DEF Opening
  <2> QED BY <1>2, <2>2
<1>4. ASSUME NEW i \in 1 .. Len(inBuffer) PROVE LineReads(inBuffer[i], Offset(i), u, k, v)
  <2>1. U(j) - 1 = u + k + v + 3
    BY <1>2
  <2> QED BY <1>2, <2>1, SeenHeader DEF LineReads
<1>5. U(j) - 1 = u + k + v + 3 /\ U(j) - 2 = u + k + v + 2
  BY <1>2
<1> QED BY <1>2, <1>3, <1>4, <1>5

\* KEY in a first line that was taken for a header: it ends with an error.
LEMMA TrackLostKey ==
    ASSUME Reading, NEW i \in 1 .. Len(inBuffer), NEW p, IsScan(p), PairsTrue(p.headers), p.end = "more",
           LostKey(p, i - 1)
    PROVE  Tracked(Taken(p, i), i)
<1> DEFINE c == inBuffer[i]
           q == Taken(p, i)
<1>0. /\ IsScan(q) /\ q.n = i
      /\ c \in {"CR", "LF"} => Refused(p, q)
      /\ c \notin {"CR", "LF", ":"} => q.h = "KEY" /\ q.ks = p.ks /\ KeepsLine(p, q)
  BY AtKey DEF LostKey
<1> HIDE DEF q
<1>1. Window /\ More /\ Start \in Nat /\ Asked \in Request
  BY Sizes DEF Reading
<1>3. Offset(i) = Offset(i - 1) + 1 /\ Offset(i - 1) \in Int
  BY <1>1, NextOffset
<1>4. ~Fresh /\ Offset(p.begin) = 1 /\ Offset(i) \in 1 .. 4
  BY <1>3 DEF LostKey
<1>5. CASE Offset(i) \in 1 .. 3
  <2>1. c \notin {"CR", "LF", ":"}
    <3>1. Asked.method \in {GET, POST, HEAD}
      BY <1>1, RequestTypes
    <3>2. Offset(i) = 1 \/ Offset(i) = 2 \/ Offset(i) = 3
      BY <1>5
    <3>3. Offset(i) = 3 => c = Version
      BY <1>1, Seen
    <3>4. Version \notin {"CR", "LF", ":"}
      BY DEF Version
    <3>5. /\ Offset(i) = 1 => c = Asked.method[1]
          /\ Offset(i) = 2 => c = Asked.method[2]
      BY <1>1, Seen
    <3> QED BY <3>1, <3>2, <3>3, <3>4, <3>5, MethodSymbols
  <2>2. LostKey(q, i)
    BY <1>0, <1>4, <1>5, <2>1 DEF LostKey, KeepsLine
  <2>3. Going(q, i) /\ PairsTrue(q.headers) /\ q.end = "more"
    BY <1>0, <2>1, <2>2 DEF Going, KeepsLine
  <2> QED BY <1>0, <2>3, GoingIsTracked DEF q
<1>6. CASE Offset(i) = 4
  <2>1. c = "CR"
    BY <1>1, <1>6, Seen
  <2> QED BY <1>0, <1>4, <2>1, RefusedIsTracked DEF q
<1> QED BY <1>4, <1>5, <1>6

\* KEY in a header, or at the line end that an earlier scan has left.
LEMMA TrackKey ==
    ASSUME Reading, NEW i \in 1 .. Len(inBuffer), NEW p, IsScan(p), PairsTrue(p.headers), p.end = "more",
           NEW j \in 1 .. N + 1, Holds(p, j), InKey(p, i - 1, j)
    PROVE  Tracked(Taken(p, i), i)
<1> DEFINE c == inBuffer[i]
           q == Taken(p, i)
<1>0. /\ IsScan(q) /\ q.n = i
      /\ c \in {"CR", "LF"} => Refused(p, q)
      /\ c = ":" => \/ i <= p.ks /\ Refused(p, q)
                    \/ ~(i <= p.ks) /\ q.h = "COLON" /\ q.ks = p.ks /\ q.ke = i /\ KeepsLine(p, q)
      /\ c \notin {"CR", "LF", ":"} => q.h = "KEY" /\ q.ks = p.ks /\ KeepsLine(p, q)
  BY AtKey DEF InKey
<1> HIDE DEF q
<1>1. Window /\ More
  BY DEF Reading
<1>2. PICK o \in Int : o = Offset(i) /\ o - 1 = Offset(i - 1)
  BY <1>1, NextOffset
<1>3. CASE j = N + 1
  <2>1. Offset(i - 1) = U(N) /\ ~Fresh
    BY <1>1, <1>3, Sizes DEF InKey, DirtyKey
  <2>2. Offset(i) = U(N) + 1
    BY <1>2, <2>1
  <2>3. c = "CR"
    BY <1>1, <2>2, Seen
  <2> QED BY <1>0, <2>1, <2>3, RefusedIsTracked DEF q
<1>4. CASE j \in 1 .. N
  <2>1. PICK u \in Nat, k \in Nat \ {0}, v \in Nat \ {0} :
            u = U(j - 1) /\ k = K(j) /\ LineReads(c, o, u, k, v)
    BY <1>1, <1>2, <1>4, LineNumbers
  <2>2. CleanKey(p, j) \/ DirtyKey(p)
    BY DEF InKey
  <2>3. u <= o - 1 /\ o - 1 <= u + k
    <3>1. N \in Nat
      BY <1>1, Sizes
    <3> QED BY <1>2, <1>4, <2>1, <3>1 DEF InKey
  <2>4. CASE o <= u + k
    <3>0. u < o /\ o <= u + k
      BY <2>3, <2>4
    <3>1. c \notin {"CR", "LF", ":", " "}
      BY <2>1, <3>0 DEF LineReads
    <3>2. q.h = "KEY" /\ q.ks = p.ks /\ KeepsLine(p, q)
      BY <1>0, <3>1
    <3>3. InKey(q, i, j)
      <4>1. u <= o /\ o <= u + k
        BY <2>3, <2>4
      <4>2. CleanKey(q, j) \/ DirtyKey(q)
        BY <2>2, <3>2 DEF CleanKey, DirtyKey
      <4> QED BY <1>2, <1>4, <2>1, <3>2, <4>1, <4>2 DEF InKey
    <3>4. Holds(q, j) /\ q.end = "more" /\ PairsTrue(q.headers)
      BY <3>2, HoldsOn
    <3>5. OnLine(q, i, j)
      BY <3>3, <3>4 DEF OnLine
    <3> QED BY <1>0, <3>4, <3>5, LineIsTracked DEF q
  <2>5. CASE o = u + k + 1
    <3>1. c = ":"
      BY <2>1, <2>5 DEF LineReads
    <3>2. ASSUME CleanKey(p, j) PROVE p.ks \in Int /\ i = p.ks + k
      <4>1. p.ks \in Int /\ Offset(p.ks) = u + 1
        BY <2>1, <3>2 DEF CleanKey
      <4>2. i \in Int
        OBVIOUS
      <4>3. Offset(i) = Offset(p.ks) + (i - p.ks)
        BY <1>1, <4>1, <4>2, OffsetGap
      <4>4. u + k + 1 = u + 1 + (i - p.ks)
        BY <1>2, <2>5, <4>1, <4>3
      <4> QED BY <4>1, <4>2, <4>4
    <3>3. CASE i <= p.ks /\ Refused(p, q)
      <4>1. ~CleanKey(p, j)
        BY <3>2, <3>3
      <4>2. ~Fresh
        BY <2>2, <4>1 DEF DirtyKey
      <4> QED BY <1>0, <3>3, <4>2, RefusedIsTracked DEF q
    <3>4. CASE q.h = "COLON" /\ q.ks = p.ks /\ q.ke = i /\ KeepsLine(p, q)
      <4>1. Offset(i) = U(j - 1) + K(j) + 1
        BY <1>2, <2>1, <2>5
      <4>2. ASSUME CleanKey(p, j) PROVE CleanColon(q, j)
        BY <2>1, <3>2, <3>4, <4>2 DEF CleanColon, CleanKey
      <4>3. ASSUME DirtyKey(p) PROVE DirtyLine(q)
        <5>1. i \in 0 .. Len(inBuffer)
          OBVIOUS
        <5> QED BY <3>4, <4>3, <5>1 DEF DirtyLine, DirtyKey
      <4>4. InColon(q, i, j)
        BY <1>4, <2>2, <3>4, <4>1, <4>2, <4>3 DEF InColon
      <4>5. Holds(q, j) /\ q.end = "more" /\ PairsTrue(q.headers)
        BY <3>4, HoldsOn
      <4>6. OnLine(q, i, j)
        BY <4>4, <4>5 DEF OnLine
      <4> QED BY <1>0, <4>5, <4>6, LineIsTracked DEF q
    <3> QED BY <1>0, <3>1, <3>3, <3>4
  <2> QED BY <2>3, <2>4, <2>5
<1>5. N \in Nat
  BY <1>1, Sizes
<1> QED BY <1>3, <1>4, <1>5

\* COLON.
LEMMA TrackColon ==
    ASSUME Reading, NEW i \in 1 .. Len(inBuffer), NEW p, IsScan(p), PairsTrue(p.headers), p.end = "more",
           NEW j \in 1 .. N + 1, Holds(p, j), InColon(p, i - 1, j)
    PROVE  Tracked(Taken(p, i), i)
<1> DEFINE c == inBuffer[i]
           q == Taken(p, i)
<1>0. /\ IsScan(q) /\ q.n = i
      /\ c = " " => q.h = "SPACES" /\ KeepsKey(p, q) /\ KeepsLine(p, q)
  BY AtColon DEF InColon
<1> HIDE DEF q
<1>1. Window /\ More /\ j \in 1 .. N
  BY DEF Reading, InColon
<1>2. PICK o \in Int : o = Offset(i) /\ o - 1 = Offset(i - 1)
  BY <1>1, NextOffset
<1>3. PICK u \in Nat, k \in Nat \ {0}, v \in Nat \ {0} :
          u = U(j - 1) /\ k = K(j) /\ LineReads(c, o, u, k, v)
  BY <1>1, <1>2, LineNumbers
<1>4. o = u + k + 2
  <2>1. o - 1 = u + k + 1
    BY <1>2, <1>3 DEF InColon
  <2> QED BY <2>1
<1>5. c = " "
  BY <1>3, <1>4 DEF LineReads
<1>6. q.h = "SPACES" /\ KeepsKey(p, q) /\ KeepsLine(p, q)
  BY <1>0, <1>5
<1>7. CleanColon(q, j) \/ DirtyLine(q)
  BY <1>6 DEF InColon, CleanColon, CleanKey, DirtyLine, DirtyKey, KeepsKey
<1>8. Offset(i) = U(j - 1) + K(j) + 2
  BY <1>2, <1>3, <1>4
<1>9. InSpaces(q, i, j)
  BY <1>1, <1>6, <1>7, <1>8 DEF InSpaces
<1>10. Holds(q, j) /\ q.end = "more" /\ PairsTrue(q.headers)
  BY <1>6, HoldsOn
<1>11. OnLine(q, i, j)
  BY <1>9, <1>10 DEF OnLine
<1> QED BY <1>0, <1>10, <1>11, LineIsTracked DEF q

\* SPACES.
LEMMA TrackSpaces ==
    ASSUME Reading, NEW i \in 1 .. Len(inBuffer), NEW p, IsScan(p), PairsTrue(p.headers), p.end = "more",
           NEW j \in 1 .. N + 1, Holds(p, j), InSpaces(p, i - 1, j)
    PROVE  Tracked(Taken(p, i), i)
<1> DEFINE q == Taken(p, i)
<1>0. IsScan(q) /\ q.n = i /\ q.h = "VALUE" /\ KeepsKey(p, q) /\ q.vs = i /\ KeepsLine(p, q)
  BY AtSpaces DEF InSpaces
<1> HIDE DEF q
<1>1. Window /\ More /\ j \in 1 .. N
  BY DEF Reading, InSpaces
<1>2. PICK o \in Int : o = Offset(i) /\ o - 1 = Offset(i - 1)
  BY <1>1, NextOffset
<1>3. PICK u \in Nat, k \in Nat \ {0}, v \in Nat \ {0} :
          u = U(j - 1) /\ k = K(j) /\ U(j) - 2 = u + k + v + 2
  BY <1>1, LineNumbers
<1>4. o = u + k + 3
  <2>1. o - 1 = u + k + 2
    BY <1>2, <1>3 DEF InSpaces
  <2> QED BY <2>1
<1>5. U(j - 1) <= Offset(i) /\ Offset(i) <= U(j) - 2
  <2>1. u <= o /\ o <= u + k + v + 2
    BY <1>4
  <2> QED BY <1>2, <1>3, <2>1
<1>6. ASSUME CleanColon(p, j) PROVE CleanValue(q, j)
  <2>0. p.ks \in 1 .. Len(inBuffer) /\ Offset(p.ks) = U(j - 1) + 1
    BY <1>6 DEF CleanColon, CleanKey
  <2>4. p.ks \in Int /\ i \in Int
    BY <2>0
  <2>5. Offset(p.ks) = u + 1
    BY <1>3, <2>0, Zenon
  <2>1. p.ks \in Int /\ i \in Int /\ Offset(p.ks) = u + 1
    BY <2>4, <2>5
  <2>2. Offset(i) = Offset(p.ks) + (i - p.ks)
    BY <1>1, <2>1, OffsetGap
  <2>3. i = p.ks + k + 2
    <3>1. u + k + 3 = u + 1 + (i - p.ks)
      BY <1>2, <1>4, <2>1, <2>2
    <3> QED BY <2>1, <3>1
  <2> QED BY <1>0, <1>3, <1>6, <2>3 DEF CleanValue, CleanColon, CleanKey, KeepsKey
<1>7. CleanValue(q, j) \/ DirtyLine(q)
  BY <1>0, <1>6 DEF InSpaces, DirtyLine, DirtyKey, KeepsKey
<1>8. InValue(q, i, j)
  BY <1>0, <1>1, <1>5, <1>7 DEF InValue
<1>9. Holds(q, j) /\ q.end = "more" /\ PairsTrue(q.headers)
  BY <1>0, HoldsOn
<1>10. OnLine(q, i, j)
  BY <1>8, <1>9 DEF OnLine
<1> QED BY <1>0, <1>9, <1>10, LineIsTracked DEF q

\* VALUE.
LEMMA TrackValue ==
    ASSUME Reading, NEW i \in 1 .. Len(inBuffer), NEW p, IsScan(p), PairsTrue(p.headers), p.end = "more",
           NEW j \in 1 .. N + 1, Holds(p, j), InValue(p, i - 1, j)
    PROVE  Tracked(Taken(p, i), i)
<1> DEFINE c == inBuffer[i]
           q == Taken(p, i)
<1>0. /\ IsScan(q) /\ q.n = i
      /\ c # "CR" => q.h = "VALUE" /\ KeepsKey(p, q) /\ q.vs = p.vs /\ KeepsLine(p, q)
      /\ c = "CR" => \/ i <= p.vs /\ Refused(p, q)
                     \/ ~(i <= p.vs) /\ q.h = "CR" /\ KeepsKey(p, q) /\ q.vs = p.vs /\ q.ve = i /\ KeepsLine(p, q)
  BY AtValue DEF InValue
<1> HIDE DEF q
<1>1. Window /\ More /\ j \in 1 .. N
  BY DEF Reading, InValue
<1>2. PICK o \in Int : o = Offset(i) /\ o - 1 = Offset(i - 1)
  BY <1>1, NextOffset
<1>3. PICK u \in Nat, k \in Nat \ {0}, v \in Nat \ {0} :
          /\ u = U(j - 1) /\ k = K(j) /\ v = V(j)
          /\ U(j) - 1 = u + k + v + 3 /\ U(j) - 2 = u + k + v + 2 /\ LineReads(c, o, u, k, v)
  BY <1>1, <1>2, LineNumbers
<1>10. u = U(j - 1) /\ k = K(j) /\ v = V(j) /\ U(j) - 1 = u + k + v + 3 /\ U(j) - 2 = u + k + v + 2
  BY <1>3
<1>4. CleanValue(p, j) \/ DirtyLine(p)
  BY DEF InValue
<1>5. u < o /\ o <= u + k + v + 3
  <2>1. u <= o - 1 /\ o - 1 <= u + k + v + 2
    BY <1>2, <1>10 DEF InValue
  <2> QED BY <2>1
<1>6. CASE o < u + k + v + 3
  <2>1. c # "CR"
    <3>1. (u < o /\ o <= u + k) \/ o = u + k + 1 \/ o = u + k + 2 \/ (u + k + 2 < o /\ o < u + k + v + 3)
      BY <1>5, <1>6
    <3> QED BY <1>3, <3>1 DEF LineReads
  <2>2. q.h = "VALUE" /\ KeepsKey(p, q) /\ q.vs = p.vs /\ KeepsLine(p, q)
    BY <1>0, <2>1
  <2>3. CleanValue(q, j) \/ DirtyLine(q)
    BY <1>4, <2>2 DEF CleanValue, CleanColon, CleanKey, DirtyLine, DirtyKey, KeepsKey
  <2>4. U(j - 1) <= Offset(i) /\ Offset(i) <= U(j) - 2
    <3>1. u <= o /\ o <= u + k + v + 2
      BY <1>5, <1>6
    <3> QED BY <1>2, <1>10, <3>1
  <2>5. InValue(q, i, j)
    BY <1>1, <2>2, <2>3, <2>4 DEF InValue
  <2>6. Holds(q, j) /\ q.end = "more" /\ PairsTrue(q.headers)
    BY <2>2, HoldsOn
  <2>7. OnLine(q, i, j)
    BY <2>5, <2>6 DEF OnLine
  <2> QED BY <1>0, <2>6, <2>7, LineIsTracked DEF q
<1>7. CASE o = u + k + v + 3
  <2>1. c = "CR"
    BY <1>3, <1>7 DEF LineReads
  <2>2. ASSUME CleanValue(p, j) PROVE p.vs \in Int /\ i \in Int /\ i = p.vs + v
    <3>0. p.ks \in 1 .. Len(inBuffer) /\ Offset(p.ks) = U(j - 1) + 1 /\ p.vs = p.ks + K(j) + 2
      BY <2>2 DEF CleanValue, CleanColon, CleanKey
    <3>5. p.ks \in Int /\ i \in Int
      BY <3>0
    <3>6. Offset(p.ks) = u + 1 /\ p.vs = p.ks + k + 2
      BY <1>10, <3>0, Zenon
    <3>1. p.ks \in Int /\ i \in Int /\ Offset(p.ks) = u + 1 /\ p.vs = p.ks + k + 2
      BY <3>5, <3>6
    <3>2. Offset(i) = Offset(p.ks) + (i - p.ks)
      BY <1>1, <3>1, OffsetGap
    <3>3. u + k + v + 3 = u + 1 + (i - p.ks)
      BY <1>2, <1>7, <3>1, <3>2
    <3>4. i = p.ks + k + 2 + v
      BY <3>1, <3>3
    <3> QED BY <3>1, <3>4
  <2>3. CASE i <= p.vs /\ Refused(p, q)
    <3>1. ~CleanValue(p, j)
      BY <2>2, <2>3
    <3>2. ~Fresh
      BY <1>4, <3>1 DEF DirtyLine, DirtyKey
    <3> QED BY <1>0, <2>3, <3>2, RefusedIsTracked DEF q
  <2>4. CASE q.h = "CR" /\ KeepsKey(p, q) /\ q.vs = p.vs /\ q.ve = i /\ KeepsLine(p, q)
    <3>1. ASSUME CleanValue(p, j) PROVE CleanLine(q, j)
      BY <1>3, <2>2, <2>4, <3>1 DEF CleanLine, CleanValue, CleanColon, CleanKey, KeepsKey
    <3>2. CleanLine(q, j) \/ DirtyLine(q)
      BY <1>4, <2>4, <3>1 DEF DirtyLine, DirtyKey, KeepsKey
    <3>3. Offset(i) = U(j) - 1
      BY <1>2, <1>7, <1>10
    <3>4. InCR(q, i, j)
      BY <1>1, <2>4, <3>2, <3>3 DEF InCR
    <3>5. Holds(q, j) /\ q.end = "more" /\ PairsTrue(q.headers)
      BY <2>4, HoldsOn
    <3>6. OnLine(q, i, j)
      BY <3>4, <3>5 DEF OnLine
    <3> QED BY <1>0, <3>5, <3>6, LineIsTracked DEF q
  <2> QED BY <1>0, <2>1, <2>3, <2>4
<1> QED BY <1>5, <1>6, <1>7

\* A header is stored.
LEMMA PutPairs ==
    ASSUME NEW hs, PairsTrue(hs), NEW key, NEW value,
           <<key, value>> \in HeadersOf(Asked) \/ Improper(key)
    PROVE  PairsTrue(Put(hs, key, value))
<1>1. <<key, value>>[1] = key
  OBVIOUS
<1> QED BY <1>1 DEF PairsTrue, Put

\* The headers of the request are headers.
LEMMA AskedHeader ==
    ASSUME Window, More, NEW j \in 1 .. N
    PROVE  /\ Asked.headers[j] = <<Asked.headers[j][1], Asked.headers[j][2]>>
           /\ Asked.headers[j] \in HeadersOf(Asked)
           /\ \A m \in 1 .. N : Asked.headers[m][1] = Asked.headers[j][1] => m = j
<1>1. /\ Asked \in Request /\ DOMAIN Asked.headers = 1 .. N /\ Asked.headers[j] \in Header
      /\ \A m \in 1 .. N : Asked.headers[m][1] = Asked.headers[j][1] => m = j
  BY Sizes, RequestTypes DEF N
<1>2. Asked.headers[j] = <<Asked.headers[j][1], Asked.headers[j][2]>>
  <2> DEFINE A == Word(Letters)
             B == Word(Letters \cup {":", " "})
  <2>1. Asked.headers[j] \in A \X B
    BY <1>1 DEF Header
  <2> HIDE DEF A, B
  <2> QED BY <2>1
<1>3. Asked.headers[j] \in HeadersOf(Asked)
  BY <1>1 DEF HeadersOf, ToSet
<1> QED BY <1>1, <1>2, <1>3

\* Storing the next header of the request.
LEMMA PutFirst ==
    ASSUME Window, More, NEW j \in 1 .. N
    PROVE  Put(FirstOf(j - 1), Asked.headers[j][1], Asked.headers[j][2]) = FirstOf(j)
<1> DEFINE h(m) == Asked.headers[m]
<1>1. h(j) = <<h(j)[1], h(j)[2]>> /\ \A m \in 1 .. N : h(m)[1] = h(j)[1] => m = j
  BY AskedHeader
<1>2. N \in Nat
  BY Sizes
<1>3. \A m \in 1 .. j - 1 : m \in 1 .. N /\ m # j
  BY <1>2
<1>4. FirstOf(j - 1) = {h(m) : m \in 1 .. j - 1} /\ FirstOf(j) = {h(m) : m \in 1 .. j}
  BY DEF FirstOf
<1>5. 1 .. j = 1 .. j - 1 \cup {j}
  BY <1>2
<1> HIDE DEF h
<1>6. Put(FirstOf(j - 1), h(j)[1], h(j)[2]) = {x \in FirstOf(j - 1) : x[1] # h(j)[1]} \cup {h(j)}
  BY <1>1 DEF Put
<1>7. {x \in FirstOf(j - 1) : x[1] # h(j)[1]} = FirstOf(j - 1)
  BY <1>1, <1>3, <1>4
<1>8. FirstOf(j - 1) \cup {h(j)} = FirstOf(j)
  BY <1>4, <1>5
<1> QED BY <1>6, <1>7, <1>8 DEF h

\* CR: what is stored is the header that was sent, or has a key that nobody sends.
LEMMA TrackCR ==
    ASSUME Reading, NEW i \in 1 .. Len(inBuffer), NEW p, IsScan(p), PairsTrue(p.headers), p.end = "more",
           NEW j \in 1 .. N + 1, Holds(p, j), InCR(p, i - 1, j)
    PROVE  Tracked(Taken(p, i), i)
<1> DEFINE c == inBuffer[i]
           q == Taken(p, i)
           key == Text(p.ks, p.ke)
           value == Text(p.vs, p.ve)
<1>0. /\ IsScan(q) /\ q.n = i
      /\ c = "LF" => q.h = "LF" /\ q.begin = i /\ q.end = "more" /\ q.headers = Put(p.headers, key, value)
  BY AtCR DEF InCR
<1> HIDE DEF q
<1>1. Window /\ More /\ j \in 1 .. N /\ N \in Nat
  BY Sizes DEF Reading, InCR
<1>2. PICK o \in Int : o = Offset(i) /\ o - 1 = Offset(i - 1)
  BY <1>1, NextOffset
<1>3. PICK u \in Nat, k \in Nat \ {0}, v \in Nat \ {0} :
          /\ u = U(j - 1) /\ k = K(j) /\ v = V(j) /\ U(j) = u + k + v + 4
          /\ U(j) - 1 = u + k + v + 3 /\ Opening(j + 1) = u + k + v + 3 /\ LineReads(c, o, u, k, v)
  BY <1>1, <1>2, LineNumbers
<1>15. U(j) = u + k + v + 4 /\ U(j) - 1 = u + k + v + 3 /\ Opening(j + 1) = u + k + v + 3
  BY <1>3
<1>4. CleanLine(p, j) \/ DirtyLine(p)
  BY DEF InCR
<1>5. o = u + k + v + 4
  <2>1. o - 1 = u + k + v + 3
    BY <1>2, <1>15 DEF InCR
  <2> QED BY <2>1
<1>6. c = "LF"
  BY <1>3, <1>5 DEF LineReads
<1>7. q.h = "LF" /\ q.begin = i /\ q.end = "more" /\ q.headers = Put(p.headers, key, value)
  BY <1>0, <1>6
<1>8. ASSUME CleanLine(p, j) PROVE key = Asked.headers[j][1] /\ value = Asked.headers[j][2]
  <2>1. /\ p.ks \in 1 .. Len(inBuffer) /\ Offset(p.ks) = u + 1
        /\ p.ke = p.ks + k /\ p.vs = p.ks + k + 2 /\ p.ve = p.vs + v
    BY <1>3, <1>8 DEF CleanLine, CleanValue, CleanColon, CleanKey
  <2>2. PICK a \in 1 .. Len(inBuffer) : a = p.ks
    BY <2>1
  <2>3. Offset(i) = Offset(a) + (i - a)
    BY <1>1, OffsetGap
  <2>4. i = a + k + v + 3
    <3>1. u + k + v + 4 = u + 1 + (i - a)
      BY <1>2, <1>5, <2>1, <2>2, <2>3
    <3> QED BY <3>1
  <2>5. Len(inBuffer) \in Nat
    BY <1>1, LenProperties DEF Window
  <2>6. a + k \in 1 .. Len(inBuffer) /\ a + k + 2 \in 1 .. Len(inBuffer)
        /\ a + k + 2 + v \in 1 .. Len(inBuffer)
    BY <2>4, <2>5
  <2>7. Offset(a + k + 2) = u + k + 3
    <3>1. a + k + 2 \in Int /\ a \in Int /\ a + k + 2 - a = k + 2
      OBVIOUS
    <3>2. Offset(a + k + 2) = Offset(a) + (a + k + 2 - a)
      BY <1>1, <3>1, OffsetGap
    <3>3. Offset(a + k + 2) = u + 1 + (k + 2)
      BY <2>1, <2>2, <3>1, <3>2
    <3> QED BY <3>3
  <2>8. Text(a, a + k) = Asked.headers[j][1]
    BY <1>1, <1>3, <2>1, <2>2, <2>6, HeaderStored
  <2>9. Text(a + k + 2, a + k + 2 + v) = Asked.headers[j][2]
    BY <1>1, <1>3, <2>6, <2>7, HeaderStored
  <2> QED BY <2>1, <2>2, <2>8, <2>9
<1>9. ASSUME DirtyLine(p) PROVE Improper(key)
  BY <1>1, <1>9, StaleText DEF DirtyLine, DirtyKey
<1>10. PairsTrue(q.headers)
  <2>1. <<key, value>> \in HeadersOf(Asked) \/ Improper(key)
    BY <1>1, <1>4, <1>8, <1>9, AskedHeader
  <2> HIDE DEF key, value
  <2> QED BY <1>7, <2>1, PutPairs
<1>11. Fresh => q.headers = FirstOf(j + 1 - 1)
  <2>1. SUFFICES ASSUME Fresh PROVE q.headers = FirstOf(j + 1 - 1)
    OBVIOUS
  <2>2. CleanLine(p, j) /\ p.headers = FirstOf(j - 1)
    BY <1>4, <2>1 DEF DirtyLine, DirtyKey, Holds
  <2>3. q.headers = FirstOf(j)
    BY <1>1, <1>7, <1>8, <2>2, PutFirst
  <2>4. j + 1 - 1 = j
    BY <1>1
  <2> QED BY <2>3, <2>4
<1>12. Holds(q, j + 1)
  <2>1. Offset(q.begin) = Opening(j + 1) + 1
    <3>1. o = Opening(j + 1) + 1
      BY <1>5, <1>15
    <3> QED BY <1>2, <1>7, <3>1
  <2> QED BY <1>11, <2>1 DEF Holds
<1>13. InLF(q, i, j + 1)
  <2>1. j + 1 \in 2 .. N + 1 /\ j + 1 - 1 = j
    BY <1>1
  <2>2. Offset(i) = U(j)
    BY <1>2, <1>5, <1>15
  <2> QED BY <1>7, <2>1, <2>2 DEF InLF
<1>14. j + 1 \in 1 .. N + 1 /\ OnLine(q, i, j + 1)
  BY <1>1, <1>12, <1>13 DEF OnLine
<1> QED BY <1>0, <1>7, <1>10, <1>14, LineIsTracked DEF q

\* LF.
LEMMA TrackLF ==
    ASSUME Reading, NEW i \in 1 .. Len(inBuffer), NEW p, IsScan(p), PairsTrue(p.headers), p.end = "more",
           NEW j \in 1 .. N + 1, Holds(p, j), InLF(p, i - 1, j)
    PROVE  Tracked(Taken(p, i), i)
<1> DEFINE c == inBuffer[i]
           q == Taken(p, i)
<1>0. /\ IsScan(q) /\ q.n = i /\ KeepsLine(p, q)
      /\ c = "CR" => q.h = "END_CR"
      /\ c # "CR" => q.h = "KEY" /\ q.ks = i
  BY AtLF DEF InLF
<1> HIDE DEF q
<1>1. Window /\ More /\ N \in Nat \ {0}
  BY Sizes DEF Reading
<1>2. PICK o \in Int : o = Offset(i) /\ o - 1 = Offset(i - 1)
  BY <1>1, NextOffset
<1>3. o - 1 = U(j - 1)
  BY <1>2 DEF InLF
<1>4. Holds(q, j) /\ q.end = "more" /\ PairsTrue(q.headers)
  BY <1>0, HoldsOn
<1>5. CASE j = N + 1
  <2>1. U(j - 1) = U(N)
    <3>1. j - 1 = N
      BY <1>1, <1>5
    <3> QED BY <3>1
  <2>2. Offset(i) = U(N) + 1
    BY <1>2, <1>3, <2>1
  <2>3. c = "CR"
    BY <1>1, <2>2, Seen
  <2>4. InEndCR(q, i, j)
    BY <1>0, <1>5, <2>2, <2>3 DEF InEndCR
  <2>5. OnLine(q, i, j)
    BY <1>4, <2>4 DEF OnLine
  <2> QED BY <1>0, <1>4, <2>5, LineIsTracked DEF q
<1>6. CASE j \in 1 .. N
  <2>1. PICK u \in Nat, k \in Nat \ {0}, v \in Nat \ {0} :
            u = U(j - 1) /\ k = K(j) /\ LineReads(c, o, u, k, v)
    BY <1>1, <1>2, <1>6, LineNumbers
  <2>2. o = u + 1
    BY <1>3, <2>1
  <2>3. u < o /\ o <= u + k
    BY <2>2
  <2>4. c # "CR"
    BY <2>1, <2>3 DEF LineReads
  <2>5. q.h = "KEY" /\ q.ks = i
    BY <1>0, <2>4
  <2>6. CleanKey(q, j)
    <3>1. Offset(i) = U(j - 1) + 1
      BY <1>2, <2>1, <2>2, Zenon
    <3> QED BY <2>5, <3>1 DEF CleanKey
  <2>7. U(j - 1) <= Offset(i) /\ Offset(i) <= U(j - 1) + K(j)
    <3>1. u <= o /\ o <= u + k
      BY <2>3
    <3> QED BY <1>2, <2>1, <3>1, Zenon
  <2>8. InKey(q, i, j)
    BY <1>6, <2>5, <2>6, <2>7 DEF InKey
  <2>9. OnLine(q, i, j)
    BY <1>4, <2>8 DEF OnLine
  <2> QED BY <1>0, <1>4, <2>9, LineIsTracked DEF q
<1> QED BY <1>1, <1>5, <1>6

\* END_CR.
LEMMA TrackEndCR ==
    ASSUME Reading, NEW i \in 1 .. Len(inBuffer), NEW p, IsScan(p), PairsTrue(p.headers), p.end = "more",
           NEW j \in 1 .. N + 1, Holds(p, j), InEndCR(p, i - 1, j)
    PROVE  Tracked(Taken(p, i), i)
<1> DEFINE c == inBuffer[i]
           q == Taken(p, i)
<1>0. /\ IsScan(q) /\ q.n = i
      /\ c = "LF" => q.h = "END_LF" /\ KeepsLine(p, q)
  BY AtEndCR DEF InEndCR
<1> HIDE DEF q
<1>1. Window /\ More /\ N \in Nat \ {0} /\ U(N) \in Nat /\ Start \in Nat
  <2>1. Window /\ More
    BY DEF Reading
  <2>2. N \in Nat \ {0} /\ Start \in Nat
    BY <2>1, Sizes
  <2>3. N \in 0 .. N
    BY <2>2
  <2> QED BY <2>1, <2>2, <2>3, Sizes
<1>2. PICK o \in Int : o = Offset(i) /\ o - 1 = Offset(i - 1)
  BY <1>1, NextOffset
<1>3. Offset(i) = U(N) + 2
  BY <1>1, <1>2 DEF InEndCR
<1>4. c = "LF"
  BY <1>1, <1>3, Seen
<1>5. q.h = "END_LF" /\ KeepsLine(p, q)
  BY <1>0, <1>4
<1>6. Reach >= U(N) + 2
  <2>1. Received \in Nat /\ Len(inBuffer) \in Nat /\ Gone = Received - Len(inBuffer)
    BY <1>1, LenProperties DEF Window, Gone
  <2>2. Offset(i) = Gone + i - Start /\ Reach = Received - Start
    BY DEF Offset, Reach
  <2>3. Offset(i) <= Reach
    BY <1>1, <2>1, <2>2
  <2>4. Reach \in Int /\ Offset(i) \in Int
    BY <1>1, <1>2, <2>1, <2>2
  <2> QED BY <1>1, <1>3, <2>3, <2>4
<1>7. Holds(q, j) /\ q.end = "more" /\ PairsTrue(q.headers)
  BY <1>5, HoldsOn
<1>8. InEndLF(q, i, j)
  BY <1>3, <1>5, <1>6 DEF InEndLF, InEndCR
<1>9. OnLine(q, i, j)
  BY <1>7, <1>8 DEF OnLine
<1> QED BY <1>0, <1>7, <1>9, LineIsTracked DEF q

\* END_LF.
LEMMA TrackEndLF ==
    ASSUME Reading, NEW i \in 1 .. Len(inBuffer), NEW p, IsScan(p), PairsTrue(p.headers), p.end = "more",
           NEW j \in 1 .. N + 1, Holds(p, j), InEndLF(p, i - 1, j)
    PROVE  Tracked(Taken(p, i), i)
<1> DEFINE q == Taken(p, i)
<1>0. IsScan(q) /\ q.n = i /\ q.h = "END_LF" /\ q.headers = p.headers /\ q.end = "stop"
  BY AtEndLF DEF InEndLF
<1> HIDE DEF q
<1>1. Window /\ More /\ N \in Nat
  BY Sizes DEF Reading
<1>2. PICK o \in Int : o = Offset(i) /\ o - 1 = Offset(i - 1)
  BY <1>1, NextOffset
<1>3. U(N) \in Nat
  <2>1. N \in 0 .. N
    BY <1>1
  <2> QED BY <1>1, <2>1, Sizes
<1>4. Offset(i) = U(N) + 3 \/ (Offset(i) = U(N) + 1 /\ ~Fresh)
  <2>1. o - 1 = U(N) + 2 \/ (o - 1 = U(N) /\ ~Fresh)
    BY <1>2 DEF InEndLF
  <2>2. o = U(N) + 3 \/ (o = U(N) + 1 /\ ~Fresh)
    BY <1>3, <2>1
  <2> QED BY <1>2, <2>2
<1>5. Fresh => q.headers = FirstOf(N)
  <2>1. j - 1 = N
    BY <1>1 DEF InEndLF
  <2> QED BY <1>0, <2>1 DEF Holds
<1>6. q.n \in 1 .. i /\ Reach >= U(N) + 2
  BY <1>0 DEF InEndLF
<1> QED BY <1>0, <1>4, <1>5, <1>6 DEF Tracked, q

\* Any step of the scan.
LEMMA TrackStep ==
    ASSUME Reading, NEW i \in 1 .. Len(inBuffer), NEW p, Tracked(p, i - 1)
    PROVE  Tracked(Taken(p, i), i)
<1>1. CASE p.end = "more"
  <2>1. IsScan(p) /\ PairsTrue(p.headers) /\ Going(p, i - 1)
    BY <1>1 DEF Tracked
  <2>2. CASE Before1(p, i - 1) \/ LostStart(p, i - 1)
    BY <1>1, <2>1, <2>2, TrackStart
  <2>3. CASE LostKey(p, i - 1)
    BY <1>1, <2>1, <2>3, TrackLostKey
  <2>4. CASE \E j \in 1 .. N + 1 : OnLine(p, i - 1, j)
    <3>1. PICK j \in 1 .. N + 1 : OnLine(p, i - 1, j)
      BY <2>4
    <3>2. Holds(p, j)
      BY <3>1 DEF OnLine
    <3>3. CASE InKey(p, i - 1, j)
      BY <1>1, <2>1, <3>2, <3>3, TrackKey
    <3>4. CASE InColon(p, i - 1, j)
      BY <1>1, <2>1, <3>2, <3>4, TrackColon
    <3>5. CASE InSpaces(p, i - 1, j)
      BY <1>1, <2>1, <3>2, <3>5, TrackSpaces
    <3>6. CASE InValue(p, i - 1, j)
      BY <1>1, <2>1, <3>2, <3>6, TrackValue
    <3>7. CASE InCR(p, i - 1, j)
      BY <1>1, <2>1, <3>2, <3>7, TrackCR
    <3>8. CASE InLF(p, i - 1, j)
      BY <1>1, <2>1, <3>2, <3>8, TrackLF
    <3>9. CASE InEndCR(p, i - 1, j)
      BY <1>1, <2>1, <3>2, <3>9, TrackEndCR
    <3>10. CASE InEndLF(p, i - 1, j)
      BY <1>1, <2>1, <3>2, <3>10, TrackEndLF
    <3> QED BY <3>1, <3>3, <3>4, <3>5, <3>6, <3>7, <3>8, <3>9, <3>10 DEF OnLine
  <2> QED BY <2>1, <2>2, <2>3, <2>4 DEF Going
<1>2. CASE p.end # "more"
  <2>1. Taken(p, i) = p
    BY <1>2 DEF Taken
  <2>2. 1 .. i - 1 \subseteq 1 .. i
    OBVIOUS
  <2> QED BY <1>2, <2>1, <2>2 DEF Tracked
<1> QED BY <1>1, <1>2

-------------------------------------------------------------------------------
(* The whole scan.                                                         *)

\* Where the parser waits in the headers: before line j, in the state an earlier scan left.
Position(j) ==
    /\ Offset(0) = Opening(j)
    /\ \/ hState = "KEY" /\ j \in 1 .. N + 1
       \/ hState \in {"COLON", "SPACES", "VALUE", "CR"} /\ j \in 1 .. N
       \/ hState = "LF" /\ j \in 2 .. N + 1
       \/ hState = "END_CR" /\ j = N + 1 /\ Reach >= U(N) + 1 /\ (pc = "parse" => Reach >= U(N) + 2)

InHeaders ==
    /\ hState = "START" => headers = {}
    /\ PairsTrue(headers)
    /\ pc = "idle" => Reach <= U(N) + 1
    /\ \/ hState = "START" /\ Offset(0) = 4
       \/ hState = "START" /\ Offset(0) \in {-1, 0} /\ Reach >= 3 /\ pc = "parse"
       \/ hState = "KEY" /\ Offset(0) = 0 /\ Reach >= 3
       \/ \E j \in 1 .. N + 1 : Position(j)

\* The scan before its first step.
LEMMA NoScanFields ==
    /\ NoScan.h = hState /\ NoScan.ks = 0 /\ NoScan.ke = 0 /\ NoScan.vs = 0 /\ NoScan.ve = 0
    /\ NoScan.begin = 1 /\ NoScan.n = 0 /\ NoScan.headers = headers /\ NoScan.end = "more"
    /\ hState \in States /\ Unique(headers) => IsScan(NoScan)
BY DEF NoScan, IsScan

\* The first symbol that a scan finds when it continues in line j.
LEMMA EnterSymbol ==
    ASSUME Window, More, NEW j \in 1 .. N + 1, 1 \in 1 .. Len(inBuffer), Offset(0) = Opening(j)
    PROVE  /\ Offset(1) = Opening(j) + 1
           /\ j = 1 => U(0) = 5 /\ Offset(1) = 6 /\ inBuffer[1] \notin {"CR", "LF", ":", " "}
           /\ j # 1 => Offset(1) = U(j - 1) /\ inBuffer[1] = "LF"
<1>1. PICK o \in Int : o = Offset(1) /\ o - 1 = Offset(0)
  <2>1. 1 - 1 = 0
    OBVIOUS
  <2> QED BY <2>1, NextOffset
<1>2. N \in Nat \ {0} /\ U(0) = 5 /\ K(1) \in Nat \ {0}
  BY Sizes
<1>3. CASE j = 1
  <2>1. o = 6 /\ Opening(j) = 5
    <3>1. Opening(j) = 5
      BY <1>3 DEF Opening
    <3> QED BY <1>1, <3>1
  <2>2. 1 \in 1 .. N /\ U(1 - 1) = 5
    BY <1>2
  <2>3. U(1 - 1) < Offset(1) /\ Offset(1) <= U(1 - 1) + K(1)
    BY <1>1, <1>2, <2>1, <2>2
  <2>4. inBuffer[1] \notin {"CR", "LF", ":", " "}
    BY <2>2, <2>3, SeenHeader
  <2>5. Offset(1) = 6 /\ Offset(1) = Opening(j) + 1
    BY <1>1, <2>1
  <2> QED BY <1>2, <1>3, <2>4, <2>5
<1>4. CASE j # 1
  <2>1. PICK m \in 1 .. N : m = j - 1
    BY <1>2, <1>4
  <2>2. U(m) \in Nat
    <3>1. m \in 0 .. N
      BY <1>2
    <3> QED BY <3>1, Sizes
  <2>3. Opening(j) = U(m) - 1
    BY <1>4, <2>1 DEF Opening
  <2>4. Offset(1) = U(m)
    BY <1>1, <2>2, <2>3
  <2>5. inBuffer[1] = "LF"
    BY <2>4, SeenHeader
  <2>6. Opening(j) + 1 = U(m)
    BY <2>2, <2>3
  <2> QED BY <1>4, <2>1, <2>4, <2>5, <2>6
<1> QED BY <1>3, <1>4

\* The first step of a scan that continues in line j.
LEMMA Enter ==
    ASSUME Reading, NEW j \in 1 .. N + 1, Position(j), hState \in States, Unique(headers),
           PairsTrue(headers), 1 \in 1 .. Len(inBuffer), pc = "parse"
    PROVE  Tracked(Taken(NoScan, 1), 1)
<1> DEFINE c == inBuffer[1]
           p == NoScan
           q == Taken(p, 1)
<1>1. Window /\ More /\ N \in Nat \ {0}
  BY Sizes DEF Reading
<1>2. Offset(0) = Opening(j) /\ hState # "START"
  BY DEF Position
<1>3. ~Fresh
  BY <1>2 DEF Fresh
<1>4. /\ Offset(1) = Opening(j) + 1
      /\ j = 1 => U(0) = 5 /\ Offset(1) = 6 /\ c \notin {"CR", "LF", ":", " "}
      /\ j # 1 => Offset(1) = U(j - 1) /\ c = "LF"
  BY <1>1, <1>2, EnterSymbol
<1>5. /\ IsScan(p) /\ p.h = hState /\ p.ks = 0 /\ p.ke = 0 /\ p.vs = 0 /\ p.begin = 1 /\ p.n = 0
      /\ p.headers = headers /\ p.end = "more" /\ PairsTrue(p.headers)
  BY NoScanFields
<1>6. c # "CR"
  BY <1>4
<1>21. j # 1 => c = "LF"
  BY <1>4
<1>22. j = 1 => U(0) = 5 /\ Offset(1) = 6
  BY <1>4
<1>23. j # 1 => Offset(1) = U(j - 1)
  BY <1>4
<1>7. Holds(p, j)
  BY <1>3, <1>4, <1>5 DEF Holds
<1>8. DirtyLine(p)
  <2>1. Len(inBuffer) \in Nat
    BY <1>1, LenProperties DEF Window
  <2>2. 0 \in 0 .. Len(inBuffer)
    BY <2>1
  <2> QED BY <1>3, <1>5, <2>2 DEF DirtyLine, DirtyKey, Stale
<1> HIDE DEF p
<1>9. CASE hState = "KEY" /\ j = 1
  <2>1. PICK o \in Int : o = Offset(1) /\ o - 1 = Offset(1 - 1)
    BY <1>1, NextOffset
  <2>2. U(j - 1) = 5 /\ K(j) \in Nat \ {0} /\ j \in 1 .. N
    <3>1. j - 1 = 0 /\ j \in 1 .. N
      BY <1>1, <1>9
    <3> QED BY <1>1, <1>4, <1>9, <3>1, Sizes
  <2>3. Offset(1 - 1) = 5
    BY <1>9, <1>22, <2>1
  <2>4. U(j - 1) <= Offset(1 - 1) /\ Offset(1 - 1) <= U(j - 1) + K(j)
    BY <2>2, <2>3
  <2>5. InKey(p, 1 - 1, j)
    BY <1>5, <1>8, <1>9, <2>2, <2>4 DEF InKey, DirtyLine
  <2>6. Tracked(Taken(p, 1), 1)
    BY <1>5, <1>7, <2>5, TrackKey
  <2> QED BY <2>6 DEF p
<1>10. ASSUME IsScan(q), Refused(p, q) PROVE Tracked(Taken(NoScan, 1), 1)
  BY <1>3, <1>5, <1>10, RefusedIsTracked DEF p
<1>11. ASSUME IsScan(q), q.n = 1, KeepsLine(p, q), NEW k \in 1 .. N + 1, k = j,
              \/ InKey(q, 1, k) \/ InColon(q, 1, k) \/ InSpaces(q, 1, k) \/ InValue(q, 1, k)
              \/ InCR(q, 1, k) \/ InLF(q, 1, k) \/ InEndCR(q, 1, k) \/ InEndLF(q, 1, k)
       PROVE  Tracked(Taken(NoScan, 1), 1)
  <2>1. Holds(q, j) /\ q.end = "more" /\ PairsTrue(q.headers)
    BY <1>5, <1>7, <1>11, HoldsOn
  <2>2. OnLine(q, 1, j)
    BY <1>11, <2>1 DEF OnLine
  <2> QED BY <1>11, <2>1, <2>2, LineIsTracked DEF p
<1>12. CASE hState = "KEY" /\ j # 1
  <2>1. IsScan(q) /\ Refused(p, q)
    BY <1>5, <1>12, <1>21, AtKey
  <2> QED BY <1>10, <2>1
<1>13. CASE hState = "COLON"
  <2>1. c # " "
    BY <1>4
  <2>2. IsScan(q) /\ Refused(p, q)
    BY <1>5, <1>13, <2>1, AtColon
  <2> QED BY <1>10, <2>2
<1>14. ASSUME j \in 1 .. N PROVE U(j - 1) <= Offset(1) /\ Offset(1) <= U(j) - 2
  <2>0. Window /\ More
    BY <1>1
  <2>1. PICK u \in Nat, k \in Nat \ {0}, v \in Nat \ {0} : u = U(j - 1) /\ U(j) - 2 = u + k + v + 2
    BY <1>14, <2>0, LineNumbers
  <2>2. Offset(1) = u \/ Offset(1) = u + 1
    <3>1. j = 1 => j - 1 = 0
      OBVIOUS
    <3>2. j = 1 => u = 5
      BY <1>22, <2>1, <3>1
    <3>3. j = 1 => Offset(1) = 5 + 1
      BY <1>22
    <3>4. j # 1 => Offset(1) = u
      BY <1>23, <2>1
    <3> QED BY <3>2, <3>3, <3>4
  <2>3. u <= Offset(1) /\ Offset(1) <= u + k + v + 2
    BY <2>2
  <2> QED BY <2>1, <2>3
<1>15. CASE hState = "SPACES"
  <2>1. IsScan(q) /\ q.n = 1 /\ q.h = "VALUE" /\ KeepsKey(p, q) /\ KeepsLine(p, q)
    BY <1>5, <1>15, AtSpaces
  <2>2. j \in 1 .. N
    BY <1>15 DEF Position
  <2>3. DirtyLine(q)
    BY <1>8, <2>1 DEF DirtyLine, DirtyKey, KeepsKey
  <2>4. InValue(q, 1, j)
    BY <1>14, <2>1, <2>2, <2>3 DEF InValue
  <2> QED BY <1>11, <2>1, <2>4
<1>16. CASE hState = "VALUE"
  <2>1. IsScan(q) /\ q.n = 1 /\ q.h = "VALUE" /\ KeepsKey(p, q) /\ KeepsLine(p, q)
    BY <1>5, <1>6, <1>16, AtValue
  <2>2. j \in 1 .. N
    BY <1>16 DEF Position
  <2>3. DirtyLine(q)
    BY <1>8, <2>1 DEF DirtyLine, DirtyKey, KeepsKey
  <2>4. InValue(q, 1, j)
    BY <1>14, <2>1, <2>2, <2>3 DEF InValue
  <2> QED BY <1>11, <2>1, <2>4
<1>17. CASE hState = "CR" /\ j = 1
  <2>1. c # "LF"
    BY <1>4, <1>17
  <2>2. IsScan(q) /\ Refused(p, q)
    BY <1>5, <1>17, <2>1, AtCR
  <2> QED BY <1>10, <2>2
<1>18. CASE hState = "CR" /\ j # 1
  <2>1. /\ IsScan(q) /\ q.n = 1 /\ q.h = "LF" /\ q.begin = 1 /\ q.end = "more"
        /\ q.headers = Put(p.headers, Text(p.ks, p.ke), Text(p.vs, p.ve))
    BY <1>5, <1>18, <1>21, AtCR
  <2>2. Improper(Text(p.ks, p.ke))
    BY <1>5 DEF Text, Improper
  <2>3. PairsTrue(q.headers)
    BY <1>5, <2>1, <2>2, PutPairs
  <2>4. j \in 2 .. N + 1
    BY <1>1, <1>18
  <2>5. InLF(q, 1, j)
    BY <1>4, <1>18, <2>1, <2>4 DEF InLF
  <2>6. Holds(q, j)
    BY <1>3, <1>4, <2>1 DEF Holds
  <2>7. OnLine(q, 1, j)
    BY <2>5, <2>6 DEF OnLine
  <2> QED BY <2>1, <2>3, <2>7, LineIsTracked DEF p
<1>19. CASE hState = "LF"
  <2>1. IsScan(q) /\ q.n = 1 /\ KeepsLine(p, q) /\ q.h = "KEY" /\ q.ks = 1
    BY <1>5, <1>6, <1>19, AtLF
  <2>2. j \in 2 .. N + 1
    BY <1>19 DEF Position
  <2>3. j # 1
    BY <2>2
  <2>4. Offset(1) = U(j - 1) /\ c = "LF"
    BY <1>4, <2>3
  <2>5. DirtyKey(q)
    BY <1>3, <2>1, <2>4 DEF DirtyKey, Stale
  <2>6. InKey(q, 1, j)
    <3>1. CASE j = N + 1
      <4>1. U(j - 1) = U(N)
        <5>1. j - 1 = N
          BY <1>1, <3>1
        <5> QED BY <5>1
      <4>2. U(N) \in Nat
        <5>1. N \in 0 .. N
          BY <1>1
        <5> QED BY <1>1, <5>1, Sizes
      <4>3. U(j - 1) <= Offset(1) /\ Offset(1) = U(N)
        BY <2>4, <4>1, <4>2
      <4> QED BY <2>1, <2>5, <3>1, <4>3 DEF InKey
    <3>2. CASE j \in 1 .. N
      <4>1. PICK u \in Nat, k \in Nat \ {0}, v \in Nat \ {0} : u = U(j - 1) /\ k = K(j)
        BY <1>1, <3>2, LineNumbers
      <4>2. u <= u /\ u <= u + k
        OBVIOUS
      <4>3. U(j - 1) <= Offset(1) /\ Offset(1) <= U(j - 1) + K(j)
        BY <2>4, <4>1, <4>2, Zenon
      <4> QED BY <2>1, <2>5, <3>2, <4>3 DEF InKey
    <3> QED BY <1>1, <3>1, <3>2
  <2> QED BY <1>11, <2>1, <2>6
<1>20. CASE hState = "END_CR"
  <2>1. j = N + 1 /\ Reach >= U(N) + 2 /\ j # 1 /\ j - 1 = N
    <3>1. j = N + 1 /\ Reach >= U(N) + 2
      BY <1>20 DEF Position
    <3> QED BY <1>1, <3>1
  <2>2. Offset(1) = U(N) /\ c = "LF"
    BY <1>4, <2>1
  <2>3. IsScan(q) /\ q.n = 1 /\ q.h = "END_LF" /\ KeepsLine(p, q)
    BY <1>5, <1>20, <2>2, AtEndCR
  <2>4. InEndLF(q, 1, j)
    BY <1>3, <2>1, <2>2, <2>3 DEF InEndLF
  <2> QED BY <1>11, <2>3, <2>4
<1> QED BY <1>9, <1>12, <1>13, <1>15, <1>16, <1>17, <1>18, <1>19, <1>20 DEF Position

\* The line begins where it did, or at the symbol that is being looked at.
LEMMA BeginKept ==
    ASSUME NEW p, NEW i, IsScan(p)
    PROVE  Taken(p, i).begin \in {p.begin, i}
<1>1. CASE p.end # "more"
  BY <1>1 DEF Taken
<1>2. CASE p.end = "more"
  <2>1. Switch(p, i).begin \in {p.begin, i}
    <3>1. \A q : q \in {Bad(p), p} => q.begin = p.begin
      BY DEF Bad, IsScan
    <3>2. p.h \in States
      BY DEF IsScan
    <3>3. CASE p.h = "START"
      BY <3>1, <3>3 DEF Switch, IsScan
    <3>4. CASE p.h \in {"KEY", "COLON"}
      BY <3>1, <3>4 DEF Switch, IsScan
    <3>5. CASE p.h \in {"SPACES", "VALUE"}
      BY <3>1, <3>5 DEF Switch, IsScan
    <3>6. CASE p.h \in {"CR", "LF"}
      BY <3>1, <3>6 DEF Switch, IsScan
    <3>7. CASE p.h \in {"END_CR", "END_LF"}
      BY <3>1, <3>7 DEF Switch, IsScan
    <3> QED BY <3>2, <3>3, <3>4, <3>5, <3>6, <3>7 DEF States
  <2> QED BY <1>2, <2>1 DEF Taken
<1> QED BY <1>1, <1>2

\* The whole scan, by induction on its steps.
LEMMA ScanTracked ==
    ASSUME Reading, InHeaders, hState \in States, Unique(headers), pc = "parse"
    PROVE  /\ IsScan(Scan)
           /\ Len(inBuffer) = 0 => Scan = NoScan
           /\ Len(inBuffer) # 0 => Tracked(Scan, Len(inBuffer)) /\ Scan.begin \in 1 .. Len(inBuffer)
<1> DEFINE L == Len(inBuffer)
<1>0. Window /\ More /\ L \in Nat
  BY LenProperties DEF Reading, Window
<1>1. PICK f : /\ f[0] = NoScan /\ Scan = f[L]
               /\ \A n \in 1 .. L : f[n] = Taken(f[n - 1], n)
  BY <1>0, ScanSteps
<1> DEFINE T == {n \in 0 .. L : n = 0 \/ (Tracked(f[n], n) /\ f[n].begin \in 1 .. n)}
<1>2. 0 \in T
  BY <1>0
<1>3. ASSUME NEW n \in 1 .. L, n - 1 \in T PROVE n \in T
  <2>1. n \in 0 .. L
    OBVIOUS
  <2>2. CASE n = 1
    <3>1. f[1] = Taken(NoScan, 1) /\ 1 \in 1 .. L
      <4>1. 1 - 1 = 0 /\ 1 \in 1 .. L
        BY <2>2
      <4> QED BY <1>1, <4>1
    <3>2. ASSUME Tracked(NoScan, 0) PROVE Tracked(f[1], 1)
      <4>1. 1 - 1 = 0
        OBVIOUS
      <4> QED BY <3>1, <3>2, <4>1, TrackStep
    <3>3. /\ NoScan.h = hState /\ NoScan.begin = 1 /\ NoScan.n = 0 /\ NoScan.headers = headers
          /\ NoScan.end = "more" /\ IsScan(NoScan) /\ PairsTrue(headers)
      BY NoScanFields DEF InHeaders
    <3>4. PICK o \in Int : o = Offset(1) /\ o - 1 = Offset(0)
      <4>1. 1 - 1 = 0
        OBVIOUS
      <4> QED BY <1>0, <3>1, <4>1, NextOffset
    <3>5. ASSUME Going(NoScan, 0) PROVE Tracked(f[1], 1)
      BY <3>2, <3>3, <3>5, GoingIsTracked
    <3>6. ASSUME hState = "START", Offset(0) = 4 PROVE Tracked(f[1], 1)
      <4>1. Offset(1) = 5
        BY <3>4, <3>6
      <4>2. Before1(NoScan, 0)
        BY <3>3, <3>6, <4>1 DEF Before1, InHeaders
      <4> QED BY <3>5, <4>2 DEF Going
    <3>7. ASSUME hState = "START", Offset(0) \in {-1, 0} PROVE Tracked(f[1], 1)
      <4>1. ~Fresh
        BY <3>7 DEF Fresh
      <4>2. LostStart(NoScan, 0)
        BY <3>3, <3>7, <4>1 DEF LostStart
      <4> QED BY <3>5, <4>2 DEF Going
    <3>8. ASSUME hState = "KEY", Offset(0) = 0 PROVE Tracked(f[1], 1)
      <4>1. Offset(1) = 1 /\ Offset(0) \in 0 .. 3
        BY <3>4, <3>8
      <4>2. LostKey(NoScan, 0)
        BY <3>3, <3>8, <4>1 DEF LostKey, Fresh
      <4> QED BY <3>5, <4>2 DEF Going
    <3>9. ASSUME \E j \in 1 .. N + 1 : Position(j) PROVE Tracked(f[1], 1)
      <4>1. Tracked(Taken(NoScan, 1), 1)
        BY <3>1, <3>3, <3>9, Enter
      <4> QED BY <3>1, <4>1
    <3>10. Tracked(f[1], 1)
      BY <3>6, <3>7, <3>8, <3>9 DEF InHeaders
    <3>11. f[1].begin \in 1 .. 1
      BY <3>1, <3>3, BeginKept
    <3> QED BY <2>1, <2>2, <3>10, <3>11
  <2>3. CASE n # 1
    <3>1. n - 1 # 0
      BY <2>3
    <3>2. Tracked(f[n - 1], n - 1) /\ f[n - 1].begin \in 1 .. n - 1
      BY <1>3, <3>1
    <3>3. Tracked(Taken(f[n - 1], n), n)
      BY <3>2, TrackStep
    <3>4. Taken(f[n - 1], n).begin \in {f[n - 1].begin, n}
      BY <3>2, BeginKept DEF Tracked
    <3>5. Taken(f[n - 1], n).begin \in 1 .. n
      BY <3>2, <3>4
    <3> QED BY <1>1, <2>1, <3>3, <3>5
  <2> QED BY <2>2, <2>3
<1>4. 0 .. L \subseteq T
  <2> HIDE DEF T, L
  <2> QED BY <1>0, <1>2, <1>3, UpTo
<1>5. L \in T
  BY <1>0, <1>4
<1>6. L # 0 => Tracked(Scan, L) /\ Scan.begin \in 1 .. L
  BY <1>1, <1>5
<1>7. L = 0 => Scan = NoScan
  BY <1>1
<1>8. IsScan(Scan)
  <2>1. L = 0 => IsScan(Scan)
    BY <1>7, NoScanFields
  <2> QED BY <1>6, <2>1 DEF Tracked
<1> QED BY <1>6, <1>7, <1>8

\* Every line is before the end of the headers.
LEMMA GoingBound ==
    ASSUME Reading, NEW i \in 0 .. Len(inBuffer), NEW p, Going(p, i), p.h # "END_LF"
    PROVE  Offset(i) <= U(N) + 1
<1>1. Window /\ More /\ N \in Nat \ {0} /\ U(0) = 5
  BY Sizes DEF Reading
<1>2. \A j \in 0 .. N : U(j) \in Nat /\ U(j) <= U(N)
  BY <1>1, Sizes
<1>3. PICK e \in Nat : e = U(N) /\ e >= 5
  <2>1. N \in 0 .. N /\ 0 \in 0 .. N
    BY <1>1
  <2>2. U(N) \in Nat /\ U(0) <= U(N)
    BY <1>2, <2>1
  <2> QED BY <1>1, <2>2
<1>4. CASE Before1(p, i) \/ LostStart(p, i) \/ LostKey(p, i)
  BY <1>3, <1>4 DEF Before1, LostStart, LostKey
<1>5. CASE \E j \in 1 .. N + 1 : OnLine(p, i, j)
  <2>1. PICK j \in 1 .. N + 1 : OnLine(p, i, j)
    BY <1>5
  <2>2. CASE InEndCR(p, i, j)
    BY <1>3, <2>2 DEF InEndCR
  <2>3. CASE InLF(p, i, j)
    <3>1. PICK m \in 0 .. N : m = j - 1
      BY <1>1, <2>3 DEF InLF
    <3>2. PICK u \in Nat : u = U(m) /\ u <= e
      BY <1>2, <1>3
    <3>3. Offset(i) = u
      BY <2>3, <3>1, <3>2 DEF InLF
    <3> QED BY <1>3, <3>2, <3>3
  <2>4. CASE InKey(p, i, j) /\ j = N + 1
    <3>1. Offset(i) = U(N)
      BY <1>1, <2>4 DEF InKey
    <3> QED BY <1>3, <3>1
  <2>5. ASSUME j \in 1 .. N, Offset(i) <= U(j - 1) + K(j) \/ Offset(i) = U(j - 1) + K(j) + 1
                             \/ Offset(i) = U(j - 1) + K(j) + 2 \/ Offset(i) <= U(j) - 2
                             \/ Offset(i) = U(j) - 1
        PROVE  Offset(i) <= U(N) + 1
    <3>1. PICK u \in Nat, k \in Nat \ {0}, v \in Nat \ {0} :
              /\ u = U(j - 1) /\ k = K(j) /\ U(j) = u + k + v + 4
              /\ U(j) - 1 = u + k + v + 3 /\ U(j) - 2 = u + k + v + 2
      BY <1>1, <2>5, LineNumbers
    <3>2. u + k + v + 4 <= e
      <4>1. j \in 0 .. N
        BY <1>1, <2>5
      <4> QED BY <1>2, <1>3, <3>1, <4>1
    <3>3. Offset(i) \in Int
      <4>1. i \in Int /\ 0 \in Int
        BY <1>1, LenProperties DEF Window
      <4> QED BY <1>1, <4>1, OffsetGap
    <3>4. PICK o \in Int : o = Offset(i)
      BY <3>3
    <3>5. o <= u + k \/ o = u + k + 1 \/ o = u + k + 2 \/ o <= u + k + v + 2 \/ o = u + k + v + 3
      BY <2>5, <3>1, <3>4, Zenon
    <3>6. o <= e + 1
      BY <3>2, <3>5
    <3> QED BY <1>3, <3>4, <3>6
  <2>6. CASE InKey(p, i, j) /\ j # N + 1
    BY <1>1, <2>5, <2>6 DEF InKey
  <2>7. CASE InColon(p, i, j)
    BY <2>5, <2>7 DEF InColon
  <2>8. CASE InSpaces(p, i, j)
    BY <2>5, <2>8 DEF InSpaces
  <2>9. CASE InValue(p, i, j)
    BY <2>5, <2>9 DEF InValue
  <2>10. CASE InCR(p, i, j)
    BY <2>5, <2>10 DEF InCR
  <2>11. ~InEndLF(p, i, j)
    BY DEF InEndLF
  <2> QED BY <2>1, <2>2, <2>3, <2>4, <2>6, <2>7, <2>8, <2>9, <2>10, <2>11 DEF OnLine
<1> QED BY <1>4, <1>5 DEF Going

-------------------------------------------------------------------------------
(* The request line.                                                       *)

\* Two symbols that follow one another.
LEMMA PairAt ==
    ASSUME NEW S, NEW s \in Seq(S), NEW i \in 1 .. Len(s) - 1, NEW x \in S, NEW y \in S
    PROVE  SubSeq(s, i, i + 1) = <<x, y>> <=> s[i] = x /\ s[i + 1] = y
<1> DEFINE t == SubSeq(s, i, i + 1)
           u == <<x, y>>
<1>1. Len(s) \in Nat /\ \A k \in i .. i + 1 : s[k] \in S
  BY LenProperties, ElementOfSeq
<1>2. t \in Seq(S) /\ Len(t) = 2 /\ t[1] = s[i] /\ t[2] = s[i + 1]
  <2>1. /\ t \in Seq(S) /\ Len(t) = IF i <= i + 1 THEN i + 1 - i + 1 ELSE 0
        /\ \A k \in 1 .. i + 1 - i + 1 : t[k] = s[i + k - 1]
    BY <1>1, SubSeqProperties
  <2> HIDE DEF t
  <2>2. i <= i + 1 /\ i + 1 - i + 1 = 2 /\ i + 1 - 1 = i /\ i + 2 - 1 = i + 1
    OBVIOUS
  <2>3. t[1] = s[i + 1 - 1] /\ t[2] = s[i + 2 - 1]
    BY <2>1, <2>2
  <2> QED BY <2>1, <2>2, <2>3
<1>3. u \in Seq(S) /\ Len(u) = 2 /\ u[1] = x /\ u[2] = y
  OBVIOUS
<1> HIDE DEF t, u
<1>4. ASSUME s[i] = x, s[i + 1] = y PROVE t = u
  <2>1. \A k \in 1 .. Len(t) : t[k] = u[k]
    <3>1. \A k \in 1 .. 2 : k = 1 \/ k = 2
      OBVIOUS
    <3> QED BY <1>2, <1>3, <1>4, <3>1
  <2> QED BY <1>2, <1>3, <2>1, SeqEqual
<1>5. t = u => s[i] = x /\ s[i + 1] = y
  BY <1>2, <1>3
<1> QED BY <1>4, <1>5 DEF t, u

\* The symbols of the methods.
LEMMA PairSymbols ==
    /\ "G" \in Symbol /\ "ET" \in Symbol /\ "P" \in Symbol /\ "OST" \in Symbol
    /\ "H" \in Symbol /\ "EAD" \in Symbol
    /\ GET = <<"G", "ET">> /\ POST = <<"P", "OST">> /\ HEAD = <<"H", "EAD">>
BY DEF Symbol, ToSet, GET, POST, HEAD

\* A line has a method where its two symbols follow one another.
LEMMA MethodPairs ==
    ASSUME NEW s \in Seq(Symbol)
    PROVE  /\ HasPair(s, GET) <=> \E i \in 1 .. Len(s) - 1 : s[i] = "G" /\ s[i + 1] = "ET"
           /\ HasPair(s, POST) <=> \E i \in 1 .. Len(s) - 1 : s[i] = "P" /\ s[i + 1] = "OST"
           /\ HasPair(s, HEAD) <=> \E i \in 1 .. Len(s) - 1 : s[i] = "H" /\ s[i + 1] = "EAD"
<1>1. \A i \in 1 .. Len(s) - 1 : SubSeq(s, i, i + 1) = GET <=> s[i] = "G" /\ s[i + 1] = "ET"
  BY PairSymbols, PairAt
<1>2. \A i \in 1 .. Len(s) - 1 : SubSeq(s, i, i + 1) = POST <=> s[i] = "P" /\ s[i + 1] = "OST"
  BY PairSymbols, PairAt
<1>3. \A i \in 1 .. Len(s) - 1 : SubSeq(s, i, i + 1) = HEAD <=> s[i] = "H" /\ s[i + 1] = "EAD"
  BY PairSymbols, PairAt
<1> QED BY <1>1, <1>2, <1>3 DEF HasPair

\* A line is what there is before the first CR.
LEMMA CutProperties ==
    ASSUME NEW s \in Seq(Symbol)
    PROVE  LET line == Cut(s).line
               rest == Cut(s).rest
           IN  /\ line \in Seq(Symbol) /\ Len(line) \in 0 .. Len(s)
               /\ \A i \in 1 .. Len(line) : line[i] = s[i] /\ line[i] # "CR"
               /\ \/ rest = s /\ Len(line) = Len(s)
                  \/ /\ Len(line) + 1 \in 1 .. Len(s) /\ s[Len(line) + 1] = "CR"
                     /\ rest = SubSeq(s, Len(line) + 2, Len(s))
<1> DEFINE crs == {i \in DOMAIN s : s[i] = "CR"}
           p == CHOOSE i \in crs : \A j \in crs : i <= j
<1>1. Len(s) \in Nat /\ DOMAIN s = 1 .. Len(s)
  BY LenProperties
<1>2. CASE crs = {}
  <2>1. Cut(s) = [line |-> s, rest |-> s]
    BY <1>2 DEF Cut
  <2>2. Cut(s).line = s /\ Cut(s).rest = s
    BY <2>1
  <2>3. \A i \in 1 .. Len(s) : s[i] # "CR"
    BY <1>1, <1>2
  <2>4. Len(s) \in 0 .. Len(s)
    BY <1>1
  <2> QED BY <2>2, <2>3, <2>4
<1>3. CASE crs # {}
  <2>1. p \in crs /\ \A j \in crs : p <= j
    <3>1. crs \in SUBSET Nat
      BY <1>1
    <3> HIDE DEF crs
    <3>2. \E i \in crs : \A j \in crs : i <= j
      BY <1>3, <3>1, LeastMember
    <3> QED BY <3>2
  <2>2. Cut(s) = [line |-> SubSeq(s, 1, p - 1), rest |-> SubSeq(s, p + 1, Len(s))]
    BY <1>3 DEF Cut
  <2>3. Cut(s).line = SubSeq(s, 1, p - 1) /\ Cut(s).rest = SubSeq(s, p + 1, Len(s))
    <3>1. \A a, b : LET c == [line |-> a, rest |-> b] IN c.line = a /\ c.rest = b
      OBVIOUS
    <3> HIDE DEF p
    <3> QED BY <2>2, <3>1, Zenon
  <2>4. PICK k \in 1 .. Len(s) : k = p /\ s[k] = "CR" /\ \A i \in 1 .. Len(s) : s[i] = "CR" => k <= i
    <3> HIDE DEF p
    <3> QED BY <1>1, <2>1
  <2> HIDE DEF p, crs
  <2>5. k - 1 \in 0 .. Len(s) /\ k - 1 + 1 = k /\ k - 1 + 2 = k + 1
    BY <1>1
  <2> DEFINE line == SubSeq(s, 1, k - 1)
  <2>6. line \in Seq(Symbol) /\ Len(line) = k - 1 /\ \A i \in 1 .. k - 1 : line[i] = s[i]
    BY <2>5, PrefixProperties
  <2>7. \A i \in 1 .. k - 1 : s[i] # "CR"
    BY <1>1, <2>4
  <2> HIDE DEF line
  <2>8. Cut(s).line = line /\ Cut(s).rest = SubSeq(s, k + 1, Len(s))
    BY <2>3, <2>4 DEF line
  <2>9. Len(line) \in 0 .. Len(s) /\ Len(line) + 1 = k /\ Len(line) + 2 = k + 1
    BY <2>5, <2>6
  <2> QED BY <2>4, <2>6, <2>7, <2>8, <2>9
<1> QED BY <1>2, <1>3

\* What the parser calls a method.
MethodName(m) == IF m = GET THEN "GET" ELSE IF m = POST THEN "POST" ELSE "HEAD"

\* What the first line of the buffer is when a request line is expected.
LEMMA LineFound ==
    ASSUME Reading, Offset(0) \in {-1, 0, 1}
    PROVE  LET line == Cut(inBuffer).line
           IN  /\ Len(line) <= 3 - Offset(0)
               /\ MethodOf(line) # "none" =>
                     /\ Offset(0) \in {-1, 0}
                     /\ MethodOf(line) = MethodName(Asked.method)
               /\ Contains(line, Version) => Len(line) = 3 - Offset(0)
               /\ Len(line) < Len(inBuffer) => Len(line) = 3 - Offset(0)
               /\ Offset(0) = 0 /\ Len(line) = 3 => MethodOf(line) # "none" /\ Contains(line, Version)
<1> DEFINE line == Cut(inBuffer).line
           m == Len(line)
<1>1. Window /\ More /\ inBuffer \in Seq(Symbol) /\ Len(inBuffer) \in Nat
  BY LenProperties DEF Reading, Window
<1>2. /\ line \in Seq(Symbol) /\ m \in 0 .. Len(inBuffer)
      /\ \A i \in 1 .. m : line[i] = inBuffer[i] /\ line[i] # "CR"
  BY <1>1, CutProperties
<1>3. PICK o \in {-1, 0, 1} : o = Offset(0)
  OBVIOUS
<1> HIDE DEF line
<1>4. m \in Nat /\ \A i \in 1 .. m : i \in 1 .. Len(inBuffer)
  BY <1>1, <1>2
<1>5. ASSUME NEW i \in 1 .. m PROVE Offset(i) = o + i
  <2>1. i \in Int /\ 0 \in Int /\ i - 0 = i
    OBVIOUS
  <2> QED BY <1>1, <1>3, <2>1, OffsetGap
<1>6. PICK x, y : x = Asked.method[1] /\ y = Asked.method[2]
  OBVIOUS
<1>7. \/ Asked.method = GET /\ x = "G" /\ y = "ET"
      \/ Asked.method = POST /\ x = "P" /\ y = "OST"
      \/ Asked.method = HEAD /\ x = "H" /\ y = "EAD"
  <2>1. Asked.method = GET \/ Asked.method = POST \/ Asked.method = HEAD
    BY <1>1, Sizes, RequestTypes
  <2> QED BY <1>6, <2>1 DEF GET, POST, HEAD
<1>17. ASSUME NEW i \in 1 .. Len(inBuffer), Offset(i) = 0 PROVE inBuffer[i] = "LF"
  <2>1. Len(answers) \in Nat /\ Len(answers) <= Len(sent)
    BY <1>1, WireText DEF More, Window
  <2>2. Len(answers) # 0
    <3>1. Len(answers) = 0 => Start = 0
      BY <1>1, WireText DEF Start, Window
    <3>2. Gone \in Nat /\ Offset(i) = Gone + i - Start
      BY <1>1 DEF Window, Offset
    <3> QED BY <1>17, <3>1, <3>2
  <2> QED BY <1>1, <1>17, <2>1, <2>2, SeenBefore DEF Reading
<1>8. ASSUME NEW i \in 1 .. m
      PROVE  /\ o + i = 0 => line[i] = "LF"
             /\ o + i = 1 => line[i] = x
             /\ o + i = 2 => line[i] = y
             /\ o + i = 3 => line[i] = Version
             /\ o + i # 4
  <2>1. i \in 1 .. Len(inBuffer) /\ line[i] = inBuffer[i] /\ line[i] # "CR" /\ Offset(i) = o + i
    BY <1>2, <1>4, <1>5
  <2>2. /\ Offset(i) = 1 => line[i] = x
        /\ Offset(i) = 2 => line[i] = y
        /\ Offset(i) = 3 => line[i] = Version
        /\ Offset(i) # 4
    BY <1>1, <1>6, <2>1, Seen
  <2>3. ASSUME Offset(i) = 0 PROVE line[i] = "LF"
    BY <1>17, <2>1, <2>3
  <2> QED BY <2>1, <2>2, <2>3
<1>9. m <= 3 - o
  <2>1. SUFFICES ASSUME m > 3 - o PROVE FALSE
    BY <1>3, <1>4
  <2>2. 4 - o \in 1 .. m /\ o + (4 - o) = 4
    BY <1>4, <2>1
  <2> QED BY <1>8, <2>2
<1>10. ASSUME NEW i \in 1 .. m, line[i] \in {"G", "P", "H"} PROVE o + i = 1
  <2>1. o + i \in {0, 1, 2, 3}
    BY <1>4, <1>9
  <2>2. y \notin {"G", "P", "H"} /\ Version \notin {"G", "P", "H"}
    BY <1>7 DEF Version
  <2>3. o + i # 0
    BY <1>8, <1>10
  <2>4. o + i # 2 /\ o + i # 3
    BY <1>8, <1>10, <2>2
  <2> QED BY <2>1, <2>3, <2>4
<1>11. ASSUME HasPair(line, GET) PROVE o \in {-1, 0} /\ Asked.method = GET
  <2>1. PICK i \in 1 .. m - 1 : line[i] = "G"
    BY <1>2, <1>11, MethodPairs
  <2>2. i \in 1 .. m
    BY <1>4
  <2>3. o + i = 1
    BY <1>10, <2>1, <2>2
  <2>4. x = "G"
    BY <1>8, <2>1, <2>2, <2>3
  <2>5. o \in {-1, 0}
    BY <2>2, <2>3
  <2> QED BY <1>7, <2>4, <2>5
<1>12. ASSUME HasPair(line, POST) PROVE o \in {-1, 0} /\ Asked.method = POST
  <2>1. PICK i \in 1 .. m - 1 : line[i] = "P"
    BY <1>2, <1>12, MethodPairs
  <2>2. i \in 1 .. m
    BY <1>4
  <2>3. o + i = 1
    BY <1>10, <2>1, <2>2
  <2>4. x = "P"
    BY <1>8, <2>1, <2>2, <2>3
  <2>5. o \in {-1, 0}
    BY <2>2, <2>3
  <2> QED BY <1>7, <2>4, <2>5
<1>18. ASSUME HasPair(line, HEAD) PROVE o \in {-1, 0} /\ Asked.method = HEAD
  <2>1. PICK i \in 1 .. m - 1 : line[i] = "H"
    BY <1>2, <1>18, MethodPairs
  <2>2. i \in 1 .. m
    BY <1>4
  <2>3. o + i = 1
    BY <1>10, <2>1, <2>2
  <2>4. x = "H"
    BY <1>8, <2>1, <2>2, <2>3
  <2>5. o \in {-1, 0}
    BY <2>2, <2>3
  <2> QED BY <1>7, <2>4, <2>5
<1>13. MethodOf(line) # "none" =>
           o \in {-1, 0} /\ MethodOf(line) = MethodName(Asked.method)
  <2>1. GET # POST /\ GET # HEAD /\ POST # HEAD
    BY DEF GET, POST, HEAD
  <2> QED BY <1>11, <1>12, <1>18, <2>1 DEF MethodOf, MethodName
<1>14. ASSUME Contains(line, Version) PROVE m = 3 - o
  <2>1. PICK i \in 1 .. m : line[i] = Version
    BY <1>14 DEF Contains
  <2>2. Version \notin {"LF", "G", "P", "H", "ET", "OST", "EAD"}
    BY DEF Version
  <2>3. o + i \in {0, 1, 2, 3}
    BY <1>4, <1>9
  <2>4. o + i # 0 /\ o + i # 1 /\ o + i # 2
    BY <1>7, <1>8, <2>1, <2>2
  <2> QED BY <1>4, <1>9, <2>3, <2>4
<1>15. ASSUME o = 0, m = 3 PROVE MethodOf(line) # "none" /\ Contains(line, Version)
  <2>1. line[1] = x /\ line[2] = y /\ line[3] = Version
    BY <1>8, <1>15
  <2>2. 3 \in 1 .. Len(line) /\ 1 \in 1 .. Len(line) - 1 /\ 1 + 1 = 2
    BY <1>15
  <2>3. Contains(line, Version)
    BY <2>1, <2>2 DEF Contains
  <2>4. HasPair(line, GET) \/ HasPair(line, POST) \/ HasPair(line, HEAD)
    BY <1>2, <1>7, <2>1, <2>2, MethodPairs
  <2> QED BY <2>3, <2>4 DEF MethodOf
<1>16. ASSUME m < Len(inBuffer) PROVE m = 3 - o
  <2>1. PICK i \in 1 .. Len(inBuffer) : i = m + 1
    BY <1>1, <1>4, <1>16
  <2>2. inBuffer[i] = "CR"
    <3>1. \/ Len(line) = Len(inBuffer)
          \/ inBuffer[Len(line) + 1] = "CR"
      BY <1>1, CutProperties DEF line
    <3> QED BY <1>1, <1>4, <1>16, <2>1, <3>1
  <2>3. Offset(i) = o + i
    <3>1. i \in Int /\ 0 \in Int /\ i - 0 = i
      OBVIOUS
    <3> QED BY <1>1, <1>3, <3>1, OffsetGap
  <2>4. /\ Offset(i) = 1 => inBuffer[i] = x
        /\ Offset(i) = 2 => inBuffer[i] = y
        /\ Offset(i) = 3 => inBuffer[i] = Version
    BY <1>1, <1>6, Seen
  <2>5. x # "CR" /\ y # "CR" /\ Version # "CR"
    BY <1>7 DEF Version
  <2>6. Offset(i) = 0 => inBuffer[i] = "LF"
    BY <1>1, <1>17
  <2>7. o + i \notin {0, 1, 2, 3}
    BY <2>2, <2>3, <2>4, <2>5, <2>6
  <2> QED BY <1>4, <1>9, <2>1, <2>7
<1> QED BY <1>3, <1>9, <1>13, <1>14, <1>15, <1>16 DEF line

-------------------------------------------------------------------------------
(* The inductive invariant.                                                *)

Types ==
    /\ sent \in Streams
    /\ state \in {"URI", "HEADERS", "BODY", "ANALYSIS"}
    /\ hState \in States
    /\ method \in {"GET", "POST", "HEAD"}
    /\ error \in BOOLEAN /\ split \in BOOLEAN /\ joined \in BOOLEAN
    /\ connectionState \in {"CONNECTED", "DISCONNECTING"}
    /\ pc \in {"idle", "parse", "again", "crashed"}
    /\ Unique(headers)

\* answers is a sequence.
Listed == \E S : answers \in Seq(S)

\* Where the next request ends.
NextEnd == Before(sent, Len(answers) + 1)

Kind == MethodName(Asked.method)

\* The request that is being read is a POST with a length that stoi does not understand.
BadLength == /\ Asked.method = POST
             /\ \E h \in HeadersOf(Asked) : h[1] = <<"L">> /\ Stoi(h[2]).throws

\* Requests are answered in turn, and none is a POST.
Turn ==
    /\ Len(answers) <= Len(sent) /\ Start <= Received
    /\ \A i \in 1 .. Len(answers) : sent[i].method # POST
    /\ pc = "crashed" => BadLength
    /\ error => pc = "idle"
    /\ pc = "again" => state = "URI"
    /\ state # "URI" => Len(answers) < Len(sent) /\ PairsTrue(headers)

\* What has come beyond the request that is being read came in one piece with a part of it, or
\* with the request before it.
Beyond ==
    ~error =>
        /\ Len(answers) < Len(sent) /\ Asked.method # POST /\ Received > NextEnd => joined
        /\ state = "URI" /\ pc # "parse" /\ Received > Start => joined

\* The buffer begins with a request, one symbol before it or one after.
AtURI ==
    state = "URI" =>
        /\ hState = "START" /\ headers = {}
        /\ ~error => Offset(0) \in {-1, 0, 1}
        /\ ~error /\ pc = "idle" => inBuffer = <<>> \/ connectionState = "DISCONNECTING"

AtHEADERS == state = "HEADERS" /\ ~error => method = Kind /\ InHeaders

\* All headers have been read, and one symbol too many or too few is gone.
Past ==
    state \in {"BODY", "ANALYSIS"} /\ ~error =>
        /\ method = Kind
        /\ Reach >= U(N) + 2
        /\ Offset(0) \in {U(N) + 1, U(N) + 2, U(N) + 3}
        /\ state = "BODY" => method = "POST"
        /\ state = "ANALYSIS" => pc = "parse"

\* When every piece is one request.
WholeIdle == pc = "idle" /\ state # "BODY" => state = "URI" /\ Received = Start
WholeParse == pc # "again" /\ (pc = "parse" => Len(answers) < Len(sent))
WholeURI == state = "URI" => Offset(0) = 0 /\ (pc = "parse" => Received = NextEnd)
WholeHEADERS == state = "HEADERS" => Fresh /\ pc = "parse" /\ Received = NextEnd
WholePast ==
    state \in {"BODY", "ANALYSIS"} =>
        /\ Received >= NextEnd
        /\ state = "ANALYSIS" /\ method # "POST" =>
               headers = HeadersOf(Asked) /\ inBuffer = <<>> /\ Received = NextEnd
WholeError == Len(answers) < Len(sent) /\ Asked.method = POST /\ Received >= NextEnd

Whole ==
    ~split /\ ~joined =>
        /\ \A i \in 1 .. Len(answers) : answers[i] = HeadersOf(sent[i])
        /\ error => WholeError
        /\ ~error => WholeIdle /\ WholeParse /\ WholeURI /\ WholeHEADERS /\ WholePast

IInv == Types /\ Window /\ Listed /\ Turn /\ Beyond /\ AtURI /\ AtHEADERS /\ Past /\ Whole

-------------------------------------------------------------------------------
(* What the steps have in common.                                          *)

\* Numbers that each step needs.
LEMMA Basics ==
    ASSUME Window, Listed, Turn
    PROVE  /\ Len(answers) \in 0 .. Len(sent) /\ Len(sent) \in Nat
           /\ Start \in Nat /\ Received \in Nat /\ Gone \in Nat /\ Start <= Received
           /\ Len(inBuffer) \in Nat /\ Len(wire) \in Nat
           /\ Received = Gone + Len(inBuffer) /\ Received + Len(wire) = Len(Wire(sent))
           /\ Offset(0) = Gone - Start /\ Reach = Offset(0) + Len(inBuffer)
<1>1. Len(answers) \in Nat
  BY LenProperties DEF Listed
<1>2. Len(sent) \in Nat /\ Len(Wire(sent)) \in Nat
  BY WireText, LenProperties DEF Window
<1>3. Len(answers) \in 0 .. Len(sent)
  BY <1>1, <1>2 DEF Turn
<1>4. Start \in Nat
  BY <1>3, WireText DEF Window, Start
<1>5. Received \in Nat /\ Gone \in Nat /\ Len(inBuffer) \in Nat /\ Len(wire) \in Nat /\ Start <= Received
  BY LenProperties DEF Window, Turn
<1>6. Received = Gone + Len(inBuffer) /\ Received + Len(wire) = Len(Wire(sent))
  BY <1>2, <1>5 DEF Gone, Received
<1>7. Offset(0) = Gone - Start
  BY <1>4, <1>5 DEF Offset
<1>8. Reach = Offset(0) + Len(inBuffer)
  BY <1>4, <1>5, <1>6, <1>7 DEF Reach
<1> QED BY <1>2, <1>3, <1>4, <1>5, <1>6, <1>7, <1>8

\* The request that is being read ends after its headers.
LEMMA Numbers ==
    ASSUME Window, More
    PROVE  /\ U(N) \in Nat /\ U(N) >= 5 /\ N \in Nat \ {0} /\ Asked \in Request /\ Start \in Nat
           /\ NextEnd \in Nat /\ NextEnd >= Start + U(N) + 2
           /\ Asked.method # POST => NextEnd = Start + U(N) + 2
           /\ NextEnd \in Ends(sent)
<1>1. /\ Asked \in Request /\ Start \in Nat /\ N \in Nat \ {0} /\ U(0) = 5
      /\ NextEnd = Start + U(N) + 2 + Len(Asked.body) /\ Len(Asked.body) \in Nat
  BY Sizes DEF NextEnd
<1>2. U(N) \in Nat /\ U(N) >= 5
  <2>1. N \in 0 .. N /\ 0 \in 0 .. N
    BY <1>1
  <2>2. U(N) \in Nat /\ U(0) <= U(N)
    BY <2>1, Sizes
  <2> QED BY <1>1, <2>2
<1>3. ASSUME Asked.method # POST PROVE Len(Asked.body) = 0
  BY <1>1, <1>3, RequestTypes
<1>4. Len(answers) + 1 \in 0 .. Len(sent)
  BY WireText DEF Window, More
<1>5. NextEnd \in Ends(sent)
  BY <1>4 DEF Ends, NextEnd, Before
<1> QED BY <1>1, <1>2, <1>3, <1>5

\* A step that answers nothing goes on with the same request.
LEMMA SameRequest ==
    ASSUME sent' = sent, answers' = answers
    PROVE  /\ Asked' = Asked /\ Start' = Start /\ NextEnd' = NextEnd /\ Kind' = Kind /\ N' = N
           /\ \A j : U(j)' = U(j) /\ Opening(j)' = Opening(j)
           /\ Listed => Listed'
<1>1. Asked' = Asked
  BY DEF Asked
<1>2. N' = N /\ Kind' = Kind /\ \A j : U(j)' = U(j)
  BY <1>1 DEF N, Kind, U
<1>3. \A j : Opening(j)' = Opening(j)
  BY <1>2 DEF Opening
<1>4. Start' = Start /\ NextEnd' = NextEnd
  BY DEF Start, NextEnd
<1> QED BY <1>1, <1>2, <1>3, <1>4 DEF Listed

\* Only a POST is called so.
LEMMA PostKind == Kind = "POST" <=> Asked.method = POST
<1>1. GET # POST
  BY DEF GET, POST
<1> QED BY <1>1 DEF Kind, MethodName

\* A step of the parser in which nothing is received and nothing answered.
LEMMA BeyondKept ==
    ASSUME Beyond, ~error, Received' = Received, Asked' = Asked, NextEnd' = NextEnd, Start' = Start,
           answers' = answers, sent' = sent, joined' = joined, error' \/ state' # "URI" \/ pc' = "parse"
    PROVE  Beyond'
BY DEF Beyond

\* Symbols are taken from the front of the buffer.
LEMMA Consumed ==
    ASSUME Window, wire' = wire, sent' = sent, NEW m \in 0 .. Len(inBuffer),
           inBuffer' = SubSeq(inBuffer, m + 1, Len(inBuffer))
    PROVE  /\ Window' /\ Received' = Received /\ Gone' = Gone + m /\ Len(inBuffer') = Len(inBuffer) - m
<1> DEFINE L == Len(inBuffer)
           s == inBuffer'
<1>1. inBuffer \in Seq(Symbol) /\ L \in Nat /\ Received \in Nat /\ Gone \in Nat /\ Gone = Received - L
  BY LenProperties DEF Window, Gone
<1>2. s \in Seq(Symbol) /\ Len(s) = L - m /\ \A k \in 1 .. L - m : s[k] = inBuffer[m + k]
  <2>1. \A k \in m + 1 .. L : inBuffer[k] \in Symbol
    <3>1. m + 1 .. L \subseteq 1 .. L
      BY <1>1
    <3> QED BY <1>1, <3>1, ElementOfSeq
  <2>2. m + 1 \in Int /\ L \in Int
    BY <1>1
  <2>3. CASE m + 1 <= L
    <3>1. /\ s \in Seq(Symbol) /\ Len(s) = L - (m + 1) + 1
          /\ \A k \in 1 .. L - (m + 1) + 1 : s[k] = inBuffer[m + 1 + k - 1]
      BY <1>1, <2>3, <2>1, SubSeqProperties
    <3>2. L - (m + 1) + 1 = L - m
      BY <1>1
    <3>3. \A k \in 1 .. L - m : m + 1 + k - 1 = m + k
      BY <1>1
    <3> QED BY <3>1, <3>2, <3>3
  <2>4. CASE ~(m + 1 <= L)
    <3>1. m = L
      BY <1>1, <2>4
    <3>2. s = <<>>
      BY <1>1, <2>4, SubSeqProperties
    <3> QED BY <1>1, <3>1, <3>2
  <2> QED BY <2>3, <2>4
<1>3. Received' = Received
  BY DEF Received
<1>4. Gone' = Gone + m
  <2>1. Gone' = Received' - Len(s)
    BY DEF Gone
  <2> QED BY <1>1, <1>2, <1>3, <2>1
<1>5. \A i \in 1 .. Len(s) : s[i] = Wire(sent)[Gone' + i]
  <2>1. ASSUME NEW i \in 1 .. L - m PROVE s[i] = Wire(sent)[Gone' + i]
    <3>1. m + i \in 1 .. L /\ Gone + (m + i) = Gone + m + i
      BY <1>1
    <3>2. inBuffer[m + i] = Wire(sent)[Gone + (m + i)]
      BY <3>1 DEF Window
    <3> QED BY <1>2, <1>4, <3>1, <3>2
  <2> QED BY <1>2, <2>1
<1>6. Gone' \in Nat /\ Received' \in Nat
  BY <1>1, <1>3, <1>4
<1>7. Window'
  BY <1>2, <1>3, <1>5, <1>6 DEF Window
<1> QED BY <1>2, <1>3, <1>4, <1>7

\* A piece moves from the wire to the buffer.
LEMMA Grown ==
    ASSUME Window, sent' = sent, NEW n \in 0 .. Len(wire),
           inBuffer' = inBuffer \o SubSeq(wire, 1, n), wire' = SubSeq(wire, n + 1, Len(wire))
    PROVE  /\ Window' /\ Received' = Received + n /\ Gone' = Gone
<1> DEFINE L == Len(inBuffer)
           M == Len(wire)
           s == inBuffer'
           t == wire'
           piece == SubSeq(wire, 1, n)
<1>1. /\ inBuffer \in Seq(Symbol) /\ L \in Nat /\ Received \in Nat /\ Gone \in Nat
      /\ wire \in Seq(Symbol) /\ M \in Nat /\ Gone = Received - L
  BY LenProperties DEF Window, Gone
<1>2. piece \in Seq(Symbol) /\ Len(piece) = n /\ \A i \in 1 .. n : piece[i] = wire[i]
  <2>1. n \in 0 .. Len(wire)
    OBVIOUS
  <2> QED BY <1>1, <2>1, PrefixProperties
<1>3. t \in Seq(Symbol) /\ Len(t) = M - n /\ \A k \in 1 .. M - n : t[k] = wire[n + k]
  <2>1. \A k \in n + 1 .. M : wire[k] \in Symbol
    <3>1. n + 1 .. M \subseteq 1 .. M
      BY <1>1
    <3> QED BY <1>1, <3>1, ElementOfSeq
  <2>2. n + 1 \in Int /\ M \in Int
    BY <1>1
  <2>3. CASE n + 1 <= M
    <3>1. /\ t \in Seq(Symbol) /\ Len(t) = M - (n + 1) + 1
          /\ \A k \in 1 .. M - (n + 1) + 1 : t[k] = wire[n + 1 + k - 1]
      BY <1>1, <2>1, <2>3, SubSeqProperties
    <3>2. M - (n + 1) + 1 = M - n
      BY <1>1
    <3>3. \A k \in 1 .. M - n : n + 1 + k - 1 = n + k
      BY <1>1
    <3> QED BY <3>1, <3>2, <3>3
  <2>4. CASE ~(n + 1 <= M)
    <3>1. n = M
      BY <1>1, <2>4
    <3>2. t = <<>>
      BY <1>1, <2>4, SubSeqProperties
    <3> QED BY <1>1, <3>1, <3>2
  <2> QED BY <2>3, <2>4
<1> HIDE DEF piece
<1>4. /\ s \in Seq(Symbol) /\ Len(s) = L + n
      /\ \A i \in 1 .. L + n : s[i] = IF i <= L THEN inBuffer[i] ELSE piece[i - L]
  <2>1. s = inBuffer \o piece
    BY DEF piece
  <2> QED BY <1>1, <1>2, <2>1, ConcatProperties
<1>5. Received' = Received + n
  <2>1. Received = Len(Wire(sent)) - M /\ Received' = Len(Wire(sent)) - Len(t)
    BY DEF Received
  <2>2. Len(Wire(sent)) \in Nat
    BY WireText, LenProperties DEF Window
  <2> QED BY <1>1, <1>3, <2>1, <2>2
<1>6. Gone' = Gone
  <2>1. Gone' = Received' - Len(s)
    BY DEF Gone
  <2> QED BY <1>1, <1>4, <1>5, <2>1
<1>7. \A i \in 1 .. Len(t) : t[i] = Wire(sent)[Received' + i]
  <2>1. ASSUME NEW i \in 1 .. M - n PROVE t[i] = Wire(sent)[Received' + i]
    <3>1. n + i \in 1 .. M /\ Received + (n + i) = Received + n + i
      BY <1>1
    <3>2. wire[n + i] = Wire(sent)[Received + (n + i)]
      BY <3>1 DEF Window
    <3> QED BY <1>3, <1>5, <3>1, <3>2
  <2> QED BY <1>3, <2>1
<1>8. \A i \in 1 .. Len(s) : s[i] = Wire(sent)[Gone' + i]
  <2>1. ASSUME NEW i \in 1 .. L + n PROVE s[i] = Wire(sent)[Gone' + i]
    <3>1. CASE i <= L
      <4>1. i \in 1 .. L
        BY <1>1, <3>1
      <4>2. inBuffer[i] = Wire(sent)[Gone + i]
        BY <4>1 DEF Window
      <4> QED BY <1>4, <1>6, <3>1, <4>2
    <3>2. CASE ~(i <= L)
      <4>1. PICK k \in 1 .. n : i - L = k /\ i = L + k
        <5>1. i - L \in 1 .. n /\ i = L + (i - L)
          BY <1>1, <3>2
        <5> QED BY <5>1
      <4>2. s[i] = wire[k]
        BY <1>2, <1>4, <3>2, <4>1
      <4>3. wire[k] = Wire(sent)[Received + k]
        <5>1. k \in 1 .. Len(wire)
          BY <1>1
        <5> QED BY <5>1 DEF Window
      <4>4. Received + k = Gone + i
        BY <1>1, <4>1
      <4> QED BY <1>6, <4>2, <4>3, <4>4
    <3> QED BY <3>1, <3>2
  <2> QED BY <1>4, <2>1
<1>9. Window'
  <2>1. Gone' \in Nat /\ Received' \in Nat
    BY <1>1, <1>5, <1>6
  <2> QED BY <1>3, <1>4, <1>7, <1>8, <2>1 DEF Window
<1> QED BY <1>5, <1>6, <1>9

-------------------------------------------------------------------------------
(* The beginning, and a piece that arrives.                                *)

\* Nothing has come yet.
LEMMA InvInit == Init => IInv
<1> SUFFICES ASSUME Init PROVE IInv
  OBVIOUS
<1>1. sent \in Seq(Request) /\ Wire(sent) \in Seq(Symbol) /\ Len(Wire(sent)) \in Nat /\ Before(sent, 0) = 0
      /\ Len(sent) \in Nat
  BY StreamsAssumption, WireText, LenProperties DEF Init
<1>2. Received = 0 /\ Gone = 0 /\ Len(inBuffer) = 0 /\ Len(answers) = 0 /\ inBuffer \in Seq(Symbol)
  <2>1. inBuffer = <<>> /\ answers = <<>> /\ wire = Wire(sent)
    BY DEF Init
  <2>2. Len(inBuffer) = 0 /\ Len(answers) = 0 /\ inBuffer \in Seq(Symbol)
    BY <2>1
  <2>3. Received = 0
    BY <1>1, <2>1 DEF Received
  <2> QED BY <2>2, <2>3 DEF Gone
<1>3. Start = 0 /\ Offset(0) = 0
  <2>1. Start = 0
    BY <1>1, <1>2 DEF Start
  <2> QED BY <1>2, <2>1 DEF Offset
<1>4. Types
  BY DEF Init, Types, States, Unique
<1>5. Window
  <2>1. \A i \in 1 .. Len(wire) : wire[i] = Wire(sent)[Received + i]
    BY <1>1, <1>2 DEF Init
  <2>2. \A i \in 1 .. Len(inBuffer) : inBuffer[i] = Wire(sent)[Gone + i]
    BY <1>2
  <2>3. wire \in Seq(Symbol)
    BY <1>1 DEF Init
  <2> QED BY <1>1, <1>2, <2>1, <2>2, <2>3 DEF Window
<1>6. Listed
  <2>1. <<>> \in Seq({})
    OBVIOUS
  <2> QED BY <2>1 DEF Init, Listed
<1>7. Turn
  BY <1>1, <1>2, <1>3 DEF Init, Turn
<1>8. AtURI /\ AtHEADERS /\ Past
  BY <1>3 DEF Init, AtURI, AtHEADERS, Past
<1>9. Whole
  BY <1>2, <1>3 DEF Init, Whole, WholeIdle, WholeParse, WholeURI, WholeHEADERS, WholePast
<1>10. Beyond
  <2>1. Len(answers) < Len(sent) => NextEnd \in Nat
    BY <1>2, <1>5, Numbers DEF More
  <2> QED BY <1>2, <1>3, <2>1 DEF Beyond
<1> QED BY <1>4, <1>5, <1>6, <1>7, <1>8, <1>9, <1>10 DEF IInv

\* A piece that begins where a request begins, ends where one ends, and holds no more than one
\* holds the one that is next.
LEMMA OnePiece ==
    ASSUME Window, Listed, Turn, NEW n \in 1 .. Len(wire), Received = Start, Received + n \in Ends(sent),
           ~\E e \in Ends(sent) : Received < e /\ e < Received + n
    PROVE  Len(answers) < Len(sent) /\ Received + n = NextEnd
<1> DEFINE a == Len(answers)
<1>1. /\ a \in 0 .. Len(sent) /\ Len(sent) \in Nat /\ Start \in Nat /\ Received \in Nat
      /\ Len(wire) \in Nat /\ Received + Len(wire) = Len(Wire(sent)) /\ sent \in Seq(Request)
  BY Basics DEF Window
<1>2. a < Len(sent)
  <2>1. ASSUME a = Len(sent) PROVE FALSE
    <3>1. Start = Len(Wire(sent))
      BY <1>1, <2>1, WireText DEF Start
    <3> QED BY <1>1, <3>1
  <2> QED BY <1>1, <2>1
<1>3. PICK k \in 0 .. Len(sent) : Received + n = Before(sent, k)
  BY DEF Ends, Before
<1>4. Before(sent, k) \in Nat /\ Before(sent, a) = Received
  BY <1>1, WireText DEF Start
<1>5. Before(sent, k) > Before(sent, a)
  BY <1>1, <1>3, <1>4
<1>6. ~(k <= a)
  <2>1. k <= a => Before(sent, k) <= Before(sent, a)
    BY <1>1, InTurn
  <2> QED BY <1>1, <1>4, <1>5, <2>1
<1>7. a + 1 \in 0 .. Len(sent) /\ a + 1 <= k
  BY <1>1, <1>2, <1>6
<1>8. Before(sent, a + 1) <= Before(sent, k)
  BY <1>1, <1>7, InTurn
<1>9. NextEnd \in Nat /\ Start < NextEnd /\ NextEnd \in Ends(sent)
  <2>1. More
    BY <1>1, <1>2 DEF More
  <2>2. NextEnd \in Nat /\ NextEnd >= Start + U(N) + 2 /\ U(N) \in Nat /\ NextEnd \in Ends(sent)
    BY <2>1, Numbers
  <2> QED BY <1>1, <2>2
<1>10. NextEnd <= Received + n
  BY <1>3, <1>8 DEF NextEnd
<1>11. ~(NextEnd < Received + n)
  BY <1>9
<1> QED BY <1>1, <1>2, <1>9, <1>10, <1>11

\* A piece arrives, or the end of the stream: the parser still waits at the same place.
LEMMA InvArrive == IInv /\ Arrive => IInv'
<1> SUFFICES ASSUME IInv, Arrive PROVE IInv'
  OBVIOUS
<1>0. Types /\ Window /\ Listed /\ Turn /\ Beyond /\ AtURI /\ AtHEADERS /\ Past /\ Whole
  BY DEF IInv
<1>1. PICK n \in 0 .. Len(wire), zero \in BOOLEAN :
          /\ pc = "idle" => n > 0 \/ zero
          /\ inBuffer' = inBuffer \o SubSeq(wire, 1, n)
          /\ wire' = SubSeq(wire, n + 1, Len(wire))
          /\ split' = (split \/ Received + n \notin Ends(sent))
          /\ joined' = (joined \/ \E e \in Ends(sent) : Received < e /\ e < Received + n)
          /\ connectionState' = IF zero THEN "DISCONNECTING" ELSE connectionState
          /\ pc' = IF zero /\ n = 0 THEN "idle" ELSE "parse"
  BY DEF Arrive
<1>2. /\ pc \in {"idle", "again"} /\ connectionState = "CONNECTED"
      /\ ~error
      /\ state' = state /\ hState' = hState /\ method' = method /\ headers' = headers
      /\ error' = error /\ sent' = sent /\ answers' = answers
  BY DEF Arrive, parser
<1>3. Window' /\ Received' = Received + n /\ Gone' = Gone
  BY <1>0, <1>1, <1>2, Grown
<1>4. /\ Len(answers) \in 0 .. Len(sent) /\ Len(sent) \in Nat
      /\ Start \in Nat /\ Received \in Nat /\ Gone \in Nat /\ Start <= Received
      /\ Offset(0) = Gone - Start
  BY <1>0, Basics
<1>5. /\ Asked' = Asked /\ Start' = Start /\ NextEnd' = NextEnd /\ Kind' = Kind /\ N' = N
      /\ \A j : U(j)' = U(j) /\ Opening(j)' = Opening(j)
      /\ Listed'
  BY <1>0, <1>2, SameRequest
<1>6. Offset(0)' = Offset(0) /\ Reach' = Reach + n /\ Reach \in Int
  <2>1. Offset(0)' = Gone' + 0 - Start' /\ Reach' = Received' - Start'
    BY DEF Offset, Reach
  <2>2. Reach = Received - Start
    BY DEF Reach
  <2> QED BY <1>3, <1>4, <1>5, <2>1, <2>2
<1>7. Types'
  <2>1. split' \in BOOLEAN
    BY <1>0, <1>1 DEF Types
  <2>2. joined' \in BOOLEAN
    BY <1>0, <1>1 DEF Types
  <2>3. connectionState' \in {"CONNECTED", "DISCONNECTING"} /\ pc' \in {"idle", "parse", "again", "crashed"}
    BY <1>1, <1>2
  <2> QED BY <1>0, <1>2, <2>1, <2>2, <2>3 DEF Types
<1>8. PairsTrue(headers)' <=> PairsTrue(headers)
  BY <1>2, <1>5 DEF PairsTrue
<1>9. /\ ~error /\ n \in Nat /\ pc' \in {"idle", "parse"}
      /\ pc' = "idle" => n = 0 /\ connectionState' = "DISCONNECTING"
      /\ pc = "idle" /\ n = 0 => pc' = "idle"
      /\ Len(answers') = Len(answers) /\ Len(sent') = Len(sent)
  <2>1. n \in Nat
    BY <1>0, LenProperties DEF Window
  <2> QED BY <1>1, <1>2, <2>1
<1>10. Turn'
  <2>1. Start' <= Received'
    BY <1>3, <1>4, <1>5
  <2> QED BY <1>0, <1>2, <1>8, <1>9, <2>1 DEF Turn
<1>11. AtURI'
  BY <1>0, <1>2, <1>6, <1>9 DEF AtURI
<1>12. state # "URI" => More /\ U(N) \in Nat /\ pc = "idle" /\ N \in Nat
  <2>1. state # "URI" => More /\ pc = "idle"
    BY <1>0, <1>2, <1>4 DEF More, Turn
  <2> QED BY <1>0, <2>1, Numbers
<1>13. AtHEADERS'
  <2> SUFFICES ASSUME state = "HEADERS" PROVE method' = Kind' /\ InHeaders'
    BY <1>2 DEF AtHEADERS
  <2>1. method = Kind /\ InHeaders /\ pc = "idle" /\ U(N) \in Nat
    BY <1>0, <1>9, <1>12 DEF AtHEADERS
  <2>2. \A j : Position(j) => Position(j)'
    <3> SUFFICES ASSUME NEW j, Position(j) PROVE Position(j)'
      OBVIOUS
    <3>1. Reach >= U(N) + 1 => Reach' >= U(N)' + 1 /\ (pc' = "parse" => Reach' >= U(N)' + 2)
      <4>1. U(N)' = U(N)
        BY <1>5
      <4>2. pc' = "parse" => n # 0
        BY <1>9, <2>1
      <4> QED BY <1>6, <1>9, <2>1, <4>1, <4>2
    <3> QED BY <1>2, <1>5, <1>6, <3>1 DEF Position
  <2>3. 1 .. N' + 1 = 1 .. N + 1
    BY <1>5
  <2>4. (\E j \in 1 .. N + 1 : Position(j)) => (\E j \in 1 .. N' + 1 : Position(j)')
    BY <2>2, <2>3
  <2>5. Reach >= 3 => Reach' >= 3
    BY <1>6, <1>9
  <2>6. hState' = hState /\ headers' = headers /\ Offset(0)' = Offset(0)
    BY <1>2, <1>6
  <2>9. pc' = "idle" => Reach' <= U(N)' + 1
    <3>1. Reach <= U(N) + 1 /\ U(N)' = U(N)
      BY <1>5, <2>1 DEF InHeaders
    <3> QED BY <1>6, <1>9, <3>1
  <2>7. (hState = "START" => headers = {}) /\ PairsTrue(headers)
    BY <2>1 DEF InHeaders
  <2>8. \/ hState = "START" /\ Offset(0) = 4
        \/ hState = "KEY" /\ Offset(0) = 0 /\ Reach >= 3
        \/ \E j \in 1 .. N + 1 : Position(j)
    BY <2>1 DEF InHeaders
  <2> QED BY <1>2, <1>5, <1>8, <2>1, <2>4, <2>5, <2>6, <2>7, <2>8, <2>9 DEF InHeaders
<1>14. Past'
  <2> SUFFICES ASSUME state \in {"BODY", "ANALYSIS"}
               PROVE  /\ method' = Kind' /\ Reach' >= U(N)' + 2
                      /\ Offset(0)' \in {U(N)' + 1, U(N)' + 2, U(N)' + 3}
                      /\ state = "BODY" => method = "POST"
                      /\ state # "ANALYSIS"
    BY <1>2 DEF Past
  <2>1. /\ method = Kind /\ Reach >= U(N) + 2 /\ U(N) \in Nat
        /\ Offset(0) \in {U(N) + 1, U(N) + 2, U(N) + 3}
        /\ state = "BODY" => method = "POST"
        /\ state # "ANALYSIS"
    BY <1>0, <1>9, <1>12 DEF Past
  <2>2. U(N)' = U(N)
    BY <1>5
  <2>3. Reach' >= U(N)' + 2
    BY <1>6, <1>9, <2>1, <2>2
  <2> QED BY <1>2, <1>5, <1>6, <2>1, <2>2, <2>3
<1>15. Whole'
  <2> SUFFICES ASSUME ~split', ~joined'
               PROVE  /\ \A i \in 1 .. Len(answers) : answers[i] = HeadersOf(sent[i])
                      /\ WholeIdle' /\ WholeParse' /\ WholeURI' /\ WholeHEADERS' /\ WholePast'
    BY <1>2, <1>9 DEF Whole
  <2>1. /\ ~split /\ ~joined /\ Received + n \in Ends(sent)
        /\ ~\E e \in Ends(sent) : Received < e /\ e < Received + n
    BY <1>1
  <2>2. /\ \A i \in 1 .. Len(answers) : answers[i] = HeadersOf(sent[i])
        /\ WholeIdle /\ WholeParse /\ WholeURI /\ WholeHEADERS /\ WholePast
    BY <1>0, <1>9, <2>1 DEF Whole
  <2>3. pc = "idle"
    BY <1>2, <2>2 DEF WholeParse
  <2>4. CASE state = "URI"
    <3>1. Received = Start
      BY <2>2, <2>3, <2>4 DEF WholeIdle
    <3>2. n # 0 => Len(answers) < Len(sent) /\ Received + n = NextEnd
      <4> SUFFICES ASSUME n # 0 PROVE Len(answers) < Len(sent) /\ Received + n = NextEnd
        OBVIOUS
      <4>1. n \in 1 .. Len(wire)
        BY <1>9
      <4> QED BY <1>0, <2>1, <3>1, <4>1, OnePiece
    <3>3. pc' = "parse" => Len(answers') < Len(sent') /\ Received' = NextEnd'
      BY <1>3, <1>5, <1>9, <2>3, <3>2
    <3>4. WholeParse'
      BY <1>9, <3>3 DEF WholeParse
    <3>5. WholeURI'
      BY <1>6, <2>2, <2>4, <3>3 DEF WholeURI
    <3>6. WholeHEADERS' /\ WholePast'
      BY <1>2, <2>4 DEF WholeHEADERS, WholePast
    <3>7. WholeIdle'
      BY <1>2, <1>3, <1>4, <1>5, <1>9, <2>4, <3>1 DEF WholeIdle
    <3> QED BY <2>2, <3>4, <3>5, <3>6, <3>7
  <2>5. CASE state = "BODY"
    <3>1. WholeParse'
      BY <1>0, <1>9, <2>5 DEF WholeParse, Turn
    <3>2. NextEnd \in Nat /\ Received >= NextEnd
      BY <1>0, <1>12, <2>2, <2>5, Numbers DEF WholePast
    <3>3. Received' >= NextEnd'
      BY <1>3, <1>4, <1>5, <1>9, <3>2
    <3>4. WholePast'
      BY <1>2, <2>5, <3>3 DEF WholePast
    <3>5. WholeURI' /\ WholeHEADERS' /\ WholeIdle'
      BY <1>2, <2>5 DEF WholeURI, WholeHEADERS, WholeIdle
    <3> QED BY <2>2, <3>1, <3>4, <3>5
  <2>6. state \in {"URI", "BODY"}
    BY <2>2, <2>3 DEF WholeIdle
  <2> QED BY <2>4, <2>5, <2>6
<1>16. Beyond'
  <2>1. ASSUME state = "URI", pc' # "parse", Received' > Start' PROVE joined'
    <3>1. Received' = Received
      BY <1>3, <1>4, <1>9, <2>1
    <3> QED BY <1>0, <1>1, <1>2, <1>5, <2>1, <3>1 DEF Beyond
  <2>2. ASSUME Len(answers) < Len(sent), Asked.method # POST, Received' > NextEnd' PROVE joined'
    <3>1. More /\ Received + n > NextEnd
      BY <1>3, <1>4, <1>5, <2>2 DEF More
    <3>2. /\ U(N) \in Nat /\ U(N) >= 5 /\ NextEnd \in Nat /\ NextEnd = Start + U(N) + 2
          /\ NextEnd \in Ends(sent)
      BY <1>0, <2>2, <3>1, Numbers
    <3>3. CASE Received < NextEnd
      BY <1>1, <3>1, <3>2, <3>3
    <3>4. CASE Received > NextEnd
      BY <1>0, <1>1, <1>9, <2>2, <3>4 DEF Beyond
    <3>5. CASE Received = NextEnd
      <4>1. Received > Start
        BY <1>4, <3>2, <3>5
      <4>2. CASE state = "URI"
        BY <1>0, <1>1, <1>2, <4>1, <4>2 DEF Beyond
      <4>3. state # "HEADERS"
        <5> SUFFICES ASSUME state = "HEADERS" PROVE FALSE
          OBVIOUS
        <5>1. Reach <= U(N) + 1 /\ Reach = Received - Start
          BY <1>0, <1>9, <1>12 DEF AtHEADERS, InHeaders, Reach
        <5> QED BY <1>4, <3>2, <3>5, <5>1
      <4>4. state \notin {"BODY", "ANALYSIS"}
        <5> SUFFICES ASSUME state \in {"BODY", "ANALYSIS"} PROVE FALSE
          OBVIOUS
        <5>1. Kind = "POST"
          BY <1>0, <1>9, <1>12 DEF Past
        <5> QED BY <2>2, <5>1, PostKind
      <4> QED BY <1>0, <4>2, <4>3, <4>4 DEF Types
    <3> QED BY <1>4, <3>2, <3>3, <3>4, <3>5
  <2> QED BY <1>2, <1>5, <2>1, <2>2 DEF Beyond
<1> QED BY <1>3, <1>5, <1>7, <1>10, <1>11, <1>13, <1>14, <1>15, <1>16 DEF IInv

-------------------------------------------------------------------------------
(* The request line.                                                       *)

\* With at most one symbol there is no method.
LEMMA TooShort ==
    ASSUME Window, Len(inBuffer) <= 1
    PROVE  MethodOf(Cut(inBuffer).line) = "none"
<1>1. inBuffer \in Seq(Symbol) /\ Len(inBuffer) \in Nat
  BY LenProperties DEF Window
<1>2. Cut(inBuffer).line \in Seq(Symbol) /\ Len(Cut(inBuffer).line) \in 0 .. Len(inBuffer)
  BY <1>1, CutProperties
<1> DEFINE line == Cut(inBuffer).line
<1> HIDE DEF line
<1>3. 1 .. Len(line) - 1 = {} /\ line \in Seq(Symbol)
  BY <1>1, <1>2 DEF line
<1>4. ~HasPair(line, GET) /\ ~HasPair(line, POST) /\ ~HasPair(line, HEAD)
  BY <1>3 DEF HasPair
<1> QED BY <1>4 DEF MethodOf, line

\* parseURI: the line is found or refused, and without cuts it is found.
LEMMA InvParseURI == IInv /\ ParseURI => IInv'
<1> SUFFICES ASSUME IInv, ParseURI PROVE IInv'
  OBVIOUS
<1> DEFINE c == Cut(inBuffer)
           line == c.line
           L == Len(inBuffer)
           known == MethodOf(line) # "none"
           ok == known /\ Contains(line, Version)
<1>0. Types /\ Window /\ Listed /\ Turn /\ Beyond /\ AtURI /\ AtHEADERS /\ Past /\ Whole
  BY DEF IInv
<1>1. /\ pc = "parse" /\ state = "URI"
      /\ method' = IF known THEN MethodOf(line) ELSE method
      /\ inBuffer' = IF ok THEN c.rest ELSE <<>>
      /\ state' = IF ok THEN "HEADERS" ELSE state
      /\ IF ok THEN GoOn ELSE Fail
      /\ wire' = wire /\ hState' = hState /\ headers' = headers /\ answers' = answers
      /\ sent' = sent /\ split' = split /\ joined' = joined
      /\ connectionState' = connectionState
  BY DEF ParseURI, history
<1>2. /\ Len(answers) \in 0 .. Len(sent) /\ Len(sent) \in Nat
      /\ Start \in Nat /\ Received \in Nat /\ Gone \in Nat /\ Start <= Received /\ L \in Nat
      /\ Len(wire) \in Nat /\ Received = Gone + L /\ Received + Len(wire) = Len(Wire(sent))
      /\ Offset(0) = Gone - Start /\ Reach = Offset(0) + L
  BY <1>0, Basics
<1>3. ~error /\ hState = "START" /\ headers = {} /\ Offset(0) \in {-1, 0, 1}
  BY <1>0, <1>1 DEF AtURI, Turn
<1>4. /\ Asked' = Asked /\ Start' = Start /\ NextEnd' = NextEnd /\ Kind' = Kind /\ N' = N
      /\ \A j : U(j)' = U(j) /\ Opening(j)' = Opening(j)
      /\ Listed'
  BY <1>0, <1>1, SameRequest
<1>5. /\ inBuffer \in Seq(Symbol) /\ line \in Seq(Symbol) /\ Len(line) \in 0 .. L
      /\ \/ c.rest = inBuffer /\ Len(line) = L
         \/ /\ Len(line) + 1 \in 1 .. L /\ inBuffer[Len(line) + 1] = "CR"
            /\ c.rest = SubSeq(inBuffer, Len(line) + 2, L)
  <2>1. inBuffer \in Seq(Symbol)
    BY <1>0 DEF Window
  <2> QED BY <2>1, CutProperties
<1>6. MethodOf(line) \in {"GET", "POST", "HEAD", "none"}
  BY DEF MethodOf
<1> HIDE DEF c, line, L, known, ok
<1>7. known => More
  <2> SUFFICES ASSUME ~More PROVE ~known
    OBVIOUS
  <2>1. Len(answers) = Len(sent)
    BY <1>2 DEF More
  <2>2. Start = Len(Wire(sent))
    BY <1>0, <2>1, WireText DEF Start, Window
  <2>3. L <= 1
    BY <1>2, <1>3, <2>2
  <2> QED BY <1>0, <2>3, TooShort DEF L, known, line, c
<1>8. More => Reading
  BY <1>0, <1>2 DEF Reading, Turn, More
<1>9. More =>
        /\ Len(line) <= 3 - Offset(0)
        /\ known => Offset(0) \in {-1, 0} /\ MethodOf(line) = Kind
        /\ Contains(line, Version) => Len(line) = 3 - Offset(0)
        /\ Len(line) < L => Len(line) = 3 - Offset(0)
        /\ Offset(0) = 0 /\ Len(line) = 3 => ok
  BY <1>3, <1>8, LineFound DEF Kind, known, ok, line, c, L
<1>10. Types'
  <2>1. method' \in {"GET", "POST", "HEAD"}
    BY <1>0, <1>1, <1>6 DEF Types, known
  <2>2. error' \in BOOLEAN /\ pc' \in {"idle", "parse", "again", "crashed"}
    BY <1>0, <1>1 DEF Types, GoOn, Fail
  <2>3. state' \in {"URI", "HEADERS", "BODY", "ANALYSIS"}
    BY <1>1
  <2> QED BY <1>0, <1>1, <2>1, <2>2, <2>3 DEF Types
<1>11. CASE ~ok
  <2>1. error' /\ pc' = "idle" /\ state' = "URI" /\ inBuffer' = <<>> /\ error' = TRUE
    BY <1>1, <1>11 DEF Fail
  <2>2. Window' /\ Received' = Received
    <3>1. L \in 0 .. L /\ SubSeq(inBuffer, L + 1, L) = <<>>
      <4>1. L + 1 \in Int /\ L \in Int /\ ~(L + 1 <= L)
        BY <1>2
      <4> QED BY <1>2, <1>5, <4>1, SubSeqProperties
    <3> QED BY <1>0, <1>1, <2>1, <3>1, Consumed DEF L
  <2>3. Turn'
    <3>1. Start' <= Received'
      BY <1>2, <1>4, <2>2
    <3> QED BY <1>0, <1>1, <2>1, <3>1 DEF Turn
  <2>4. AtURI' /\ AtHEADERS' /\ Past'
    BY <1>1, <1>3, <2>1 DEF AtURI, AtHEADERS, Past
  <2>5. ~(~split /\ ~joined)
    <3> SUFFICES ASSUME ~split, ~joined PROVE FALSE
      OBVIOUS
    <3>1. More /\ Offset(0) = 0 /\ Received = NextEnd
      BY <1>0, <1>1, <1>2, <1>3 DEF Whole, WholeURI, WholeParse, More
    <3>2. L >= 7
      <4>1. NextEnd \in Nat /\ NextEnd >= Start + U(N) + 2 /\ U(N) \in Nat /\ U(N) >= 5
        BY <1>0, <3>1, Numbers
      <4>2. NextEnd >= Start + 7
        BY <1>2, <4>1
      <4>3. Gone = Start
        BY <1>2, <3>1
      <4>4. \A x, y, z \in Nat : x = y + z /\ x >= y + 7 => z >= 7
        OBVIOUS
      <4> QED BY <1>2, <3>1, <4>2, <4>3, <4>4
    <3>3. Len(line) = 3
      <4>1. 3 - Offset(0) = 3
        BY <3>1
      <4>2. Len(line) <= 3 /\ (Len(line) < L => Len(line) = 3)
        BY <1>9, <3>1, <4>1
      <4> QED BY <1>2, <1>5, <3>2, <4>2
    <3> QED BY <1>9, <1>11, <3>1, <3>3
  <2>6. Whole'
    BY <1>1, <2>5 DEF Whole
  <2>7. Beyond'
    BY <1>0, <1>1, <1>3, <1>4, <2>1, <2>2, BeyondKept
  <2> QED BY <1>4, <1>10, <2>2, <2>3, <2>4, <2>6, <2>7 DEF IInv
<1>12. CASE ok
  <2>1. error' = error /\ pc' = "parse" /\ state' = "HEADERS" /\ inBuffer' = c.rest /\ ~error' /\ known
    BY <1>1, <1>3, <1>12 DEF GoOn, ok
  <2>2. More /\ Offset(0) \in {-1, 0} /\ method' = Kind /\ Len(line) = 3 - Offset(0)
    BY <1>1, <1>7, <1>9, <1>12, <2>1 DEF ok
  <2>3. \E m \in 0 .. L : inBuffer' = SubSeq(inBuffer, m + 1, L) /\ (m = 0 \/ m = Len(line) + 1)
                            /\ (m = 0 => Len(line) = L)
    <3>1. CASE c.rest = inBuffer /\ Len(line) = L
      <4>1. inBuffer = SubSeq(inBuffer, 0 + 1, L)
        <5>1. L \in 0 .. L
          BY <1>2
        <5>2. SubSeq(inBuffer, 1, L) = inBuffer
          <6>1. /\ SubSeq(inBuffer, 1, L) \in Seq(Symbol) /\ Len(SubSeq(inBuffer, 1, L)) = L
                /\ \A i \in 1 .. L : SubSeq(inBuffer, 1, L)[i] = inBuffer[i]
            BY <1>5, <5>1, PrefixProperties DEF L
          <6> QED BY <1>5, <6>1, SeqEqual DEF L
        <5> QED BY <5>2
      <4>2. 0 \in 0 .. L
        BY <1>2
      <4> QED BY <2>1, <3>1, <4>1, <4>2
    <3>2. CASE Len(line) + 1 \in 1 .. L /\ c.rest = SubSeq(inBuffer, Len(line) + 2, L)
      <4>1. PICK m \in 1 .. L : m = Len(line) + 1
        BY <3>2
      <4>2. m + 1 = Len(line) + 2 /\ m \in 0 .. L /\ m # 0
        BY <1>2, <1>5, <4>1
      <4> QED BY <2>1, <3>2, <4>1, <4>2
    <3> QED BY <1>5, <3>1, <3>2
  <2>4. PICK m \in 0 .. L : inBuffer' = SubSeq(inBuffer, m + 1, L) /\ (m = 0 \/ m = Len(line) + 1)
                            /\ (m = 0 => Len(line) = L)
    BY <2>3
  <2>5. Window' /\ Received' = Received /\ Gone' = Gone + m
    BY <1>0, <1>1, <2>4, Consumed DEF L
  <2>6. Offset(0)' = Offset(0) + m /\ Reach' = Reach
    <3>1. Offset(0)' = Gone' + 0 - Start' /\ Reach' = Received' - Start' /\ Reach = Received - Start
      BY DEF Offset, Reach
    <3> QED BY <1>2, <1>4, <2>5, <3>1
  <2>7. (Offset(0)' \in {-1, 0} /\ Reach' >= 3 /\ Reach = 3) \/ Offset(0)' = 4
    <3>1. CASE m = 0
      BY <1>2, <2>2, <2>4, <2>6, <3>1
    <3>2. CASE m = Len(line) + 1
      BY <1>2, <2>2, <2>6, <3>2
    <3> QED BY <2>4, <3>1, <3>2
  <2>8. Turn'
    <3>1. Start' <= Received'
      BY <1>2, <1>4, <2>5
    <3>2. PairsTrue(headers)'
      BY <1>1, <1>3 DEF PairsTrue
    <3> QED BY <1>0, <1>1, <2>1, <2>2, <3>1, <3>2 DEF Turn, More
  <2>9. AtURI' /\ Past'
    BY <2>1 DEF AtURI, Past
  <2>10. AtHEADERS'
    <3>1. InHeaders'
      <4>1. PairsTrue(headers)' /\ hState' = "START" /\ headers' = {} /\ pc' = "parse"
        BY <1>1, <1>3, <2>1 DEF PairsTrue
      <4> QED BY <2>7, <4>1 DEF InHeaders
    <3> QED BY <1>4, <2>1, <2>2, <3>1 DEF AtHEADERS
  <2>11. Whole'
    <3> SUFFICES ASSUME ~split, ~joined
                 PROVE  /\ \A i \in 1 .. Len(answers') : answers'[i] = HeadersOf(sent'[i])
                        /\ WholeIdle' /\ WholeParse' /\ WholeURI' /\ WholeHEADERS' /\ WholePast'
      BY <1>1, <2>1 DEF Whole
    <3>1. /\ \A i \in 1 .. Len(answers) : answers[i] = HeadersOf(sent[i])
          /\ Received = NextEnd
      BY <1>0, <1>1, <1>3 DEF Whole, WholeURI
    <3>2. Reach # 3
      <4>1. NextEnd \in Nat /\ NextEnd >= Start + U(N) + 2 /\ U(N) \in Nat /\ U(N) >= 5
        BY <1>0, <2>2, Numbers
      <4>2. Reach = Received - Start
        BY DEF Reach
      <4> QED BY <1>2, <3>1, <4>1, <4>2
    <3>3. Fresh'
      BY <1>1, <1>3, <2>7, <3>2 DEF Fresh
    <3>4. WholeHEADERS'
      BY <1>4, <2>1, <2>5, <3>1, <3>3 DEF WholeHEADERS
    <3>5. WholeParse'
      BY <1>1, <2>1, <2>2 DEF WholeParse, More
    <3>6. WholeIdle' /\ WholeURI' /\ WholePast'
      BY <2>1 DEF WholeIdle, WholeURI, WholePast
    <3> QED BY <1>1, <3>1, <3>4, <3>5, <3>6
  <2>12. Beyond'
    BY <1>0, <1>1, <1>3, <1>4, <2>1, <2>5, BeyondKept
  <2> QED BY <1>4, <1>10, <2>5, <2>8, <2>9, <2>10, <2>11, <2>12 DEF IInv
<1> QED BY <1>11, <1>12

-------------------------------------------------------------------------------
(* The headers.                                                            *)

\* A line begins after the first line of the request and before the end of its headers.
LEMMA OpeningBounds ==
    ASSUME Window, More, NEW j \in 1 .. N + 1
    PROVE  /\ Opening(j) \in Nat /\ Opening(j) >= 4 /\ Opening(j) <= U(N)
           /\ j = N + 1 => Opening(j) = U(N) - 1
<1>1. N \in Nat \ {0} /\ U(0) = 5
  BY Sizes
<1>2. \A k \in 0 .. N : U(k) \in Nat /\ U(k) <= U(N)
  BY Sizes
<1>3. U(N) \in Nat /\ U(N) >= 5
  BY Numbers
<1>4. CASE j = 1
  BY <1>1, <1>3, <1>4 DEF Opening
<1>5. CASE j # 1
  <2>1. PICK m \in 1 .. N : m = j - 1
    BY <1>1, <1>5
  <2>2. Opening(j) = U(m) - 1 /\ m - 1 \in 0 .. N /\ m \in 0 .. N
    BY <1>1, <1>5, <2>1 DEF Opening
  <2>3. U(m) = U(m - 1) + K(m) + V(m) + 4 /\ K(m) \in Nat /\ V(m) \in Nat
    BY Sizes
  <2>4. U(m - 1) \in Nat /\ U(m) \in Nat /\ U(m) <= U(N)
    BY <1>2, <2>2
  <2>5. U(m) >= 5
    <3>1. PICK u \in Nat, k \in Nat, v \in Nat : u = U(m - 1) /\ k = K(m) /\ v = V(m) /\ U(m) = u + k + v + 4
      BY <2>3, <2>4
    <3>2. k # 0
      BY <3>1, Sizes
    <3> QED BY <3>1, <3>2
  <2>6. j = N + 1 => m = N
    BY <1>1, <2>1
  <2> QED BY <1>3, <2>2, <2>4, <2>5, <2>6
<1> QED BY <1>4, <1>5

\* A scan of nothing, or of what is before the request, comes too early.
LEMMA ReachedLine ==
    ASSUME Window, Listed, Turn, More, InHeaders, pc = "parse", ~Fresh
    PROVE  Reach >= 3 /\ (Len(inBuffer) = 0 => \E j \in 1 .. N + 1 : Position(j) /\ Reach = Opening(j))
<1>1. Len(inBuffer) \in Nat /\ Reach = Offset(0) + Len(inBuffer) /\ Offset(0) \in Int
  BY Basics
<1>2. CASE Reach >= 3 /\ Offset(0) \in {-1, 0}
  BY <1>1, <1>2
<1>3. CASE \E j \in 1 .. N + 1 : Position(j)
  <2>1. PICK j \in 1 .. N + 1 : Position(j)
    BY <1>3
  <2>2. Opening(j) \in Nat /\ Opening(j) >= 4
    BY OpeningBounds
  <2>3. Offset(0) = Opening(j)
    BY <2>1 DEF Position
  <2>4. Reach >= 3 /\ (Len(inBuffer) = 0 => Reach = Opening(j))
    BY <1>1, <2>2, <2>3
  <2> QED BY <2>1, <2>4
<1> QED BY <1>2, <1>3 DEF InHeaders, Fresh

\* Where the parser waits for more.
LEMMA Waits ==
    ASSUME Reading, Listed, Turn, InHeaders, hState \in States, Unique(headers), pc = "parse",
           Scan.end # "error", Scan.h # "END_LF"
    PROVE  /\ Scan.begin \in 1 .. Len(inBuffer) + 1
           /\ Scan.h = "START" => Scan.headers = {}
           /\ PairsTrue(Scan.headers)
           /\ Reach <= U(N) + 1
           /\ \/ Scan.h = "START" /\ Offset(Scan.begin) = 5
              \/ Scan.h = "KEY" /\ Offset(Scan.begin) = 1 /\ Reach >= 3
              \/ \E j \in 1 .. N + 1 :
                    /\ Offset(Scan.begin) = Opening(j) + 1
                    /\ \/ Scan.h = "KEY" /\ j \in 1 .. N + 1
                       \/ Scan.h \in {"COLON", "SPACES", "VALUE", "CR"} /\ j \in 1 .. N
                       \/ Scan.h = "LF" /\ j \in 2 .. N + 1
                       \/ Scan.h = "END_CR" /\ j = N + 1 /\ Reach >= U(N) + 1
<1> DEFINE L == Len(inBuffer)
           p == Scan
<1>1. /\ Window /\ More /\ L \in Nat /\ Reach = Offset(0) + L /\ Offset(0) \in Int
      /\ U(N) \in Nat /\ U(N) >= 5
  BY Basics, Numbers DEF Reading
<1>2. PICK d \in Int : \A k \in Int : Offset(k) = d + k
  BY <1>1, Numbers, Offsets
<1>3. Offset(0) = d /\ Reach = d + L /\ Offset(L) = Reach /\ Offset(1) = d + 1 /\ L \in Int
  <2>1. L \in Int /\ 0 \in Int /\ 1 \in Int
    BY <1>1
  <2>2. Offset(0) = d + 0 /\ Offset(L) = d + L /\ Offset(1) = d + 1
    BY <1>2, <2>1
  <2>3. Offset(0) = d
    BY <2>2
  <2>4. Reach = d + L
    BY <1>1, <2>3
  <2> QED BY <2>1, <2>2, <2>3, <2>4
<1>4. CASE L = 0
  <2>1. p = NoScan
    BY <1>4, ScanTracked
  <2>2. p.h = hState /\ p.begin = 1 /\ p.headers = headers
    BY <2>1, NoScanFields
  <2>3. (hState = "START" => headers = {}) /\ PairsTrue(headers)
    BY DEF InHeaders
  <2>4. CASE Fresh
    <3>1. d = 4 /\ hState = "START"
      BY <1>3, <2>4 DEF Fresh
    <3>2. Reach <= U(N) + 1 /\ Offset(1) = 5
      BY <1>1, <1>3, <1>4, <3>1
    <3> QED BY <1>1, <2>2, <2>3, <3>1, <3>2
  <2>5. CASE ~Fresh
    <3>1. PICK j \in 1 .. N + 1 : Position(j) /\ Reach = Opening(j)
      BY <1>1, <1>4, <2>5, ReachedLine
    <3>2. Opening(j) \in Nat /\ Opening(j) <= U(N) /\ (j = N + 1 => Opening(j) = U(N) - 1)
      BY <1>1, OpeningBounds
    <3>3. Reach <= U(N) + 1 /\ (j = N + 1 => ~(Reach >= U(N) + 1))
      BY <1>1, <3>1, <3>2
    <3>4. Offset(1) = Opening(j) + 1
      BY <1>3, <1>4, <3>1, <1>2
    <3>5. \/ hState = "KEY" /\ j \in 1 .. N + 1
          \/ hState \in {"COLON", "SPACES", "VALUE", "CR"} /\ j \in 1 .. N
          \/ hState = "LF" /\ j \in 2 .. N + 1
      BY <3>1, <3>3 DEF Position
    <3>6. hState # "START"
      BY <3>5
    <3>7. 1 \in 1 .. L + 1
      BY <1>1
    <3> QED BY <2>2, <2>3, <3>3, <3>4, <3>5, <3>6, <3>7
  <2> QED BY <2>4, <2>5
<1>5. CASE L # 0
  <2>1. Tracked(p, L) /\ p.begin \in 1 .. L
    BY <1>5, ScanTracked
  <2>2. PairsTrue(p.headers) /\ Going(p, L)
    BY <2>1 DEF Tracked
  <2>3. Reach <= U(N) + 1
    <3>1. L \in 0 .. L
      BY <1>1
    <3>2. Offset(L) <= U(N) + 1
      BY <2>2, <3>1, GoingBound
    <3> QED BY <1>3, <3>2
  <2>4. p.begin \in 1 .. L + 1
    BY <1>1, <2>1
  <2>5. ~Fresh => Reach >= 3
    BY <1>1, ReachedLine
  <2>6. ~LostStart(p, L)
    <3> SUFFICES ASSUME LostStart(p, L) PROVE FALSE
      OBVIOUS
    <3>1. ~Fresh /\ Reach \in {-1, 0}
      BY <1>3 DEF LostStart
    <3> QED BY <2>5, <3>1
  <2>7. CASE Before1(p, L)
    BY <2>2, <2>3, <2>4, <2>7 DEF Before1
  <2>8. CASE LostKey(p, L)
    <3>1. p.h = "KEY" /\ Offset(p.begin) = 1 /\ ~Fresh
      BY <2>8 DEF LostKey
    <3> QED BY <2>2, <2>3, <2>4, <2>5, <3>1
  <2>9. CASE \E j \in 1 .. N + 1 : OnLine(p, L, j)
    <3>1. PICK j \in 1 .. N + 1 : OnLine(p, L, j)
      BY <2>9
    <3>2. Offset(p.begin) = Opening(j) + 1
      BY <3>1 DEF OnLine, Holds
    <3>3. \/ p.h = "KEY" /\ j \in 1 .. N + 1
          \/ p.h \in {"COLON", "SPACES", "VALUE", "CR"} /\ j \in 1 .. N
          \/ p.h = "LF" /\ j \in 2 .. N + 1
          \/ p.h = "END_CR" /\ j = N + 1 /\ Offset(L) = U(N) + 1
      BY <3>1 DEF OnLine, InKey, InColon, InSpaces, InValue, InCR, InLF, InEndCR, InEndLF
    <3>4. p.h # "START"
      BY <3>3
    <3>5. Offset(L) = U(N) + 1 => Reach >= U(N) + 1
      BY <1>1, <1>3
    <3> QED BY <2>2, <2>3, <2>4, <3>2, <3>3, <3>4, <3>5
  <2> QED BY <2>2, <2>6, <2>7, <2>8, <2>9 DEF Going
<1> QED BY <1>4, <1>5

\* What is known when all headers have been read.
LEMMA ReadAll ==
    ASSUME Reading, Listed, Turn, InHeaders, hState \in States, Unique(headers), pc = "parse",
           Scan.end # "error", Scan.h = "END_LF"
    PROVE  /\ Scan.n \in 1 .. Len(inBuffer) /\ PairsTrue(Scan.headers)
           /\ Reach >= U(N) + 2
           /\ Offset(Scan.n) \in {U(N) + 1, U(N) + 2, U(N) + 3}
           /\ Fresh /\ Reach = U(N) + 2 => Scan.n = Len(inBuffer) /\ Scan.headers = FirstOf(N)
<1> DEFINE L == Len(inBuffer)
           p == Scan
<1>1. /\ Window /\ More /\ L \in Nat /\ Reach = Offset(0) + L /\ Offset(0) \in Int
      /\ U(N) \in Nat /\ U(N) >= 5 /\ N \in Nat
  BY Basics, Numbers DEF Reading
<1>2. PICK d \in Int : \A k \in Int : Offset(k) = d + k
  BY <1>1, Numbers, Offsets
<1>3. Reach = d + L /\ Offset(L) = Reach /\ L \in Int
  BY <1>1, <1>2
<1>4. L # 0
  <2>1. hState # "END_LF"
    BY DEF InHeaders, Position
  <2>2. L = 0 => p = NoScan
    BY ScanTracked
  <2> QED BY <2>1, <2>2, NoScanFields
<1>5. Tracked(p, L)
  BY <1>4, ScanTracked
<1> HIDE DEF p
<1>6. PairsTrue(p.headers)
  BY <1>5 DEF Tracked
<1>7. CASE p.end = "more"
  <2>1. p.n = L /\ Going(p, L) /\ p.h = "END_LF"
    BY <1>5, <1>7 DEF Tracked, p
  <2>2. PICK j \in 1 .. N + 1 : OnLine(p, L, j)
    BY <2>1 DEF Going, Before1, LostStart, LostKey
  <2>3. InEndLF(p, L, j)
    BY <2>1, <2>2 DEF OnLine, InKey, InColon, InSpaces, InValue, InCR, InLF, InEndCR
  <2>4. j - 1 = N /\ Reach >= U(N) + 2 /\ (Offset(L) = U(N) + 2 \/ Offset(L) = U(N))
    BY <1>1, <2>3 DEF InEndLF
  <2>5. Offset(L) = U(N) + 2
    <3>1. ~(Offset(L) = U(N))
      BY <1>1, <1>3, <2>4
    <3> QED BY <2>4, <3>1
  <2>6. Fresh => p.headers = FirstOf(N)
    BY <2>2, <2>4 DEF OnLine, Holds
  <2>7. p.n \in 1 .. L
    BY <1>1, <1>4, <2>1
  <2> QED BY <1>6, <2>1, <2>4, <2>5, <2>6, <2>7 DEF p
<1>8. CASE p.end # "more"
  <2>1. /\ p.n \in 1 .. L /\ Reach >= U(N) + 2
        /\ Offset(p.n) = U(N) + 3 \/ (Offset(p.n) = U(N) + 1 /\ ~Fresh)
    BY <1>5, <1>8 DEF Tracked, p
  <2>2. Offset(p.n) <= Reach
    <3>1. PICK m \in 1 .. L : m = p.n
      BY <2>1
    <3>2. m \in Int /\ d + m <= d + L
      BY <1>1
    <3>3. Offset(m) = d + m
      BY <1>2, <3>2
    <3> QED BY <1>3, <3>1, <3>2, <3>3
  <2>3. ~(Fresh /\ Reach = U(N) + 2)
    BY <1>1, <2>1, <2>2
  <2> QED BY <1>6, <2>1, <2>3 DEF p
<1> QED BY <1>7, <1>8

\* All of the first N headers is all headers.
LEMMA AllHeaders ==
    ASSUME NEW r \in Request
    PROVE  HeadersOf(r) = {r.headers[i] : i \in 1 .. Count(r)}
<1>1. DOMAIN r.headers = 1 .. Count(r)
  BY RequestTypes
<1> QED BY <1>1 DEF HeadersOf, ToSet

\* parseHeaders: an error, the end of the headers, or a place to wait at.
LEMMA InvParseHeaders == IInv /\ ParseHeaders => IInv'
<1> SUFFICES ASSUME IInv, ParseHeaders PROVE IInv'
  OBVIOUS
<1> DEFINE L == Len(inBuffer)
           p == Scan
           all == AtEnd(p)
<1>0. Types /\ Window /\ Listed /\ Turn /\ Beyond /\ AtURI /\ AtHEADERS /\ Past /\ Whole
  BY DEF IInv
<1>1. /\ pc = "parse" /\ state = "HEADERS" /\ hState' = p.h /\ headers' = p.headers
      /\ inBuffer' = IF p.end = "error" THEN inBuffer
                     ELSE IF all THEN From(p.n + 1) ELSE From(p.begin)
      /\ state' = IF all THEN (IF method = "POST" THEN "BODY" ELSE "ANALYSIS") ELSE state
      /\ IF p.end = "error" THEN Fail ELSE IF all THEN GoOn ELSE Await
      /\ wire' = wire /\ method' = method /\ answers' = answers
      /\ sent' = sent /\ split' = split /\ joined' = joined
      /\ connectionState' = connectionState
  BY DEF ParseHeaders, history
<1>2. /\ Len(answers) \in 0 .. Len(sent) /\ Len(sent) \in Nat
      /\ Start \in Nat /\ Received \in Nat /\ Gone \in Nat /\ Start <= Received /\ L \in Nat
      /\ Received = Gone + L /\ Offset(0) = Gone - Start /\ Reach = Offset(0) + L
  BY <1>0, Basics
<1>3. ~error /\ More /\ Reading
  BY <1>0, <1>1, <1>2 DEF Turn, More, Reading
<1>4. method = Kind /\ InHeaders /\ hState \in States /\ Unique(headers) /\ method \in {"GET", "POST", "HEAD"}
  BY <1>0, <1>1, <1>3 DEF AtHEADERS, Types
<1>5. /\ Asked' = Asked /\ Start' = Start /\ NextEnd' = NextEnd /\ Kind' = Kind /\ N' = N
      /\ \A j : U(j)' = U(j) /\ Opening(j)' = Opening(j)
      /\ Listed'
  BY <1>0, <1>1, SameRequest
<1>6. IsScan(p) /\ (L = 0 => p = NoScan) /\ (L # 0 => Tracked(p, L))
  BY <1>1, <1>3, <1>4, ScanTracked
<1>7. /\ U(N) \in Nat /\ U(N) >= 5 /\ N \in Nat \ {0} /\ Asked \in Request
      /\ NextEnd \in Nat /\ NextEnd >= Start + U(N) + 2
      /\ Asked.method # POST => NextEnd = Start + U(N) + 2
  BY <1>0, <1>3, Numbers
<1> HIDE DEF p, all
<1>8. PairsTrue(p.headers)
  <2>1. PairsTrue(headers)
    BY <1>4 DEF InHeaders
  <2> QED BY <1>6, <2>1, NoScanFields DEF Tracked
<1>9. Types'
  <2>1. p.h \in States /\ Unique(p.headers)
    BY <1>6 DEF IsScan
  <2>2. error' \in BOOLEAN /\ pc' \in {"idle", "parse", "again", "crashed"}
    BY <1>0, <1>1 DEF Types, GoOn, Fail, Await
  <2>3. state' \in {"URI", "HEADERS", "BODY", "ANALYSIS"}
    BY <1>1
  <2> QED BY <1>0, <1>1, <2>1, <2>2, <2>3 DEF Types
<1>10. state' # "URI"
  BY <1>1
<1>11. ASSUME Received' = Received, pc' \in {"idle", "parse"}, error' => pc' = "idle" PROVE Turn' /\ AtURI' /\ Beyond'
  <2>1. Start' <= Received'
    BY <1>2, <1>5, <1>11
  <2>2. PairsTrue(headers)'
    BY <1>1, <1>5, <1>8 DEF PairsTrue
  <2>3. Beyond'
    BY <1>0, <1>1, <1>3, <1>5, <1>10, <1>11, BeyondKept
  <2> QED BY <1>0, <1>1, <1>3, <1>10, <1>11, <2>1, <2>2, <2>3 DEF Turn, AtURI, More
<1>12. ~split /\ ~joined =>
         /\ \A i \in 1 .. Len(answers) : answers[i] = HeadersOf(sent[i])
         /\ Fresh /\ Received = NextEnd
  BY <1>0, <1>1, <1>3 DEF Whole, WholeHEADERS
<1>13. CASE p.end = "error"
  <2>1. error' /\ error' = TRUE /\ pc' = "idle" /\ state' = "HEADERS" /\ inBuffer' = inBuffer
    BY <1>1, <1>13 DEF Fail, all, AtEnd
  <2>2. Window' /\ Received' = Received
    <3>1. Received' = Received
      BY <1>1 DEF Received
    <3>2. Gone' = Gone
      BY <2>1, <3>1 DEF Gone
    <3> QED BY <1>0, <1>1, <2>1, <3>1, <3>2 DEF Window
  <2>3. Turn' /\ AtURI' /\ Beyond'
    BY <1>11, <2>1, <2>2
  <2>4. AtHEADERS' /\ Past'
    BY <2>1 DEF AtHEADERS, Past
  <2>5. ~Fresh
    <3>1. L # 0
      BY <1>6, <1>13, NoScanFields
    <3> QED BY <1>6, <1>13, <3>1 DEF Tracked
  <2>6. Whole'
    BY <1>1, <1>12, <2>5 DEF Whole
  <2> QED BY <1>5, <1>9, <2>2, <2>3, <2>4, <2>6 DEF IInv
<1>14. ASSUME p.end # "error", NEW m \in 0 .. L, inBuffer' = SubSeq(inBuffer, m + 1, L)
       PROVE  Window' /\ Received' = Received /\ Reach' = Reach /\ Offset(0)' = Offset(m)
  <2>1. Window' /\ Received' = Received /\ Gone' = Gone + m
    BY <1>0, <1>1, <1>14, Consumed
  <2>2. Offset(0)' = Gone' + 0 - Start' /\ Reach' = Received' - Start' /\ Reach = Received - Start
        /\ Offset(m) = Gone + m - Start
    BY DEF Offset, Reach
  <2> QED BY <1>2, <1>5, <2>1, <2>2
<1>15. CASE all
  <2>1. /\ p.end # "error" /\ p.h = "END_LF" /\ inBuffer' = From(p.n + 1) /\ error' = error /\ pc' = pc
        /\ state' = IF method = "POST" THEN "BODY" ELSE "ANALYSIS"
    BY <1>1, <1>15 DEF all, AtEnd, GoOn
  <2>2. /\ p.n \in 1 .. L /\ Reach >= U(N) + 2
        /\ Offset(p.n) \in {U(N) + 1, U(N) + 2, U(N) + 3}
        /\ Fresh /\ Reach = U(N) + 2 => p.n = L /\ p.headers = FirstOf(N)
    BY <1>0, <1>1, <1>3, <1>4, <2>1, ReadAll DEF p
  <2>3. PICK m \in 1 .. L : m = p.n
    BY <2>2
  <2>4. m \in 0 .. L /\ inBuffer' = SubSeq(inBuffer, m + 1, L)
    BY <1>2, <2>1, <2>3 DEF From
  <2>5. Window' /\ Received' = Received /\ Reach' = Reach /\ Offset(0)' = Offset(m)
    BY <1>14, <2>1, <2>4
  <2>6. Turn' /\ AtURI' /\ Beyond'
    BY <1>1, <1>3, <1>11, <2>1, <2>5
  <2>7. AtHEADERS'
    BY <2>1 DEF AtHEADERS
  <2>8. Past'
    <3>1. U(N)' = U(N)
      BY <1>5
    <3>2. Reach' >= U(N)' + 2 /\ Offset(0)' \in {U(N)' + 1, U(N)' + 2, U(N)' + 3}
      BY <2>2, <2>3, <2>5, <3>1
    <3>3. method' = Kind' /\ (state' = "BODY" => method' = "POST") /\ pc' = "parse"
      BY <1>1, <1>4, <1>5, <2>1
    <3> QED BY <3>2, <3>3 DEF Past
  <2>9. Whole'
    <3> SUFFICES ASSUME ~split, ~joined
                 PROVE  /\ \A i \in 1 .. Len(answers') : answers'[i] = HeadersOf(sent'[i])
                        /\ WholeIdle' /\ WholeParse' /\ WholeURI' /\ WholeHEADERS' /\ WholePast'
      BY <1>1, <1>3, <2>1 DEF Whole
    <3>1. WholeIdle' /\ WholeURI' /\ WholeHEADERS'
      BY <1>1, <2>1 DEF WholeIdle, WholeURI, WholeHEADERS
    <3>2. WholeParse'
      BY <1>1, <1>3, <2>1 DEF WholeParse, More
    <3>3. Received' = NextEnd' /\ Received' >= NextEnd'
      BY <1>5, <1>7, <1>12, <2>5
    <3>4. ASSUME state' = "ANALYSIS", method' # "POST" PROVE headers' = HeadersOf(Asked') /\ inBuffer' = <<>>
      <4>1. Asked.method # POST
        BY <1>1, <1>4, <3>4, PostKind
      <4>2. Reach = U(N) + 2
        <5>1. Received = Start + U(N) + 2
          BY <1>7, <1>12, <4>1
        <5>2. Reach = Received - Start
          BY DEF Reach
        <5> QED BY <1>2, <1>7, <5>1, <5>2
      <4>3. m = L /\ p.headers = FirstOf(N)
        BY <1>12, <2>2, <2>3, <4>2
      <4>4. FirstOf(N) = HeadersOf(Asked)
        BY <1>7, AllHeaders DEF FirstOf, N
      <4>5. inBuffer' = <<>>
        <5>1. inBuffer \in Seq(Symbol) /\ L + 1 \in Int /\ L \in Int /\ ~(L + 1 <= L)
          BY <1>0, <1>2 DEF Window
        <5>2. inBuffer' = SubSeq(inBuffer, L + 1, L)
          BY <2>4, <4>3
        <5> QED BY <5>1, <5>2, SubSeqProperties
      <4> QED BY <1>1, <1>5, <4>3, <4>4, <4>5
    <3>5. WholePast'
      BY <3>3, <3>4 DEF WholePast
    <3> QED BY <1>1, <1>12, <3>1, <3>2, <3>5
  <2> QED BY <1>5, <1>9, <2>5, <2>6, <2>7, <2>8, <2>9 DEF IInv
<1>16. CASE p.end # "error" /\ ~all
  <2>1. /\ p.h # "END_LF" /\ inBuffer' = From(p.begin) /\ error' = error /\ pc' = "idle"
        /\ state' = "HEADERS"
    BY <1>1, <1>16 DEF all, AtEnd, Await
  <2>2. /\ p.begin \in 1 .. L + 1
        /\ p.h = "START" => p.headers = {}
        /\ Reach <= U(N) + 1
        /\ \/ p.h = "START" /\ Offset(p.begin) = 5
           \/ p.h = "KEY" /\ Offset(p.begin) = 1 /\ Reach >= 3
           \/ \E j \in 1 .. N + 1 :
                 /\ Offset(p.begin) = Opening(j) + 1
                 /\ \/ p.h = "KEY" /\ j \in 1 .. N + 1
                    \/ p.h \in {"COLON", "SPACES", "VALUE", "CR"} /\ j \in 1 .. N
                    \/ p.h = "LF" /\ j \in 2 .. N + 1
                    \/ p.h = "END_CR" /\ j = N + 1 /\ Reach >= U(N) + 1
    BY <1>0, <1>1, <1>3, <1>4, <1>16, <2>1, Waits DEF p
  <2>3. PICK m \in 0 .. L : p.begin = m + 1
    <3>1. p.begin - 1 \in 0 .. L /\ p.begin = (p.begin - 1) + 1
      BY <1>2, <2>2
    <3> QED BY <3>1
  <2>4. inBuffer' = SubSeq(inBuffer, m + 1, L)
    BY <2>1, <2>3 DEF From
  <2>5. Window' /\ Received' = Received /\ Reach' = Reach /\ Offset(0)' = Offset(m)
    BY <1>14, <1>16, <2>4
  <2>6. PICK o \in Int : o = Offset(0)' /\ Offset(p.begin) = o + 1
    <3>1. Offset(m) \in Int /\ Offset(m + 1) = Offset(m) + 1
      BY <1>2 DEF Offset
    <3> QED BY <2>3, <2>5, <3>1
  <2>7. Turn' /\ AtURI' /\ Beyond'
    BY <1>3, <1>11, <2>1, <2>5
  <2>8. InHeaders'
    <3>1. (hState' = "START" => headers' = {}) /\ PairsTrue(headers)'
      BY <1>1, <1>5, <1>8, <2>2 DEF PairsTrue
    <3>2. Reach' <= U(N)' + 1
      BY <1>5, <2>2, <2>5
    <3>3. CASE p.h = "START" /\ Offset(p.begin) = 5
      <4>1. Offset(0)' = 4
        BY <2>6, <3>3
      <4> QED BY <1>1, <3>1, <3>2, <3>3, <4>1 DEF InHeaders
    <3>4. CASE p.h = "KEY" /\ Offset(p.begin) = 1 /\ Reach >= 3
      <4>1. Offset(0)' = 0 /\ Reach' >= 3
        BY <2>5, <2>6, <3>4
      <4> QED BY <1>1, <3>1, <3>2, <3>4, <4>1 DEF InHeaders
    <3>5. ASSUME NEW j \in 1 .. N + 1, Offset(p.begin) = Opening(j) + 1,
                 \/ p.h = "KEY" /\ j \in 1 .. N + 1
                 \/ p.h \in {"COLON", "SPACES", "VALUE", "CR"} /\ j \in 1 .. N
                 \/ p.h = "LF" /\ j \in 2 .. N + 1
                 \/ p.h = "END_CR" /\ j = N + 1 /\ Reach >= U(N) + 1
          PROVE  InHeaders'
      <4>1. Offset(0)' = Opening(j)'
        <5>1. Opening(j) \in Nat
          BY <1>0, <1>3, OpeningBounds
        <5> QED BY <1>5, <2>6, <3>5, <5>1
      <4>2. Reach >= U(N) + 1 => Reach' >= U(N)' + 1
        BY <1>5, <2>5
      <4>3. Position(j)'
        BY <1>1, <1>5, <2>1, <3>5, <4>1, <4>2 DEF Position
      <4>4. j \in 1 .. N' + 1
        BY <1>5
      <4> QED BY <3>1, <3>2, <4>3, <4>4 DEF InHeaders
    <3> QED BY <2>2, <3>3, <3>4, <3>5
  <2>9. AtHEADERS' /\ Past'
    BY <1>1, <1>4, <1>5, <2>1, <2>8 DEF AtHEADERS, Past
  <2>10. ~(~split /\ ~joined)
    <3> SUFFICES ASSUME ~split, ~joined PROVE FALSE
      OBVIOUS
    <3>1. Received = NextEnd /\ Reach = Received - Start
      BY <1>12 DEF Reach
    <3>2. Reach >= U(N) + 2
      BY <1>2, <1>7, <3>1
    <3>3. Reach \in Int /\ U(N) \in Nat
      BY <1>2, <1>7, <3>1
    <3>4. Reach <= U(N) + 1
      BY <2>2
    <3> QED BY <3>2, <3>3, <3>4
  <2>11. Whole'
    BY <1>1, <2>10 DEF Whole
  <2> QED BY <1>5, <1>9, <2>5, <2>7, <2>9, <2>11 DEF IInv
<1> QED BY <1>13, <1>15, <1>16 DEF all, AtEnd

-------------------------------------------------------------------------------
(* The body, and the answer.                                               *)

\* A length that is stored is one that was sent.
LEMMA AnnouncedIsSent ==
    ASSUME PairsTrue(headers), NEW text \in Announced
    PROVE  \E h \in HeadersOf(Asked) : h[1] = <<"L">> /\ h[2] = text
<1>1. PICK q \in headers : q[1] = <<"L">> /\ text = q[2]
  BY DEF Announced
<1>2. ~Improper(q[1])
  <2>1. <<"L">> # <<>> /\ <<"L">>[1] = "L"
    OBVIOUS
  <2> QED BY <1>1, <2>1 DEF Improper
<1>3. q \in HeadersOf(Asked)
  BY <1>2 DEF PairsTrue
<1> QED BY <1>1, <1>3

\* The body: stoi throws only on what was sent.
LEMMA InvReceiveBody == IInv /\ ReceiveBody => IInv'
<1> SUFFICES ASSUME IInv, ReceiveBody PROVE IInv'
  OBVIOUS
<1> DEFINE text == CHOOSE v \in Announced : TRUE
           number == Stoi(text)
<1>0. Types /\ Window /\ Listed /\ Turn /\ Beyond /\ AtURI /\ AtHEADERS /\ Past /\ Whole
  BY DEF IInv
<1>1. /\ pc = "parse" /\ state = "BODY"
      /\ IF Announced = {} THEN Fail /\ UNCHANGED state
         ELSE IF number.throws THEN pc' = "crashed" /\ UNCHANGED <<state, error>>
         ELSE IF Len(inBuffer) < number.n THEN Await /\ UNCHANGED state
         ELSE GoOn /\ state' = "ANALYSIS"
      /\ wire' = wire /\ inBuffer' = inBuffer /\ hState' = hState /\ method' = method /\ headers' = headers
      /\ answers' = answers /\ sent' = sent /\ split' = split /\ joined' = joined
      /\ connectionState' = connectionState
  BY DEF ReceiveBody, history
<1>2. Len(answers) \in 0 .. Len(sent) /\ Len(sent) \in Nat
  BY <1>0, Basics
<1>3. ~error /\ error = FALSE /\ More /\ PairsTrue(headers)
  BY <1>0, <1>1, <1>2 DEF Turn, Types, More
<1>4. /\ method = Kind /\ Reach >= U(N) + 2 /\ method = "POST"
      /\ Offset(0) \in {U(N) + 1, U(N) + 2, U(N) + 3}
  BY <1>0, <1>1, <1>3 DEF Past
<1>5. /\ Asked' = Asked /\ Start' = Start /\ NextEnd' = NextEnd /\ Kind' = Kind /\ N' = N
      /\ \A j : U(j)' = U(j) /\ Opening(j)' = Opening(j)
      /\ Listed'
  BY <1>0, <1>1, SameRequest
<1>6. Received' = Received /\ Gone' = Gone
  BY <1>1 DEF Received, Gone
<1>7. Window'
  BY <1>0, <1>1, <1>6 DEF Window
<1>8. Reach' = Reach /\ Offset(0)' = Offset(0)
  BY <1>5, <1>6 DEF Reach, Offset
<1>9. \/ error' = TRUE /\ pc' = "idle" /\ state' = "BODY"
      \/ error' = FALSE /\ pc' = "idle" /\ state' = "BODY"
      \/ error' = FALSE /\ pc' = "parse" /\ state' = "ANALYSIS"
      \/ error' = FALSE /\ pc' = "crashed" /\ state' = "BODY" /\ BadLength
  <2>1. CASE Announced = {}
    BY <1>1, <2>1 DEF Fail
  <2>2. CASE Announced # {} /\ ~number.throws
    <3> HIDE DEF number
    <3>1. (Await /\ UNCHANGED state) \/ (GoOn /\ state' = "ANALYSIS")
      BY <1>1, <2>2
    <3> QED BY <1>1, <1>3, <3>1 DEF Await, GoOn
  <2>3. CASE Announced # {} /\ number.throws
    <3>1. PICK h \in HeadersOf(Asked) : h[1] = <<"L">> /\ h[2] = text
      <4>1. text \in Announced
        BY <2>3
      <4> HIDE DEF text
      <4> QED BY <1>3, <4>1, AnnouncedIsSent
    <3>2. BadLength
      BY <1>4, <2>3, <3>1, PostKind DEF BadLength
    <3> HIDE DEF number
    <3> QED BY <1>1, <1>3, <2>3, <3>2
  <2> QED BY <2>1, <2>2, <2>3
<1>10. Types'
  BY <1>0, <1>1, <1>9 DEF Types
<1>11. Turn'
  <2>1. PairsTrue(headers)'
    BY <1>1, <1>3, <1>5 DEF PairsTrue
  <2>2. BadLength' <=> BadLength
    BY <1>5 DEF BadLength
  <2> QED BY <1>0, <1>1, <1>3, <1>5, <1>6, <1>9, <2>1, <2>2 DEF Turn, More
<1>12. AtURI' /\ AtHEADERS'
  BY <1>9 DEF AtURI, AtHEADERS
<1>13. Past'
  <2>1. U(N)' = U(N)
    BY <1>5
  <2>2. Reach' >= U(N)' + 2 /\ Offset(0)' \in {U(N)' + 1, U(N)' + 2, U(N)' + 3}
    BY <1>4, <1>8, <2>1
  <2>3. method' = Kind' /\ method' = "POST"
    BY <1>1, <1>4, <1>5
  <2> QED BY <1>9, <2>2, <2>3 DEF Past
<1>14. Whole'
  <2> SUFFICES ASSUME ~split, ~joined
               PROVE  /\ \A i \in 1 .. Len(answers') : answers'[i] = HeadersOf(sent'[i])
                      /\ error' => WholeError'
                      /\ ~error' => WholeIdle' /\ WholeParse' /\ WholeURI' /\ WholeHEADERS' /\ WholePast'
    BY <1>1 DEF Whole
  <2>1. (\A i \in 1 .. Len(answers) : answers[i] = HeadersOf(sent[i])) /\ Received >= NextEnd
    BY <1>0, <1>1, <1>3 DEF Whole, WholePast
  <2>2. Received' >= NextEnd'
    BY <1>5, <1>6, <2>1
  <2>3. Len(answers') < Len(sent')
    BY <1>1, <1>3 DEF More
  <2>4. Asked.method = POST
    BY <1>4, PostKind
  <2>5. WholeError'
    BY <1>5, <2>2, <2>3, <2>4 DEF WholeError
  <2>6. ~error' => WholeIdle' /\ WholeURI' /\ WholeHEADERS'
    BY <1>9 DEF WholeIdle, WholeURI, WholeHEADERS
  <2>7. WholeParse'
    BY <1>9, <2>3 DEF WholeParse
  <2>8. WholePast'
    BY <1>1, <1>4, <2>2 DEF WholePast
  <2> QED BY <1>1, <2>1, <2>5, <2>6, <2>7, <2>8
<1>15. Beyond'
  BY <1>0, <1>1, <1>3, <1>5, <1>6, <1>9, BeyondKept
<1> QED BY <1>5, <1>7, <1>10, <1>11, <1>12, <1>13, <1>14, <1>15 DEF IInv

\* An answer, and the parser is ready for the next request; or a refusal.
LEMMA InvAnalyse == IInv /\ Analyse => IInv'
<1> SUFFICES ASSUME IInv, Analyse PROVE IInv'
  OBVIOUS
<1> DEFINE a == Len(answers)
<1>0. Types /\ Window /\ Listed /\ Turn /\ Beyond /\ AtURI /\ AtHEADERS /\ Past /\ Whole
  BY DEF IInv
<1>1. /\ pc = "parse" /\ state = "ANALYSIS"
      /\ answers' = IF method # "POST" THEN Append(answers, headers) ELSE answers
      /\ state' = IF method # "POST" THEN "URI" ELSE state
      /\ hState' = IF method # "POST" THEN "START" ELSE hState
      /\ headers' = IF method # "POST" THEN {} ELSE headers
      /\ IF method # "POST" THEN NextRequest ELSE Fail
      /\ wire' = wire /\ inBuffer' = inBuffer /\ method' = method
      /\ sent' = sent /\ split' = split /\ joined' = joined
      /\ connectionState' = connectionState
  BY DEF Analyse, history
<1>2. /\ a \in 0 .. Len(sent) /\ Len(sent) \in Nat
      /\ Start \in Nat /\ Received \in Nat /\ Gone \in Nat /\ Start <= Received
      /\ Len(inBuffer) \in Nat /\ Received = Gone + Len(inBuffer) /\ Offset(0) = Gone - Start
  BY <1>0, Basics
<1>3. ~error /\ error = FALSE /\ More /\ PairsTrue(headers)
  BY <1>0, <1>1, <1>2 DEF Turn, Types, More
<1>4. /\ method = Kind /\ Reach >= U(N) + 2
      /\ Offset(0) \in {U(N) + 1, U(N) + 2, U(N) + 3}
  BY <1>0, <1>1, <1>3 DEF Past
<1>5. Received' = Received /\ Gone' = Gone
  BY <1>1 DEF Received, Gone
<1>6. Window'
  BY <1>0, <1>1, <1>5 DEF Window
<1>7. ~split /\ ~joined =>
         /\ \A i \in 1 .. a : answers[i] = HeadersOf(sent[i])
         /\ Received >= NextEnd
         /\ method # "POST" => headers = HeadersOf(Asked) /\ inBuffer = <<>> /\ Received = NextEnd
  BY <1>0, <1>1, <1>3 DEF Whole, WholePast
<1>8. CASE method = "POST"
  <2>1. answers' = answers /\ state' = state /\ hState' = hState /\ headers' = headers /\ error' = TRUE /\ pc' = "idle"
    BY <1>1, <1>8 DEF Fail
  <2>2. /\ Asked' = Asked /\ Start' = Start /\ NextEnd' = NextEnd /\ Kind' = Kind /\ N' = N
        /\ \A j : U(j)' = U(j) /\ Opening(j)' = Opening(j)
        /\ Listed'
    BY <1>0, <1>1, <2>1, SameRequest
  <2>3. Types'
    BY <1>0, <1>1, <2>1 DEF Types
  <2>4. Turn'
    <3>1. PairsTrue(headers)'
      BY <1>3, <2>1, <2>2 DEF PairsTrue
    <3> QED BY <1>0, <1>1, <1>3, <1>5, <2>1, <2>2, <3>1 DEF Turn, More
  <2>5. AtURI' /\ AtHEADERS' /\ Past'
    BY <1>1, <2>1 DEF AtURI, AtHEADERS, Past
  <2>7. Beyond'
    BY <1>0, <1>1, <1>3, <1>5, <2>1, <2>2, BeyondKept
  <2>6. Whole'
    <3> SUFFICES ASSUME ~split, ~joined
                 PROVE  (\A i \in 1 .. Len(answers') : answers'[i] = HeadersOf(sent'[i])) /\ WholeError'
      BY <1>1, <2>1 DEF Whole
    <3>1. Asked.method = POST
      BY <1>4, <1>8, PostKind
    <3>2. WholeError'
      BY <1>1, <1>3, <1>5, <1>7, <2>1, <2>2, <3>1 DEF WholeError, More
    <3> QED BY <1>1, <1>7, <2>1, <3>2
  <2> QED BY <1>6, <2>2, <2>3, <2>4, <2>5, <2>6, <2>7 DEF IInv
<1>9. CASE method # "POST"
  <2>1. /\ answers' = Append(answers, headers) /\ state' = "URI" /\ hState' = "START" /\ headers' = {}
        /\ NextRequest
    BY <1>1, <1>9
  <2>2. /\ error' = FALSE /\ pc' \in {"idle", "again"}
        /\ pc' = "idle" => inBuffer = <<>> \/ connectionState' = "DISCONNECTING"
        /\ inBuffer = <<>> => pc' = "idle"
    <3>1. connectionState \in {"CONNECTED", "DISCONNECTING"}
      BY <1>0 DEF Types
    <3> QED BY <1>1, <1>3, <2>1, <3>1 DEF NextRequest
  <2>3. /\ Listed' /\ Len(answers') = a + 1 /\ \A i \in 1 .. a : answers'[i] = answers[i]
        /\ answers'[a + 1] = headers
    <3>1. PICK S : answers \in Seq(S)
      BY <1>0 DEF Listed
    <3> DEFINE T == S \cup {headers}
    <3>2. answers \in Seq(T) /\ headers \in T
      <4>1. S \subseteq T /\ headers \in T
        OBVIOUS
      <4> HIDE DEF T
      <4> QED BY <3>1, <4>1, SymbolWords
    <3> HIDE DEF T
    <3>3. /\ Append(answers, headers) \in Seq(T) /\ Len(Append(answers, headers)) = a + 1
          /\ \A i \in 1 .. a : Append(answers, headers)[i] = answers[i]
          /\ Append(answers, headers)[a + 1] = headers
      BY <3>2, AppendProperties
    <3> QED BY <2>1, <3>3 DEF Listed
  <2>4. Asked.method # POST
    BY <1>4, <1>9, PostKind
  <2>5. Start' = NextEnd /\ NextEnd = Start + U(N) + 2 /\ U(N) \in Nat
    <3>1. Start' = NextEnd
      BY <1>1, <2>3 DEF Start, NextEnd
    <3> QED BY <1>0, <1>3, <2>4, <3>1, Numbers
  <2>6. Types'
    BY <1>0, <1>1, <2>1, <2>2 DEF Types, States, Unique
  <2>7. Start' <= Received'
    <3>1. Reach = Received - Start
      BY DEF Reach
    <3> QED BY <1>2, <1>4, <1>5, <2>5, <3>1
  <2>8. Turn'
    <3>1. Len(answers') <= Len(sent')
      BY <1>1, <1>2, <1>3, <2>3 DEF More
    <3>2. \A i \in 1 .. Len(answers') : sent'[i].method # POST
      <4>1. sent[a + 1].method # POST
        BY <2>4 DEF Asked
      <4>2. \A i \in 1 .. a + 1 : i \in 1 .. a \/ i = a + 1
        BY <1>2
      <4> QED BY <1>0, <1>1, <2>3, <4>1, <4>2 DEF Turn
    <3> QED BY <2>1, <2>2, <2>7, <3>1, <3>2 DEF Turn
  <2>9. Offset(0)' = Gone - NextEnd
    <3>1. Offset(0)' = Gone' + 0 - Start'
      BY DEF Offset
    <3> QED BY <1>2, <1>5, <2>5, <3>1
  <2>10. Offset(0)' \in {-1, 0, 1}
    <3>1. PICK u \in Nat : u = U(N) /\ NextEnd = Start + u + 2
      BY <2>5
    <3>2. Gone - Start \in {u + 1, u + 2, u + 3}
      BY <1>2, <1>4, <3>1
    <3>3. Gone - NextEnd = Gone - Start - u - 2
      BY <1>2, <3>1
    <3>4. PICK x \in Int : x = Gone - Start
      BY <1>2
    <3>5. x - u - 2 \in {-1, 0, 1}
      BY <3>2, <3>4
    <3> QED BY <2>9, <3>3, <3>4, <3>5
  <2>11. AtURI' /\ AtHEADERS' /\ Past'
    BY <1>1, <2>1, <2>2, <2>10 DEF AtURI, AtHEADERS, Past
  <2>12. Whole'
    <3> SUFFICES ASSUME ~split, ~joined
                 PROVE  /\ \A i \in 1 .. Len(answers') : answers'[i] = HeadersOf(sent'[i])
                        /\ WholeIdle' /\ WholeParse' /\ WholeURI' /\ WholeHEADERS' /\ WholePast'
      BY <1>1, <2>2 DEF Whole
    <3>1. headers = HeadersOf(Asked) /\ inBuffer = <<>> /\ Received = NextEnd
      BY <1>7, <1>9
    <3>2. \A i \in 1 .. Len(answers') : answers'[i] = HeadersOf(sent'[i])
      <4>1. \A i \in 1 .. a + 1 : i \in 1 .. a \/ i = a + 1
        BY <1>2
      <4> QED BY <1>1, <1>7, <2>3, <3>1, <4>1 DEF Asked
    <3>3. pc' = "idle" /\ Received' = Start'
      BY <1>5, <2>2, <2>5, <3>1
    <3>4. Offset(0)' = 0
      <4>1. Len(inBuffer) = 0
        BY <3>1
      <4> QED BY <1>2, <2>9, <3>1, <4>1
    <3>5. WholeIdle' /\ WholeParse' /\ WholeURI' /\ WholeHEADERS' /\ WholePast'
      BY <2>1, <3>3, <3>4 DEF WholeIdle, WholeParse, WholeURI, WholeHEADERS, WholePast
    <3> QED BY <3>2, <3>5
  <2>13. Beyond'
    <3>1. ASSUME Received > NextEnd PROVE joined'
      BY <1>0, <1>1, <1>3, <2>4, <3>1 DEF Beyond, More
    <3>2. Received' > Start' => joined'
      BY <1>5, <2>5, <3>1
    <3>3. ASSUME Len(answers') < Len(sent'), Received' > NextEnd' PROVE joined'
      <4>1. a + 1 \in 0 .. Len(sent) /\ a + 2 \in 0 .. Len(sent) /\ sent \in Seq(Request)
        BY <1>0, <1>1, <1>2, <2>3, <3>3 DEF Window
      <4>2. Before(sent, a + 1) \in Nat /\ Before(sent, a + 2) \in Nat
        BY <4>1, WireText
      <4>3. Before(sent, a + 1) <= Before(sent, a + 2)
        <5>1. a + 1 <= a + 2
          BY <1>2
        <5> QED BY <4>1, <5>1, InTurn
      <4>4. Start' = Before(sent, a + 1) /\ NextEnd' = Before(sent, a + 2)
        <5>1. (a + 1) + 1 = a + 2
          BY <1>2
        <5> QED BY <1>1, <2>3, <5>1 DEF Start, NextEnd
      <4>5. Received' > Start'
        BY <1>2, <1>5, <3>3, <4>2, <4>3, <4>4
      <4> QED BY <3>2, <4>5
    <3> QED BY <3>2, <3>3 DEF Beyond
  <2> QED BY <1>6, <2>3, <2>6, <2>8, <2>11, <2>12, <2>13 DEF IInv
<1> QED BY <1>8, <1>9

-------------------------------------------------------------------------------
(* The theorems.                                                           *)

\* Every step preserves the invariant.
LEMMA InvNext == IInv /\ [Next]_vars => IInv'
<1> SUFFICES ASSUME IInv, [Next]_vars PROVE IInv'
  OBVIOUS
<1>1. CASE Arrive
  BY <1>1, InvArrive
<1>2. CASE ParseURI
  BY <1>2, InvParseURI
<1>3. CASE ParseHeaders
  BY <1>3, InvParseHeaders
<1>4. CASE ReceiveBody
  BY <1>4, InvReceiveBody
<1>5. CASE Analyse
  BY <1>5, InvAnalyse
<1>6. CASE UNCHANGED vars
  <2>1. /\ wire' = wire /\ inBuffer' = inBuffer /\ state' = state /\ hState' = hState
        /\ method' = method /\ headers' = headers /\ error' = error /\ pc' = pc /\ sent' = sent
        /\ split' = split /\ joined' = joined /\ answers' = answers
        /\ connectionState' = connectionState
    BY <1>6 DEF vars, parser, history
  <2>2. /\ Asked' = Asked /\ Start' = Start /\ NextEnd' = NextEnd /\ Kind' = Kind /\ N' = N
        /\ \A j : U(j)' = U(j) /\ Opening(j)' = Opening(j)
        /\ Listed'
    BY <2>1, SameRequest DEF IInv
  <2>3. Received' = Received /\ Gone' = Gone /\ Reach' = Reach /\ Offset(0)' = Offset(0)
    BY <2>1, <2>2 DEF Received, Gone, Reach, Offset
  <2>4. Types' /\ Window'
    BY <2>1, <2>3 DEF IInv, Types, Window
  <2>5. PairsTrue(headers)' <=> PairsTrue(headers)
    BY <2>1, <2>2 DEF PairsTrue
  <2>6. Turn' /\ AtURI' /\ Beyond'
    <3>1. BadLength' <=> BadLength
      BY <2>2 DEF BadLength
    <3> QED BY <2>1, <2>2, <2>3, <2>5, <3>1 DEF IInv, Turn, AtURI, Beyond
  <2>7. U(N)' = U(N)
    BY <2>2
  <2>8. AtHEADERS'
    <3>1. \A j : Position(j)' <=> Position(j)
      BY <2>1, <2>2, <2>3, <2>7 DEF Position
    <3>2. InHeaders' <=> InHeaders
      BY <2>1, <2>2, <2>3, <2>5, <2>7, <3>1 DEF InHeaders
    <3> QED BY <2>1, <2>2, <3>2 DEF IInv, AtHEADERS
  <2>9. Past'
    BY <2>1, <2>2, <2>3, <2>7 DEF IInv, Past
  <2>10. Whole'
    <3>1. Fresh' <=> Fresh
      BY <2>1, <2>3 DEF Fresh
    <3>2. /\ WholeIdle' <=> WholeIdle
          /\ WholeParse' <=> WholeParse
          /\ WholeURI' <=> WholeURI
      BY <2>1, <2>2, <2>3 DEF WholeIdle, WholeParse, WholeURI
    <3>3. /\ WholeHEADERS' <=> WholeHEADERS
          /\ WholePast' <=> WholePast
          /\ WholeError' <=> WholeError
      BY <2>1, <2>2, <2>3, <3>1 DEF WholeHEADERS, WholePast, WholeError
    <3> QED BY <2>1, <3>2, <3>3 DEF IInv, Whole
  <2> QED BY <2>2, <2>4, <2>6, <2>8, <2>9, <2>10 DEF IInv
<1> QED BY <1>1, <1>2, <1>3, <1>4, <1>5, <1>6 DEF Next, Parse

(***************************************************************************)
(* The inductive invariant holds: what is in the buffer is a part of the   *)
(* stream, at a place in the request that is next that agrees with state_  *)
(* and hState_, whatever the pieces are.                                   *)
(***************************************************************************)
THEOREM Invariant == Spec => []IInv
<1> QED BY InvInit, InvNext, PTL DEF Spec

\* What ends a sequence.
LEMMA SuffixOf ==
    ASSUME NEW S, NEW s \in Seq(S), NEW t \in Seq(S), Len(s) <= Len(t),
           \A i \in 1 .. Len(s) : s[i] = t[Len(t) - Len(s) + i]
    PROVE  IsSuffix(s, t)
<1> DEFINE n == Len(s)
           m == Len(t)
           rs == Reverse(s)
           rt == Reverse(t)
<1>1. n \in Nat /\ m \in Nat
  BY LenProperties
<1>2. /\ rs \in Seq(S) /\ Len(rs) = n /\ \A i \in 1 .. n : rs[i] = s[(n - i) + 1]
  <2>1. \A i \in 1 .. n : s[(n - i) + 1] \in S
    <3>1. \A i \in 1 .. n : (n - i) + 1 \in 1 .. n
      BY <1>1
    <3> QED BY <3>1, ElementOfSeq
  <2>2. rs = [i \in 1 .. n |-> s[(n - i) + 1]]
    BY DEF Reverse
  <2> QED BY <1>1, <2>1, <2>2
<1>3. /\ rt \in Seq(S) /\ Len(rt) = m /\ \A i \in 1 .. m : rt[i] = t[(m - i) + 1]
  <2>1. \A i \in 1 .. m : t[(m - i) + 1] \in S
    <3>1. \A i \in 1 .. m : (m - i) + 1 \in 1 .. m
      BY <1>1
    <3> QED BY <3>1, ElementOfSeq
  <2>2. rt = [i \in 1 .. m |-> t[(m - i) + 1]]
    BY DEF Reverse
  <2> QED BY <1>1, <2>1, <2>2
<1> HIDE DEF rs, rt
<1>4. /\ SubSeq(rs, 1, n) \in Seq(S) /\ Len(SubSeq(rs, 1, n)) = n
      /\ \A i \in 1 .. n : SubSeq(rs, 1, n)[i] = rs[i]
  <2>1. n \in 0 .. Len(rs)
    BY <1>1, <1>2
  <2> QED BY <1>2, <2>1, PrefixProperties
<1>5. /\ SubSeq(rt, 1, n) \in Seq(S) /\ Len(SubSeq(rt, 1, n)) = n
      /\ \A i \in 1 .. n : SubSeq(rt, 1, n)[i] = rt[i]
  <2>1. n \in 0 .. Len(rt)
    BY <1>1, <1>3
  <2> QED BY <1>3, <2>1, PrefixProperties
<1>6. \A i \in 1 .. n : rs[i] = rt[i]
  <2> SUFFICES ASSUME NEW i \in 1 .. n PROVE rs[i] = rt[i]
    OBVIOUS
  <2>1. PICK k \in 1 .. n : k = (n - i) + 1
    <3>1. (n - i) + 1 \in 1 .. n
      BY <1>1
    <3> QED BY <3>1
  <2>2. s[k] = t[m - n + k]
    OBVIOUS
  <2>3. m - n + k = (m - i) + 1 /\ i \in 1 .. m
    BY <1>1, <2>1
  <2> QED BY <1>2, <1>3, <2>1, <2>2, <2>3
<1>7. SubSeq(rs, 1, n) = SubSeq(rt, 1, n)
  <2>1. \A i \in 1 .. n : SubSeq(rs, 1, n)[i] = SubSeq(rt, 1, n)[i]
    BY <1>4, <1>5, <1>6
  <2> QED BY <1>4, <1>5, <2>1, SeqEqual
<1> QED BY <1>2, <1>3, <1>7 DEF IsSuffix, IsPrefix, rs, rt

(***************************************************************************)
(* The parser's variables have their types, headers_ has one value for     *)
(* each key, and what is still to come is the end of the stream.           *)
(***************************************************************************)
THEOREM TypesCorrect == Spec => []TypeOK
<1>1. IInv => TypeOK
  <2> SUFFICES ASSUME IInv PROVE TypeOK
    OBVIOUS
  <2>1. Types /\ Window /\ Listed /\ Turn
    BY DEF IInv
  <2>2. IsSuffix(wire, Wire(sent))
    <3>1. wire \in Seq(Symbol) /\ Wire(sent) \in Seq(Symbol)
      BY <2>1, WireText DEF Window
    <3>2. Len(wire) \in Nat /\ Len(Wire(sent)) \in Nat /\ Received \in Nat
          /\ Received = Len(Wire(sent)) - Len(wire)
      BY <3>1, <2>1, LenProperties DEF Window, Received
    <3>3. \A i \in 1 .. Len(wire) : wire[i] = Wire(sent)[Received + i]
      BY <2>1 DEF Window
    <3>4. Len(wire) <= Len(Wire(sent))
      BY <3>2
    <3>5. \A i \in 1 .. Len(wire) : wire[i] = Wire(sent)[Len(Wire(sent)) - Len(wire) + i]
      BY <3>2, <3>3
    <3> QED BY <3>1, <3>4, <3>5, SuffixOf
  <2> QED BY <2>1, <2>2 DEF TypeOK, Types, States, Unique
<1> QED BY <1>1, Invariant, PTL

\* How many requests are complete, by the ends of requests that have been received.
LEMMA CountComplete ==
    ASSUME Window, Listed, Turn
    PROVE  /\ Complete \in Nat
           /\ \A i \in 0 .. Len(sent) : Before(sent, i) <= Received => i <= Complete
           /\ Received = Start => Complete <= Len(answers)
<1> DEFINE C == {n \in 1 .. Len(sent) : Before(sent, n) <= Received}
<1>1. /\ Len(answers) \in 0 .. Len(sent) /\ Len(sent) \in Nat /\ Received \in Nat
      /\ sent \in Seq(Request)
  BY Basics DEF Window
<1>2. IsFiniteSet(C) /\ Cardinality(C) \in Nat
  <2>1. IsFiniteSet(1 .. Len(sent))
    BY <1>1, FS_Interval
  <2> QED BY <2>1, FS_Subset, FS_CardinalityType
<1>3. Complete = Cardinality(C)
  BY DEF Complete, Before
<1>4. \A i \in 0 .. Len(sent) : Before(sent, i) \in Nat
  BY <1>1, WireText
<1>5. ASSUME NEW i \in 0 .. Len(sent), Before(sent, i) <= Received PROVE i <= Cardinality(C)
  <2>1. 1 .. i \subseteq C
    <3> SUFFICES ASSUME NEW k \in 1 .. i PROVE k \in C
      OBVIOUS
    <3>1. k \in 1 .. Len(sent) /\ k \in 0 .. Len(sent) /\ k <= i
      BY <1>1
    <3>2. Before(sent, k) <= Before(sent, i)
      BY <1>1, <3>1, InTurn
    <3> QED BY <1>1, <1>4, <1>5, <3>1, <3>2
  <2>2. Cardinality(1 .. i) = i
    <3>1. i \in Nat /\ i \in Int /\ 1 \in Int
      BY <1>1
    <3> QED BY <3>1, FS_Interval
  <2> HIDE DEF C
  <2>3. Cardinality(1 .. i) <= Cardinality(C)
    BY <1>2, <2>1, FS_Subset
  <2> QED BY <2>2, <2>3
<1>6. ASSUME Received = Start PROVE Cardinality(C) <= Len(answers)
  <2> DEFINE a == Len(answers)
  <2>1. C \subseteq 1 .. a
    <3> SUFFICES ASSUME NEW k \in C PROVE k \in 1 .. a
      OBVIOUS
    <3>1. k \in 1 .. Len(sent) /\ k \in 0 .. Len(sent) /\ Before(sent, k) <= Before(sent, a)
      BY <1>1, <1>6 DEF Start
    <3>2. a < k => Before(sent, a) < Before(sent, k)
      BY <1>1, <3>1, InTurn
    <3> QED BY <1>1, <1>4, <3>1, <3>2
  <2>2. Cardinality(1 .. a) = a /\ IsFiniteSet(1 .. a)
    <3>1. a \in Nat /\ a \in Int /\ 1 \in Int
      BY <1>1
    <3> HIDE DEF a
    <3> QED BY <3>1, FS_Interval
  <2> HIDE DEF C
  <2>3. Cardinality(C) <= Cardinality(1 .. a)
    BY <2>1, <2>2, FS_Subset
  <2> QED BY <2>2, <2>3
<1> QED BY <1>2, <1>3, <1>5, <1>6

(***************************************************************************)
(* HttpData.cpp:155-268: no answer comes before its request has arrived as *)
(* a whole, and none twice, for streams of any requests that are cut into  *)
(* pieces in any way.                                                      *)
(***************************************************************************)
THEOREM NoAnswerIsExtra == Spec => []NoExtraAnswer
<1>1. IInv => NoExtraAnswer
  <2> SUFFICES ASSUME IInv PROVE NoExtraAnswer
    OBVIOUS
  <2>1. Window /\ Listed /\ Turn
    BY DEF IInv
  <2>2. Len(answers) \in 0 .. Len(sent) /\ Before(sent, Len(answers)) <= Received
    BY <2>1, Basics DEF Start
  <2> QED BY <2>1, <2>2, CountComplete DEF NoExtraAnswer
<1> QED BY <1>1, Invariant, PTL

(***************************************************************************)
(* When every piece is one request, requests are answered in turn with     *)
(* exactly the headers that they have: parseURI and parseHeaders lose and  *)
(* invent nothing, and refuse nothing before the first POST.               *)
(***************************************************************************)
THEOREM AnswersAreExact == Spec => []Exact
<1>1. IInv => Exact
  <2> SUFFICES ASSUME IInv, ~split, ~joined
               PROVE  /\ \A i \in DOMAIN answers : answers[i] = HeadersOf(sent[i])
                      /\ (\A i \in 1 .. Complete : sent[i].method # POST)
                            => ~error /\ (pc = "idle" => Len(answers) = Complete)
    BY DEF Exact
  <2> DEFINE a == Len(answers)
  <2>0. Types /\ Window /\ Listed /\ Turn /\ AtURI /\ AtHEADERS /\ Past /\ Whole
    BY DEF IInv
  <2>1. a \in 0 .. Len(sent) /\ Len(sent) \in Nat /\ a \in Nat /\ Start <= Received
    BY <2>0, Basics
  <2>2. DOMAIN answers = 1 .. a
    BY <2>0, LenProperties DEF Listed
  <2>3. /\ \A i \in 1 .. a : answers[i] = HeadersOf(sent[i])
        /\ error => WholeError
        /\ ~error => WholeIdle /\ WholePast
    BY <2>0 DEF Whole
  <2>4. /\ Complete \in Nat
        /\ \A i \in 0 .. Len(sent) : Before(sent, i) <= Received => i <= Complete
        /\ Received = Start => Complete <= a
    BY <2>0, CountComplete
  <2>5. ASSUME \A i \in 1 .. Complete : sent[i].method # POST, a < Len(sent), Received >= NextEnd
        PROVE  Asked.method # POST
    <3>1. a + 1 \in 0 .. Len(sent) /\ Before(sent, a + 1) <= Received
      <4>1. More
        BY <2>1, <2>5 DEF More
      <4> QED BY <2>0, <2>1, <2>5, <4>1, Numbers DEF NextEnd, Window
    <3>2. a + 1 \in 1 .. Complete
      BY <2>1, <2>4, <3>1
    <3> QED BY <2>5, <3>2 DEF Asked
  <2>6. ASSUME \A i \in 1 .. Complete : sent[i].method # POST PROVE ~error
    BY <2>3, <2>5, <2>6 DEF WholeError
  <2>7. ASSUME \A i \in 1 .. Complete : sent[i].method # POST, pc = "idle" PROVE a = Complete
    <3>1. ~error
      BY <2>6, <2>7
    <3>2. state # "BODY"
      <4> SUFFICES ASSUME state = "BODY" PROVE FALSE
        OBVIOUS
      <4>1. Received >= NextEnd /\ a < Len(sent) /\ method = "POST" /\ method = Kind
        BY <2>0, <2>3, <3>1 DEF WholePast, Turn, Past
      <4>2. Asked.method # POST
        BY <2>5, <2>7, <4>1
      <4> QED BY <4>1, <4>2, PostKind
    <3>3. Received = Start
      BY <2>3, <2>7, <3>1, <3>2 DEF WholeIdle
    <3>4. a <= Complete
      <4>1. Before(sent, a) <= Received
        BY <2>1 DEF Start
      <4> QED BY <2>1, <2>4, <4>1
    <3> QED BY <2>1, <2>4, <3>3, <3>4
  <2> QED BY <2>2, <2>3, <2>6, <2>7
<1> QED BY <1>1, Invariant, PTL

(***************************************************************************)
(* HttpData.cpp:397-483: a scan that continues in a line that an earlier   *)
(* one has left stores a value that was sent, or stores it under a key that*)
(* no request has: the marks of that line are lost, and the key is empty or*)
(* begins with a symbol that no key has.                                   *)
(***************************************************************************)
THEOREM HeadersAreTrue == Spec => []HeadersTrue
<1>1. IInv => HeadersTrue
  <2> SUFFICES ASSUME IInv, NEW p \in headers, NEW i \in DOMAIN sent, NEW q \in HeadersOf(sent[i]), q[1] = p[1]
               PROVE  \E k \in DOMAIN sent : p \in HeadersOf(sent[k])
    BY DEF HeadersTrue
  <2>1. Window /\ Listed /\ Turn /\ AtURI
    BY DEF IInv
  <2>2. sent \in Seq(Request) /\ DOMAIN sent = 1 .. Len(sent) /\ sent[i] \in Request /\ Len(sent) \in Nat
    BY <2>1, LenProperties, ElementOfSeq DEF Window
  <2>3. state # "URI"
    BY <2>1 DEF AtURI
  <2>4. Len(answers) < Len(sent) /\ PairsTrue(headers)
    BY <2>1, <2>3 DEF Turn
  <2>5. ~Improper(q[1])
    <3>1. PICK j \in 1 .. Count(sent[i]) : q = sent[i].headers[j]
      BY <2>2, AllHeaders
    <3>2. q \in Header
      BY <2>2, <3>1, RequestTypes
    <3>3. q[1] # <<>> /\ 1 \in 1 .. Len(q[1])
      <4>1. q[1] \in Seq(Symbol) /\ Len(q[1]) \in Nat \ {0}
        BY <3>2, HeaderTypes
      <4>2. q[1] # <<>>
        BY <4>1, EmptySeq
      <4>3. 1 \in 1 .. Len(q[1])
        BY <4>1
      <4> QED BY <4>2, <4>3
    <3>4. q[1][1] \notin {"CR", "LF", ":", " ", "junk"}
      BY <3>2, <3>3, HeaderTypes
    <3> QED BY <3>3, <3>4 DEF Improper
  <2>6. p \in HeadersOf(Asked)
    BY <2>4, <2>5 DEF PairsTrue
  <2>7. Len(answers) + 1 \in DOMAIN sent
    BY <2>1, <2>2, <2>4, Basics
  <2> QED BY <2>6, <2>7 DEF Asked
<1> QED BY <1>1, Invariant, PTL

(***************************************************************************)
(* HttpData.cpp:224: what stoi throws ends the process, and it throws only *)
(* when the POST that is being read has sent a length that is no number or *)
(* does not fit into an int: no cut makes the parser see another one.      *)
(***************************************************************************)
THEOREM CrashIsSent == Spec => []CrashesOnlyOnBadLength
<1>1. IInv => CrashesOnlyOnBadLength
  BY DEF IInv, Turn, BadLength, Asked, CrashesOnlyOnBadLength
<1> QED BY <1>1, Invariant, PTL

(***************************************************************************)
(* HttpData.cpp:256: a parser that waits, with nothing left to come and no *)
(* error, has answered every request of a stream without a POST, unless    *)
(* the end of the stream came with requests that came together: then the   *)
(* rest of inBuffer_ is left.                                              *)
(***************************************************************************)
THEOREM NothingIsPending == Spec => []NothingPending
<1>1. IInv => NothingPending
  <2> SUFFICES ASSUME IInv, pc = "idle", wire = <<>>, ~error, \A i \in DOMAIN sent : sent[i].method # POST
               PROVE  Len(answers) = Len(sent) \/ (joined /\ connectionState = "DISCONNECTING")
    BY DEF NothingPending
  <2> DEFINE a == Len(answers)
  <2>0. Types /\ Window /\ Listed /\ Turn /\ Beyond /\ AtURI /\ AtHEADERS /\ Past
    BY DEF IInv
  <2>1. /\ a \in 0 .. Len(sent) /\ Len(sent) \in Nat /\ Start \in Nat /\ Gone \in Nat /\ Received \in Nat
        /\ Received = Gone + Len(inBuffer) /\ Received + Len(wire) = Len(Wire(sent)) /\ Offset(0) = Gone - Start
    BY <2>0, Basics
  <2>2. SUFFICES ASSUME a # Len(sent), ~(joined /\ connectionState = "DISCONNECTING") PROVE FALSE
    OBVIOUS
  <2>3. More
    BY <2>1, <2>2 DEF More
  <2>4. /\ U(N) \in Nat /\ U(N) >= 5 /\ NextEnd \in Nat /\ NextEnd >= Start + U(N) + 2
    BY <2>0, <2>3, Numbers
  <2>5. Received >= NextEnd
    <3>1. a + 1 \in 0 .. Len(sent) /\ sent \in Seq(Request)
      BY <2>0, <2>1, <2>3 DEF More, Window
    <3>2. NextEnd <= Len(Wire(sent))
      BY <3>1, WireText DEF NextEnd
    <3>3. Len(wire) = 0
      OBVIOUS
    <3> QED BY <2>1, <3>2, <3>3
  <2>6. CASE state = "URI"
    <3>1. Offset(0) <= 1 /\ (inBuffer = <<>> \/ connectionState = "DISCONNECTING")
      BY <2>0, <2>6 DEF AtURI
    <3>2. CASE inBuffer = <<>>
      <4>1. Len(inBuffer) = 0
        BY <3>2
      <4> QED BY <2>1, <2>4, <2>5, <3>1, <4>1
    <3>3. CASE connectionState = "DISCONNECTING"
      <4>1. Received > Start
        BY <2>1, <2>4, <2>5
      <4>2. joined
        BY <2>0, <2>6, <4>1 DEF Beyond
      <4> QED BY <2>2, <3>3, <4>2
    <3> QED BY <3>1, <3>2, <3>3
  <2>7. CASE state = "HEADERS"
    <3>1. Reach <= U(N) + 1 /\ Reach = Received - Start
      BY <2>0, <2>7 DEF AtHEADERS, InHeaders, Reach
    <3> QED BY <2>1, <2>4, <2>5, <3>1
  <2>8. CASE state \in {"BODY", "ANALYSIS"}
    <3>1. method = Kind /\ method = "POST"
      BY <2>0, <2>8 DEF Past
    <3>2. Asked.method # POST
      <4>1. a + 1 \in DOMAIN sent
        BY <2>0, <2>1, <2>3, LenProperties DEF More, Window
      <4> QED BY <4>1 DEF Asked
    <3> QED BY <3>1, <3>2, PostKind
  <2> QED BY <2>0, <2>6, <2>7, <2>8 DEF Types
<1> QED BY <1>1, Invariant, PTL
===============================================================================
