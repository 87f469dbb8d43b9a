-------------------------- MODULE MfConnection_proofs --------------------------
(***************************************************************************)
(* Proofs about MfConnection, for any connections and requests, however    *)
(* the network cuts the strings and whether or not setup() serves other    *)
(* slots: what is in the wire and in the buffer is always the piece of the *)
(* client's strings that the daemon has not consumed, so that what is      *)
(* thrown away while a session is set up can only be missing, never be     *)
(* played twice, out of order or for a client of an unknown protocol.      *)
(***************************************************************************)
EXTENDS MfConnection, SequenceTheorems, TLAPS

-----------------------------------------------------------------------------
(* What a client says.                                                     *)

\* The pieces of a client's strings, numbered as it writes them.
Piece(c, j) == <<ToSay(c)[(j + 1) \div 2], 2 - (j % 2)>>

\* s holds the pieces of c up to number last.
Carries(c, s, last) ==
    /\ last - Len(s) >= 0
    /\ \A i \in 1 .. Len(s) : s[i] = Piece(c, last - Len(s) + i)

LEMMA HelloFacts ==
  ASSUME NEW p \in Protocols
  PROVE  /\ Hello[p] \in Seq(Strings)
         /\ p = "legacy" => Len(Hello[p]) = 1 /\ Hello[p][1] = "appName"
         /\ p # "legacy" => Len(Hello[p]) = 2 /\ Hello[p][2] = "appName"
         /\ p = "version1" => Hello[p][1] = "FeedbackProtocolVersion#1"
         /\ p = "version2" => Hello[p][1] = "FeedbackProtocolVersion#2"
  <1>1. p \in {"version1", "version2", "legacy"}
    BY DEF Protocols, Hello
  <1>2. /\ Hello["version1"] = <<"FeedbackProtocolVersion#1", "appName">>
        /\ Hello["version2"] = <<"FeedbackProtocolVersion#2", "appName">>
        /\ Hello["legacy"] = <<"appName">>
    BY DEF Hello
  <1>3. Range(Hello[p]) \subseteq Strings
    BY DEF Strings
  <1>4. \A i \in DOMAIN Hello[p] : Hello[p][i] \in Strings
    BY <1>3 DEF Range
  <1>5. CASE p = "legacy"
    <2>1. Hello[p] = <<"appName">>
      BY <1>2, <1>5
    <2>2. "appName" \in Strings
      BY <1>4, <2>1
    <2>3. QED
      BY <1>5, <2>1, <2>2
  <1>6. CASE p = "version1"
    <2>1. Hello[p] = <<"FeedbackProtocolVersion#1", "appName">>
      BY <1>2, <1>6
    <2>2. "FeedbackProtocolVersion#1" \in Strings /\ "appName" \in Strings
      BY <1>4, <2>1
    <2>3. QED
      BY <1>6, <2>1, <2>2
  <1>7. CASE p = "version2"
    <2>1. Hello[p] = <<"FeedbackProtocolVersion#2", "appName">>
      BY <1>2, <1>7
    <2>2. "FeedbackProtocolVersion#2" \in Strings /\ "appName" \in Strings
      BY <1>4, <2>1
    <2>3. QED
      BY <1>7, <2>1, <2>2
  <1>8. QED
    BY <1>1, <1>5, <1>6, <1>7

LEMMA RequestFacts ==
  ASSUME NEW c \in Connections
  PROVE  /\ Requests[c] \in Seq(Names)
         /\ Names \subseteq Strings
         /\ \A k, l \in DOMAIN Requests[c] : Requests[c][k] = Requests[c][l] => k = l
  <1>1. Requests[c] \in Seq(Range(Requests[c])) /\ Range(Requests[c]) \subseteq Names
    BY ConnectionAssumption DEF Names
  <1>2. Requests[c] \in Seq(Names)
    BY <1>1, SeqMonotonic
  <1>3. QED
    BY <1>2, ConnectionAssumption DEF IsInjective, Strings

\* The strings of a client: its greeting, then its requests.
LEMMA ToSayFacts ==
  ASSUME NEW c \in Connections, protocol[c] \in Protocols
  PROVE  /\ ToSay(c) \in Seq(Strings)
         /\ Len(ToSay(c)) = Len(Hello[protocol[c]]) + Len(Requests[c])
         /\ \A i \in 1 .. Len(Hello[protocol[c]]) : ToSay(c)[i] = Hello[protocol[c]][i]
         /\ \A k \in 1 .. Len(Requests[c]) :
              ToSay(c)[Len(Hello[protocol[c]]) + k] = Requests[c][k]
  <1> DEFINE h == Hello[protocol[c]]
             r == Requests[c]
  <1>1. h \in Seq(Strings) /\ r \in Seq(Strings)
    BY HelloFacts, RequestFacts, SeqMonotonic
  <1>2. Len(h) \in Nat /\ Len(r) \in Nat
    BY <1>1, LenProperties
  <1> HIDE DEF h, r
  <1>3. /\ h \o r \in Seq(Strings)
        /\ Len(h \o r) = Len(h) + Len(r)
        /\ \A i \in 1 .. Len(h) + Len(r) : (h \o r)[i] = IF i <= Len(h) THEN h[i] ELSE r[i - Len(h)]
    BY <1>1, ConcatProperties
  <1>4. \A i \in 1 .. Len(h) : (h \o r)[i] = h[i]
    BY <1>2, <1>3
  <1>5. \A k \in 1 .. Len(r) : (h \o r)[Len(h) + k] = r[k]
    BY <1>2, <1>3
  <1>6. ToSay(c) = h \o r
    BY DEF ToSay, h, r
  <1>7. QED
    BY <1>3, <1>4, <1>5, <1>6 DEF h, r

\* Every piece is one: a length or a text of a string.
LEMMA PieceType ==
  ASSUME NEW c \in Connections, protocol[c] \in Protocols, NEW j \in 1 .. 2 * Len(ToSay(c))
  PROVE  Piece(c, j) \in Pieces
  <1>1. ToSay(c) \in Seq(Strings)
    BY ToSayFacts
  <1>2. Len(ToSay(c)) \in Nat
    BY <1>1, LenProperties
  <1>3. (j + 1) \div 2 \in 1 .. Len(ToSay(c)) /\ 2 - (j % 2) \in {1, 2}
    BY <1>2
  <1>4. ToSay(c)[(j + 1) \div 2] \in Strings
    BY <1>1, <1>3, ElementOfSeq
  <1>5. QED
    BY <1>3, <1>4 DEF Piece, Pieces

\* A sequence cut in two.
LEMMA Cut ==
  ASSUME NEW S, NEW w \in Seq(S), NEW k \in 0 .. Len(w)
  PROVE  /\ SubSeq(w, 1, k) \in Seq(S) /\ Len(SubSeq(w, 1, k)) = k
         /\ \A i \in 1 .. k : SubSeq(w, 1, k)[i] = w[i]
         /\ SubSeq(w, k + 1, Len(w)) \in Seq(S) /\ Len(SubSeq(w, k + 1, Len(w))) = Len(w) - k
         /\ \A i \in 1 .. Len(w) - k : SubSeq(w, k + 1, Len(w))[i] = w[k + i]
  <1>1. Len(w) \in Nat /\ k \in Int /\ \A i \in 1 .. Len(w) : w[i] \in S
    BY LenProperties, ElementOfSeq
  <1>2. \A i \in 1 .. k : w[i] \in S
    BY <1>1
  <1>3. \A i \in k + 1 .. Len(w) : w[i] \in S
    BY <1>1
  <1>4. SubSeq(w, 1, k) = [i \in 1 .. k |-> w[i]]
    BY <1>1, <1>2
  <1>5. SubSeq(w, k + 1, Len(w)) = [i \in 1 .. Len(w) - k |-> w[k + i]]
    BY <1>1, <1>3
  <1>6. [i \in 1 .. k |-> w[i]] \in Seq(S) /\ Len([i \in 1 .. k |-> w[i]]) = k
    BY <1>1, <1>2
  <1>7. /\ [i \in 1 .. Len(w) - k |-> w[k + i]] \in Seq(S)
        /\ Len([i \in 1 .. Len(w) - k |-> w[k + i]]) = Len(w) - k
    BY <1>1, <1>3
  <1>8. QED
    BY <1>4, <1>5, <1>6, <1>7

\* Two sequences of pieces, one after the other.
LEMMA CarryConcat ==
  ASSUME NEW c \in Connections, NEW b \in Seq(Pieces), NEW u \in Seq(Pieces), NEW n \in Nat,
         Carries(c, b, n), Carries(c, u, n + Len(u))
  PROVE  /\ b \o u \in Seq(Pieces) /\ Len(b \o u) = Len(b) + Len(u)
         /\ Carries(c, b \o u, n + Len(u))
  <1>1. Len(b) \in Nat /\ Len(u) \in Nat
    BY LenProperties
  <1>2. /\ b \o u \in Seq(Pieces) /\ Len(b \o u) = Len(b) + Len(u)
        /\ \A i \in 1 .. Len(b) + Len(u) : (b \o u)[i] = IF i <= Len(b) THEN b[i] ELSE u[i - Len(b)]
    BY ConcatProperties, Zenon
  <1>3. n - Len(b) >= 0
    BY DEF Carries
  <1>4. ASSUME NEW i \in 1 .. Len(b) + Len(u)
        PROVE  (b \o u)[i] = Piece(c, n - Len(b) + i)
    <2>1. CASE i <= Len(b)
      <3>1. (b \o u)[i] = b[i] /\ i \in 1 .. Len(b)
        BY <1>1, <1>2, <2>1
      <3>2. QED
        BY <3>1 DEF Carries
    <2>2. CASE ~(i <= Len(b))
      <3>1. (b \o u)[i] = u[i - Len(b)] /\ i - Len(b) \in 1 .. Len(u)
        BY <1>1, <1>2, <2>2
      <3>2. u[i - Len(b)] = Piece(c, n + Len(u) - Len(u) + (i - Len(b)))
        BY <3>1 DEF Carries
      <3>3. n + Len(u) - Len(u) + (i - Len(b)) = n - Len(b) + i
        BY <1>1
      <3>4. QED
        BY <3>1, <3>2, <3>3
    <2>3. QED
      BY <2>1, <2>2
  <1>5. n + Len(u) - Len(b \o u) = n - Len(b)
    BY <1>1, <1>2
  <1>6. QED
    BY <1>2, <1>3, <1>4, <1>5 DEF Carries

\* What is cut off, and what is left.
LEMMA CarryCut ==
  ASSUME NEW c \in Connections, NEW w \in Seq(Pieces), NEW n \in Nat, Carries(c, w, n),
         NEW k \in 0 .. Len(w)
  PROVE  /\ Carries(c, SubSeq(w, 1, k), n - Len(w) + k)
         /\ Carries(c, SubSeq(w, k + 1, Len(w)), n)
  <1>1. Len(w) \in Nat /\ n - Len(w) >= 0
    BY LenProperties DEF Carries
  <1>2. /\ Len(SubSeq(w, 1, k)) = k
        /\ \A i \in 1 .. k : SubSeq(w, 1, k)[i] = w[i]
        /\ Len(SubSeq(w, k + 1, Len(w))) = Len(w) - k
        /\ \A i \in 1 .. Len(w) - k : SubSeq(w, k + 1, Len(w))[i] = w[k + i]
    BY Cut
  <1>3. Carries(c, SubSeq(w, 1, k), n - Len(w) + k)
    <2> DEFINE u == SubSeq(w, 1, k)
    <2>1. Len(u) = k /\ \A i \in 1 .. k : u[i] = w[i]
      BY <1>2
    <2> HIDE DEF u
    <2>2. (n - Len(w) + k) - Len(u) = n - Len(w)
      BY <1>1, <2>1
    <2>3. \A i \in 1 .. Len(u) : u[i] = Piece(c, n - Len(w) + i)
      BY <1>1, <2>1 DEF Carries
    <2>4. Carries(c, u, n - Len(w) + k)
      BY <1>1, <2>2, <2>3, Zenon DEF Carries
    <2>5. QED
      BY <2>4 DEF u
  <1>4. Carries(c, SubSeq(w, k + 1, Len(w)), n)
    <2>1. \A i \in 1 .. Len(w) - k : k + i \in 1 .. Len(w) /\ n - Len(w) + (k + i) = n - (Len(w) - k) + i
      BY <1>1
    <2>2. \A i \in 1 .. Len(w) - k : w[k + i] = Piece(c, n - (Len(w) - k) + i)
      BY <2>1 DEF Carries
    <2>3. n - (Len(w) - k) >= 0
      BY <1>1
    <2>4. QED
      BY <1>2, <2>2, <2>3 DEF Carries
  <1>5. QED
    BY <1>3, <1>4

\* The two pieces of the next string.
LEMMA CarryString ==
  ASSUME NEW c \in Connections, NEW n \in Nat, NEW string \in Strings, string = ToSay(c)[n + 1]
  PROVE  /\ <<<<string, 1>>, <<string, 2>>>> \in Seq(Pieces)
         /\ Len(<<<<string, 1>>, <<string, 2>>>>) = 2
         /\ Carries(c, <<<<string, 1>>, <<string, 2>>>>, 2 * n + 2)
  <1> DEFINE u == <<<<string, 1>>, <<string, 2>>>>
  <1>1. <<string, 1>> \in Pieces /\ <<string, 2>> \in Pieces
    BY DEF Pieces
  <1>2. u \in Seq(Pieces) /\ Len(u) = 2
    BY <1>1
  <1>3. u[1] = <<string, 1>> /\ u[2] = <<string, 2>>
    OBVIOUS
  <1>4. /\ (2 * n + 1 + 1) \div 2 = n + 1 /\ (2 * n + 2 + 1) \div 2 = n + 1
        /\ 2 - ((2 * n + 1) % 2) = 1 /\ 2 - ((2 * n + 2) % 2) = 2
    OBVIOUS
  <1>5. Piece(c, 2 * n + 1) = <<string, 1>> /\ Piece(c, 2 * n + 2) = <<string, 2>>
    BY <1>4 DEF Piece
  <1>6. 2 * n + 2 - 2 = 2 * n /\ 2 * n >= 0 /\ \A i \in 1 .. 2 : i = 1 \/ i = 2
    OBVIOUS
  <1> HIDE DEF u
  <1>7. Carries(c, u, 2 * n + 2)
    <2>1. \A i \in 1 .. Len(u) : u[i] = Piece(c, 2 * n + 2 - Len(u) + i)
      <3>1. 2 * n + 2 - Len(u) + 1 = 2 * n + 1 /\ 2 * n + 2 - Len(u) + 2 = 2 * n + 2
        BY <1>2
      <3>2. QED
        BY <1>2, <1>3, <1>5, <1>6, <3>1
    <2>2. QED
      BY <1>2, <1>6, <2>1 DEF Carries
  <1>8. QED
    BY <1>2, <1>7 DEF u

-----------------------------------------------------------------------------
(* What the daemon reads.                                                  *)

\* The first piece of a whole string has an odd number, and the string is the one written
\* with that piece.
LEMMA WholeIs ==
  ASSUME NEW c \in Connections, NEW s \in Seq(Pieces), NEW n \in Nat, Carries(c, s, n),
         NEW i \in 1 .. Len(s), Whole(s, i)
  PROVE  (n - Len(s) + i) % 2 = 1 /\ s[i][1] = ToSay(c)[(n - Len(s) + i + 1) \div 2]
  <1>1. s[i] = Piece(c, n - Len(s) + i)
    BY DEF Carries
  <1>2. 2 - ((n - Len(s) + i) % 2) = 1
    BY <1>1 DEF Piece, Whole
  <1>3. n - Len(s) + i \in Nat
    BY LenProperties DEF Carries
  <1>4. QED
    BY <1>1, <1>2, <1>3 DEF Piece

\* Two pieces in a row of which the first has an odd number are a whole string.
LEMMA WholeAt ==
  ASSUME NEW c \in Connections, NEW s \in Seq(Pieces), NEW n \in Nat, Carries(c, s, n),
         NEW i \in Nat, 1 <= i, i + 1 <= Len(s), (n - Len(s) + i) % 2 = 1
  PROVE  Whole(s, i)
  <1>1. Len(s) \in Nat /\ n - Len(s) \in Nat
    BY LenProperties DEF Carries
  <1>2. /\ s[i] = Piece(c, n - Len(s) + i)
        /\ s[i + 1] = Piece(c, n - Len(s) + (i + 1))
    BY <1>1 DEF Carries
  <1> DEFINE j == n - Len(s) + i
  <1>3. j \in Nat /\ n - Len(s) + (i + 1) = j + 1 /\ j % 2 = 1
    BY <1>1
  <1> HIDE DEF j
  <1>4. (j + 1) \div 2 = (j + 1 + 1) \div 2 /\ (j + 1) % 2 = 0
    BY <1>3
  <1>5. Piece(c, j) = <<ToSay(c)[(j + 1) \div 2], 1>> /\ Piece(c, j + 1) = <<ToSay(c)[(j + 1) \div 2], 2>>
    BY <1>3, <1>4 DEF Piece
  <1>6. s[i] = Piece(c, j) /\ s[i + 1] = Piece(c, j + 1)
    BY <1>2, <1>3 DEF j
  <1>7. QED
    BY <1>1, <1>5, <1>6 DEF Whole

\* `stream >> string': the next string and what comes after it, or nothing at all.
LEMMA Reads ==
  ASSUME NEW c \in Connections, NEW s \in Seq(Pieces), NEW n \in Nat, Carries(c, s, n)
  PROVE  /\ ReadString(s).rest \in Seq(Pieces)
         /\ Carries(c, ReadString(s).rest, n)
         /\ Len(s) % 2 = 0 => Len(ReadString(s).rest) % 2 = 0
         /\ ReadString(s).ok \in BOOLEAN
         /\ ReadString(s).ok =>
              /\ Len(s) >= 2 /\ Len(ReadString(s).rest) = Len(s) - 2
              /\ (n - Len(s) + 1) % 2 = 1
              /\ ReadString(s).string = ToSay(c)[(n - Len(s) + 1 + 1) \div 2]
         /\ ~ReadString(s).ok => ReadString(s).string = ""
  <1>1. Len(s) \in Nat
    BY LenProperties
  <1>2. CASE s # <<>> /\ Whole(s, 1)
    <2>1. Len(s) >= 2
      BY <1>2 DEF Whole
    <2>2. /\ ReadString(s).ok = TRUE /\ ReadString(s).string = s[1][1]
          /\ ReadString(s).rest = SubSeq(s, 2 + 1, Len(s))
      BY <1>2 DEF ReadString
    <2>3. /\ ReadString(s).rest \in Seq(Pieces) /\ Len(ReadString(s).rest) = Len(s) - 2
          /\ Carries(c, ReadString(s).rest, n)
      <3>1. 2 \in 0 .. Len(s)
        BY <1>1, <2>1
      <3>2. SubSeq(s, 2 + 1, Len(s)) \in Seq(Pieces) /\ Len(SubSeq(s, 2 + 1, Len(s))) = Len(s) - 2
        BY <3>1, Cut, Zenon
      <3>3. Carries(c, SubSeq(s, 2 + 1, Len(s)), n)
        BY <3>1, CarryCut, Zenon
      <3>4. QED
        BY <2>2, <3>2, <3>3
    <2>5. (n - Len(s) + 1) % 2 = 1 /\ s[1][1] = ToSay(c)[(n - Len(s) + 1 + 1) \div 2]
      <3>1. 1 \in 1 .. Len(s)
        BY <1>1, <2>1
      <3>2. QED
        BY <1>2, <3>1, WholeIs
    <2>6. Len(s) % 2 = 0 => (Len(s) - 2) % 2 = 0
      BY <1>1
    <2>7. QED
      BY <2>1, <2>2, <2>3, <2>5, <2>6
  <1>3. CASE ~(s # <<>> /\ Whole(s, 1))
    <2>1. /\ ReadString(s).ok = FALSE /\ ReadString(s).string = ""
          /\ ReadString(s).rest = <<>>
      BY <1>3 DEF ReadString
    <2>2. <<>> \in Seq(Pieces) /\ Len(<<>>) = 0 /\ 0 % 2 = 0 /\ Carries(c, <<>>, n)
      BY DEF Carries
    <2>3. QED
      BY <2>1, <2>2
  <1>4. QED
    BY <1>2, <1>3

\* The buffer has a number of whole strings to begin with: as many as there are pairs of
\* pieces, or none if it begins with a text.
LEMMA WholeStringsAre ==
  ASSUME NEW c \in Connections, NEW s \in Seq(Pieces), NEW n \in Nat, Carries(c, s, n)
  PROVE  /\ WholeStrings(s) \in 0 .. Len(s) \div 2
         /\ \A i \in 1 .. WholeStrings(s) : Whole(s, 2 * i - 1)
         /\ 2 * WholeStrings(s) + 1 <= Len(s) => ~Whole(s, 2 * WholeStrings(s) + 1)
  <1>1. Len(s) \in Nat /\ n - Len(s) \in Nat
    BY LenProperties DEF Carries
  <1>2. \E m \in 0 .. Len(s) \div 2 : /\ \A i \in 1 .. m : Whole(s, 2 * i - 1)
                                      /\ 2 * m + 1 <= Len(s) => ~Whole(s, 2 * m + 1)
    <2>1. CASE (n - Len(s)) % 2 = 0
      <3>1. Len(s) \div 2 \in 0 .. Len(s) \div 2
        BY <1>1
      <3>2. ASSUME NEW i \in 1 .. Len(s) \div 2
            PROVE  Whole(s, 2 * i - 1)
        <4>1. 2 * i - 1 \in Nat /\ 1 <= 2 * i - 1 /\ 2 * i - 1 + 1 <= Len(s)
          BY <1>1
        <4>2. (n - Len(s) + (2 * i - 1)) % 2 = 1
          BY <1>1, <2>1
        <4>3. QED
          BY <4>1, <4>2, WholeAt
      <3>3. ~(2 * (Len(s) \div 2) + 1 + 1 <= Len(s))
        BY <1>1
      <3>4. ~Whole(s, 2 * (Len(s) \div 2) + 1)
        BY <3>3 DEF Whole
      <3>5. QED
        BY <3>1, <3>2, <3>4
    <2>2. CASE (n - Len(s)) % 2 # 0
      <3>1. 0 \in 0 .. Len(s) \div 2 /\ 1 .. 0 = {}
        BY <1>1
      <3>2. 2 * 0 + 1 <= Len(s) => ~Whole(s, 2 * 0 + 1)
        <4>1. SUFFICES ASSUME 1 <= Len(s), Whole(s, 1)
                       PROVE  FALSE
          OBVIOUS
        <4>2. (n - Len(s) + 1) % 2 = 1
          BY <1>1, <4>1, WholeIs
        <4>3. QED
          BY <1>1, <2>2, <4>2
      <3>3. QED
        BY <3>1, <3>2
    <2>3. QED
      BY <2>1, <2>2
  <1>3. QED
    BY <1>2, Zenon DEF WholeStrings

\* A buffer that begins with a length and ends with a text is all whole strings.
LEMMA AllWhole ==
  ASSUME NEW c \in Connections, NEW s \in Seq(Pieces), NEW n \in Nat, Carries(c, s, n),
         Len(s) % 2 = 0, n % 2 = 0
  PROVE  Len(s) = 2 * WholeStrings(s)
  <1> DEFINE m == WholeStrings(s)
  <1>1. Len(s) \in Nat /\ n - Len(s) \in Nat
    BY LenProperties DEF Carries
  <1>2. m \in 0 .. Len(s) \div 2 /\ (2 * m + 1 <= Len(s) => ~Whole(s, 2 * m + 1))
    BY WholeStringsAre
  <1> HIDE DEF m
  <1>3. m \in Nat /\ 2 * m <= Len(s)
    BY <1>1, <1>2
  <1>4. ASSUME 2 * m < Len(s)
        PROVE  FALSE
    <2>1. 2 * m + 1 + 1 <= Len(s) /\ 2 * m + 1 \in Nat /\ 1 <= 2 * m + 1
      BY <1>1, <1>3, <1>4
    <2>2. (n - Len(s) + (2 * m + 1)) % 2 = 1
      BY <1>1, <1>3
    <2>3. Whole(s, 2 * m + 1)
      BY <2>1, <2>2, WholeAt
    <2>4. QED
      BY <1>1, <1>2, <1>3, <2>1, <2>3
  <1>5. QED
    BY <1>1, <1>3, <1>4 DEF m

\* What is played is what was written, in order, from the first string in the buffer on.
LEMMA AskedIs ==
  ASSUME NEW c \in Connections, NEW s \in Seq(Pieces), NEW n \in Nat, Carries(c, s, n),
         NEW i \in 1 .. WholeStrings(s)
  PROVE  /\ (n - Len(s)) % 2 = 0 /\ 2 * i <= Len(s)
         /\ s[2 * i - 1][1] = ToSay(c)[(n - Len(s)) \div 2 + i]
  <1>1. Len(s) \in Nat /\ n - Len(s) \in Nat
    BY LenProperties DEF Carries
  <1>2. WholeStrings(s) \in 0 .. Len(s) \div 2 /\ Whole(s, 2 * i - 1)
    BY WholeStringsAre
  <1>3. i \in Nat /\ 1 <= i /\ 2 * i <= Len(s) /\ 2 * i - 1 \in 1 .. Len(s)
    BY <1>1, <1>2
  <1>4. /\ (n - Len(s) + (2 * i - 1)) % 2 = 1
        /\ s[2 * i - 1][1] = ToSay(c)[(n - Len(s) + (2 * i - 1) + 1) \div 2]
    BY <1>2, <1>3, WholeIs
  <1>5. (n - Len(s)) % 2 = 0 /\ (n - Len(s) + (2 * i - 1) + 1) \div 2 = (n - Len(s)) \div 2 + i
    BY <1>1, <1>3, <1>4
  <1>6. QED
    BY <1>3, <1>4, <1>5

-----------------------------------------------------------------------------
(* The inductive invariant.                                                *)

\* How many pieces of the client's strings the daemon has consumed.
Consumed(c) == 2 * said[c] - Len(wire[c]) - Len(buffer[c])

\* One setup() at a time, and the flag says whether there is one.
Locked ==
    /\ setupInProgress <=> inSetup # <<>>
    /\ Len(inSetup) <= 1

\* The states of a connection and of its session go together, and nothing is deleted while
\* the session is set up.
Stage(c) ==
    /\ session[c] = "none" <=> state[c] \in {"none", "StateClientSetup", "StateDoomed"}
    /\ session[c] \in {"scheduled", "setup"} <=> state[c] = "StateWaitingSession"
    /\ session[c] = "setup" <=> inSetup = <<c>>
    /\ state[c] # "none" => protocol[c] # "none"
    /\ deleting[c] \/ killTimer[c] => ~socketOpen[c] /\ state[c] # "none"
    /\ deleting[c] => state[c] # "StateWaitingSession"
    /\ protocol[c] = "version2" => session[c] = "none"
    /\ ~split[c] => state[c] # "StateTerminated"

\* Wire and buffer hold what is left of what the client wrote; strings that arrive whole
\* stay whole; nothing is consumed before the greeting, and a session is for a client whose
\* greeting is.
Stream(c) ==
    /\ Carries(c, wire[c], 2 * said[c])
    /\ Carries(c, buffer[c], 2 * said[c] - Len(wire[c]))
    /\ ~split[c] => Len(wire[c]) % 2 = 0 /\ Len(buffer[c]) % 2 = 0
    /\ protocol[c] = "none" => said[c] = 0
    /\ protocol[c] # "none" => said[c] <= Len(ToSay(c))
    /\ state[c] \in {"none", "StateClientSetup"} => Consumed(c) = 0
    /\ session[c] # "none" => Consumed(c) >= 2 * Len(Hello[protocol[c]])

\* played is what some requests among the consumed pieces ask for, in their order.
Replayed(c) ==
    /\ session[c] = "none" => played[c] = <<>>
    /\ \A i \in DOMAIN played[c] :
         \E k \in DOMAIN Requests[c] : /\ Requests[c][k] = played[c][i]
                                       /\ 2 * (Len(Hello[protocol[c]]) + k) <= Consumed(c)
    /\ \A i, j \in DOMAIN played[c] :
         i < j => \E k, l \in DOMAIN Requests[c] :
                     k < l /\ Requests[c][k] = played[c][i] /\ Requests[c][l] = played[c][j]

Conn(c) == Stage(c) /\ Stream(c) /\ Replayed(c)

IInv == TypeOK /\ Locked /\ \A c \in Connections : Conn(c)

LEMMA IInvInit == Init => IInv
  <1> SUFFICES ASSUME Init
               PROVE  IInv
    OBVIOUS
  <1>1. TypeOK
    <2>1. <<>> \in Seq(Pieces) /\ <<>> \in Seq(Names) /\ <<>> \in Seq(Connections)
      BY EmptySeq
    <2>2. QED
      BY <2>1 DEF Init, TypeOK
  <1>2. Locked
    BY DEF Init, Locked
  <1>3. ASSUME NEW c \in Connections
        PROVE  Conn(c)
    <2>1. /\ wire[c] = <<>> /\ buffer[c] = <<>> /\ said[c] = 0 /\ played[c] = <<>>
          /\ protocol[c] = "none" /\ split[c] = FALSE /\ state[c] = "none" /\ session[c] = "none"
          /\ ~deleting[c] /\ ~killTimer[c] /\ inSetup = <<>>
      BY <1>3 DEF Init
    <2>2. Len(<<>>) = 0 /\ 0 % 2 = 0 /\ DOMAIN <<>> = {} /\ <<c>> # <<>>
      OBVIOUS
    <2>3. Stage(c)
      BY <2>1, <2>2 DEF Stage
    <2>4. Stream(c)
      <3>1. 2 * said[c] = 0 /\ 2 * said[c] - Len(wire[c]) = 0 /\ Consumed(c) = 0
        <4>1. said[c] = 0 /\ Len(wire[c]) = 0 /\ Len(buffer[c]) = 0
          BY <2>1, <2>2
        <4>2. QED
          BY <4>1 DEF Consumed
      <3>2. Carries(c, wire[c], 0) /\ Carries(c, buffer[c], 0)
        BY <2>1, <2>2 DEF Carries
      <3>3. QED
        BY <2>1, <2>2, <3>1, <3>2 DEF Stream
    <2>5. Replayed(c)
      BY <2>1, <2>2 DEF Replayed
    <2>6. QED
      BY <2>3, <2>4, <2>5 DEF Conn
  <1>4. QED
    BY <1>1, <1>2, <1>3 DEF IInv

\* What is known of a connection does not depend on the others.
Untouched(d) ==
    /\ UNCHANGED <<protocol[d], split[d], said[d], wire[d], buffer[d], state[d], socketOpen[d]>>
    /\ UNCHANGED <<session[d], killTimer[d], deleting[d], played[d]>>
    /\ inSetup' = <<d>> <=> inSetup = <<d>>

\* A client that goes on speaking its protocol says the same.
LEMMA SamePieces ==
  ASSUME NEW c \in Connections, UNCHANGED protocol[c]
  PROVE  ToSay(c)' = ToSay(c) /\ \A j : Piece(c, j)' = Piece(c, j)
  BY DEF Piece, ToSay

\* What is consumed of the stream, and played from it, stays so when the state changes.
LEMMA StreamKept ==
  ASSUME NEW c \in Connections, Stream(c), Replayed(c),
         UNCHANGED <<protocol[c], split[c], said[c], wire[c], buffer[c], played[c]>>,
         state'[c] \in {"none", "StateClientSetup"} => state[c] \in {"none", "StateClientSetup"},
         session'[c] = "none" <=> session[c] = "none"
  PROVE  Stream(c)' /\ Replayed(c)'
  <1>1. /\ UNCHANGED <<protocol[c], split[c], said[c], wire[c], buffer[c], played[c]>>
        /\ ToSay(c)' = ToSay(c) /\ \A j : Piece(c, j)' = Piece(c, j)
    BY SamePieces
  <1>2. Consumed(c)' = Consumed(c)
    BY <1>1 DEF Consumed
  <1>3. Carries(c, wire[c], 2 * said[c])'
    BY <1>1 DEF Stream, Carries
  <1>4. Carries(c, buffer[c], 2 * said[c] - Len(wire[c]))'
    BY <1>1 DEF Stream, Carries
  <1>5. Stream(c)'
    BY <1>1, <1>2, <1>3, <1>4 DEF Stream
  <1>6. Replayed(c)'
    BY <1>1, <1>2 DEF Replayed
  <1>7. QED
    BY <1>5, <1>6

LEMMA UntouchedKept ==
  ASSUME NEW d \in Connections, Conn(d), Untouched(d)
  PROVE  Conn(d)'
  <1>1. Stage(d)'
    BY DEF Conn, Untouched, Stage
  <1>2. Stream(d)' /\ Replayed(d)'
    BY StreamKept DEF Conn, Untouched
  <1>3. QED
    BY <1>1, <1>2 DEF Conn

\* Steps that keep the types, the lock, and what is known of c and of all others.
LEMMA OneConn ==
  ASSUME IInv, NEW c \in Connections, TypeOK', Locked', Conn(c)',
         \A d \in Connections \ {c} : Untouched(d)
  PROVE  IInv'
  BY UntouchedKept DEF IInv

-----------------------------------------------------------------------------
(* The client's steps.                                                     *)

LEMMA ClientConnectsStep ==
  ASSUME IInv, NEW c \in Connections, ClientConnects(c)
  PROVE  IInv'
  <1> USE DEF IInv
  <1>1. TypeOK'
    <2>1. protocol' \in [Connections -> Protocols \cup {"none"}]
      BY DEF TypeOK, ClientConnects
    <2>2. split' \in [Connections -> BOOLEAN]
      <3>1. \A b \in Splits[c] : b \in BOOLEAN
        BY ConnectionAssumption
      <3>2. QED
        BY <3>1 DEF TypeOK, ClientConnects
    <2>3. socketOpen' \in [Connections -> BOOLEAN]
      BY DEF TypeOK, ClientConnects
    <2>4. QED
      BY <2>1, <2>2, <2>3 DEF TypeOK, ClientConnects, ends, locks
  <1>2. Locked'
    BY DEF Locked, ClientConnects, locks
  <1>3. \A d \in Connections \ {c} : Untouched(d)
    BY DEF TypeOK, ClientConnects, ends, locks, Untouched
  <1>4. /\ protocol[c] = "none" /\ protocol'[c] \in Protocols
        /\ UNCHANGED <<said, wire, buffer, state, session, killTimer, deleting, inSetup, played>>
    BY DEF TypeOK, ClientConnects, ends, locks
  <1>5. state[c] = "none" /\ session[c] = "none" /\ Stream(c)
    BY <1>4 DEF Conn, Stage
  <1>6. Stage(c)'
    BY <1>4, <1>5 DEF Conn, Stage
  <1>7. said[c] = 0 /\ Len(wire[c]) = 0 /\ Len(buffer[c]) = 0
    <2>1. Len(wire[c]) \in Nat /\ Len(buffer[c]) \in Nat
      BY LenProperties DEF TypeOK
    <2>2. QED
      BY <1>4, <1>5, <2>1 DEF Stream, Carries
  <1>8. Stream(c)'
    <2>1. ToSay(c)' \in Seq(Strings)
      <3>1. (protocol[c] \in Protocols)'
        BY <1>4
      <3>2. Hello[protocol'[c]] \in Seq(Strings) /\ Requests[c] \in Seq(Strings)
        BY <1>4, HelloFacts, RequestFacts, SeqMonotonic
      <3>3. QED
        BY <3>2 DEF ToSay
    <2>2. Len(ToSay(c)') \in Nat
      BY <2>1, LenProperties
    <2>3. QED
      BY <1>4, <1>5, <1>7, <2>2 DEF Stream, Carries, Consumed
  <1>9. Replayed(c)'
    BY <1>4, <1>5 DEF Conn, Replayed
  <1>10. QED
    BY <1>1, <1>2, <1>3, <1>6, <1>8, <1>9, OneConn DEF Conn

LEMMA ClientWritesStep ==
  ASSUME IInv, NEW c \in Connections, ClientWrites(c)
  PROVE  IInv'
  <1> USE DEF IInv
  <1> DEFINE string == ToSay(c)[said[c] + 1]
             new == <<<<string, 1>>, <<string, 2>>>>
  <1>1. /\ protocol[c] \in Protocols /\ said[c] \in Nat /\ said[c] < Len(ToSay(c))
        /\ wire[c] \in Seq(Pieces)
    BY DEF TypeOK, ClientWrites
  <1>2. string \in Strings
    <2>1. ToSay(c) \in Seq(Strings) /\ Len(ToSay(c)) \in Nat
      BY <1>1, ToSayFacts, LenProperties
    <2>2. said[c] + 1 \in 1 .. Len(ToSay(c))
      BY <1>1, <2>1
    <2>3. QED
      BY <2>1, <2>2, ElementOfSeq
  <1>3. new \in Seq(Pieces) /\ Len(new) = 2 /\ Carries(c, new, 2 * said[c] + 2)
    BY <1>1, <1>2, CarryString
  <1>4. said' = [said EXCEPT ![c] = @ + 1] /\ wire' = [wire EXCEPT ![c] = @ \o new]
    BY DEF ClientWrites
  <1> HIDE DEF new, string
  <1>5. /\ wire[c] \o new \in Seq(Pieces) /\ Len(wire[c] \o new) = Len(wire[c]) + 2
        /\ Carries(c, wire[c] \o new, 2 * said[c] + 2)
    <2>1. Carries(c, wire[c], 2 * said[c])
      BY DEF Conn, Stream
    <2>2. 2 * said[c] \in Nat
      BY <1>1
    <2>3. QED
      BY <1>1, <1>3, <2>1, <2>2, CarryConcat
  <1>6. TypeOK'
    <2>1. said' \in [Connections -> Nat] /\ wire' \in [Connections -> Seq(Pieces)]
      BY <1>1, <1>4, <1>5 DEF TypeOK
    <2>2. QED
      BY <2>1 DEF TypeOK, ClientWrites, ends, locks
  <1>7. Locked'
    BY DEF Locked, ClientWrites, locks
  <1>8. \A d \in Connections \ {c} : Untouched(d)
    BY <1>4 DEF TypeOK, ClientWrites, ends, locks, Untouched
  <1>9. Stage(c)'
    BY DEF Conn, Stage, ClientWrites, ends, locks
  <1>10. /\ said'[c] = said[c] + 1 /\ wire'[c] = wire[c] \o new
         /\ UNCHANGED <<protocol, split, buffer, state, session, played>>
    BY <1>4 DEF TypeOK, ClientWrites
  <1>11. ToSay(c)' = ToSay(c) /\ \A j : Piece(c, j)' = Piece(c, j)
    BY <1>10, SamePieces
  <1>12. Len(wire[c]) \in Nat /\ Len(buffer[c]) \in Nat /\ Len(wire'[c]) = Len(wire[c]) + 2
    BY <1>5, <1>10, LenProperties DEF TypeOK
  <1>13. Consumed(c)' = Consumed(c)
    <2>1. 2 * said'[c] - Len(wire'[c]) = 2 * said[c] - Len(wire[c])
      BY <1>1, <1>10, <1>12
    <2>2. QED
      BY <1>10, <2>1 DEF Consumed
  <1>14. Carries(c, wire[c], 2 * said[c])'
    <2>1. 2 * said'[c] = 2 * said[c] + 2
      BY <1>1, <1>10
    <2>2. Carries(c, wire'[c], 2 * said'[c])
      BY <1>5, <1>10, <2>1
    <2>3. QED
      BY <1>11, <2>2 DEF Carries
  <1>15. Carries(c, buffer[c], 2 * said[c] - Len(wire[c]))'
    <2>1. 2 * said'[c] - Len(wire'[c]) = 2 * said[c] - Len(wire[c])
      BY <1>1, <1>10, <1>12
    <2>2. Carries(c, buffer'[c], 2 * said'[c] - Len(wire'[c]))
      BY <1>10, <2>1 DEF Conn, Stream
    <2>3. QED
      BY <1>11, <2>2 DEF Carries
  <1>16. Stream(c)'
    <2>1. ~split'[c] => Len(wire'[c]) % 2 = 0 /\ Len(buffer'[c]) % 2 = 0
      <3>1. ~split[c] => Len(wire[c]) % 2 = 0 /\ Len(buffer[c]) % 2 = 0
        BY DEF Conn, Stream
      <3>2. \A x \in Nat : x % 2 = 0 => (x + 2) % 2 = 0
        OBVIOUS
      <3>3. QED
        BY <1>10, <1>12, <3>1, <3>2
    <2>2. protocol'[c] # "none" /\ said'[c] <= Len(ToSay(c)')
      <3>1. Len(ToSay(c)) \in Nat /\ protocol[c] # "none"
        BY <1>1, ToSayFacts, LenProperties DEF ClientWrites
      <3>2. QED
        BY <1>1, <1>10, <1>11, <3>1
    <2>3. QED
      BY <1>10, <1>13, <1>14, <1>15, <2>1, <2>2 DEF Conn, Stream
  <1>17. Replayed(c)'
    BY <1>10, <1>13 DEF Conn, Replayed
  <1>18. QED
    BY <1>6, <1>7, <1>8, <1>9, <1>16, <1>17, OneConn DEF Conn

LEMMA ClientClosesStep ==
  ASSUME IInv, NEW c \in Connections, ClientCloses(c)
  PROVE  IInv'
  <1>1. TypeOK'
    BY DEF IInv, TypeOK, ClientCloses, ends, locks
  <1>2. Locked'
    BY DEF IInv, Locked, ClientCloses, locks
  <1>3. \A d \in Connections : Untouched(d)
    BY DEF ClientCloses, ends, locks, Untouched
  <1>4. QED
    BY <1>1, <1>2, <1>3, UntouchedKept DEF IInv

-----------------------------------------------------------------------------
(* The daemon's steps that read.                                           *)

\* Wire and buffer move along the stream.
LEMMA StreamMoved ==
  ASSUME NEW c \in Connections, Stream(c), UNCHANGED <<protocol[c], split[c], said[c]>>,
         Carries(c, wire'[c], 2 * said[c]),
         Carries(c, buffer'[c], 2 * said[c] - Len(wire'[c])),
         ~split[c] => Len(wire'[c]) % 2 = 0 /\ Len(buffer'[c]) % 2 = 0,
         state'[c] \in {"none", "StateClientSetup"} => Consumed(c)' = 0,
         session'[c] # "none" => Consumed(c)' >= 2 * Len(Hello[protocol[c]])
  PROVE  Stream(c)'
  <1>1. ToSay(c)' = ToSay(c) /\ \A j : Piece(c, j)' = Piece(c, j)
    BY SamePieces
  <1>2. /\ Carries(c, wire[c], 2 * said[c])'
        /\ Carries(c, buffer[c], 2 * said[c] - Len(wire[c]))'
    BY <1>1 DEF Carries
  <1>3. QED
    BY <1>1, <1>2 DEF Stream

\* What was played before stays among what is consumed.
LEMMA ReplayedKept ==
  ASSUME NEW c \in Connections, Replayed(c), UNCHANGED <<protocol[c], played[c]>>,
         protocol[c] \in Protocols, Consumed(c) \in Int, Consumed(c)' \in Int,
         Consumed(c)' >= Consumed(c),
         session'[c] = "none" => session[c] = "none"
  PROVE  Replayed(c)'
  <1>1. Len(Hello[protocol[c]]) \in Nat /\ DOMAIN Requests[c] \subseteq Nat
    BY HelloFacts, RequestFacts, LenProperties
  <1>2. \A k \in DOMAIN Requests[c] :
           2 * (Len(Hello[protocol[c]]) + k) <= Consumed(c) =>
             2 * (Len(Hello[protocol[c]]) + k) <= Consumed(c)'
    BY <1>1
  <1>3. QED
    BY <1>2 DEF Replayed

\* setup(): a session is scheduled for a client whose greeting is consumed and whose
\* protocol is known, and for no other.
LEMMA ClientSetupReads ==
  ASSUME NEW c \in Connections, protocol[c] \in Protocols, NEW s \in Seq(Pieces),
         Carries(c, s, Len(s)), ClientSetup(c, s)
  PROVE  \E r \in Seq(Pieces) :
           /\ buffer' = [buffer EXCEPT ![c] = r]
           /\ Carries(c, r, Len(s))
           /\ Len(s) % 2 = 0 => Len(r) % 2 = 0
           /\ \/ /\ state' = [state EXCEPT ![c] = "StateWaitingSession"]
                 /\ session' = [session EXCEPT ![c] = "scheduled"]
                 /\ Len(s) - Len(r) >= 2 * Len(Hello[protocol[c]])
                 /\ protocol[c] # "version2"
              \/ /\ state' = [state EXCEPT ![c] = "StateDoomed"]
                 /\ session' = [session EXCEPT ![c] = @]
  <1> DEFINE first == ReadString(s)
             versioned == first.string \in {"FeedbackProtocolVersion#1", "FeedbackProtocolVersion#2"}
             known == Supported(first.string)
             last == IF versioned /\ known THEN ReadString(first.rest) ELSE first
             accepted == first.ok /\ last.ok /\ known
             p == protocol[c]
             n == Len(s)
  <1>1. /\ buffer' = [buffer EXCEPT ![c] = last.rest]
        /\ state' = [state EXCEPT ![c] = IF accepted THEN "StateWaitingSession" ELSE "StateDoomed"]
        /\ session' = [session EXCEPT ![c] = IF accepted THEN "scheduled" ELSE @]
    BY DEF ClientSetup
  <1>2. n \in Nat
    BY LenProperties
  <1>3. /\ first.rest \in Seq(Pieces) /\ Carries(c, first.rest, n)
        /\ n % 2 = 0 => Len(first.rest) % 2 = 0
        /\ first.ok \in BOOLEAN
        /\ first.ok => /\ n >= 2 /\ Len(first.rest) = n - 2
                       /\ first.string = ToSay(c)[(n - n + 1 + 1) \div 2]
        /\ ~first.ok => first.string = ""
    BY <1>2, Reads
  <1>4. /\ last.rest \in Seq(Pieces) /\ Carries(c, last.rest, n)
        /\ n % 2 = 0 => Len(last.rest) % 2 = 0
    <2>1. /\ ReadString(first.rest).rest \in Seq(Pieces) /\ Carries(c, ReadString(first.rest).rest, n)
          /\ Len(first.rest) % 2 = 0 => Len(ReadString(first.rest).rest) % 2 = 0
      BY <1>2, <1>3, Reads
    <2>2. QED
      BY <1>3, <2>1
  <1>5. ASSUME accepted
        PROVE  p # "version2" /\ n - Len(last.rest) >= 2 * Len(Hello[p])
    <2>1. (n - n + 1 + 1) \div 2 = 1
      BY <1>2
    <2>2. first.string = ToSay(c)[1] /\ n >= 2 /\ Len(first.rest) = n - 2
      BY <1>3, <1>5, <2>1
    <2>3. ToSay(c)[1] = Hello[p][1]
      <3>1. 1 \in 1 .. Len(Hello[p])
        BY HelloFacts
      <3>2. QED
        BY <3>1, ToSayFacts
    <2>4. p # "version2"
      BY <1>5, <2>2, <2>3, HelloFacts DEF Supported
    <2>5. CASE p = "legacy"
      <3>1. first.string = "appName" /\ Len(Hello[p]) = 1
        BY <2>2, <2>3, <2>5, HelloFacts
      <3>2. last = first
        BY <3>1
      <3>3. QED
        BY <1>2, <2>2, <2>4, <3>1, <3>2
    <2>6. CASE p = "version1"
      <3>1. first.string = "FeedbackProtocolVersion#1" /\ Len(Hello[p]) = 2
        BY <2>2, <2>3, <2>6, HelloFacts
      <3>2. last = ReadString(first.rest)
        BY <1>5, <3>1
      <3>3. Len(last.rest) = Len(first.rest) - 2
        BY <1>2, <1>3, <1>5, <3>2, Reads
      <3>4. QED
        BY <1>2, <2>2, <2>4, <3>1, <3>3
    <2>7. QED
      BY <2>4, <2>5, <2>6 DEF Protocols, Hello
  <1> HIDE DEF first, versioned, known, last, accepted
  <1>6. QED
    BY <1>1, <1>4, <1>5

\* Where in the client's requests a string of the buffer stands.
LEMMA AskedPlace ==
  ASSUME NEW c \in Connections, protocol[c] \in Protocols, NEW s \in Seq(Pieces), NEW n \in Nat,
         Carries(c, s, n), n <= 2 * Len(ToSay(c)), n - Len(s) >= 2 * Len(Hello[protocol[c]]),
         NEW i \in 1 .. WholeStrings(s)
  PROVE  LET k == (n - Len(s)) \div 2 + i - Len(Hello[protocol[c]])
         IN  /\ k \in DOMAIN Requests[c]
             /\ Asked(s, WholeStrings(s))[i] = Requests[c][k]
             /\ 2 * (Len(Hello[protocol[c]]) + k) = n - Len(s) + 2 * i
             /\ 2 * i <= Len(s)
  <1> DEFINE h == Len(Hello[protocol[c]])
             m == (n - Len(s)) \div 2
             k == m + i - h
  <1>1. Len(s) \in Nat /\ n - Len(s) \in Nat /\ i \in Nat /\ 1 <= i
    BY LenProperties, WholeStringsAre DEF Carries
  <1>2. /\ (n - Len(s)) % 2 = 0 /\ 2 * i <= Len(s)
        /\ s[2 * i - 1][1] = ToSay(c)[m + i]
    BY AskedIs
  <1>3. m \in Nat /\ 2 * m = n - Len(s)
    BY <1>1, <1>2
  <1>4. /\ h \in Nat /\ Len(Requests[c]) \in Nat /\ DOMAIN Requests[c] = 1 .. Len(Requests[c])
        /\ Len(ToSay(c)) = h + Len(Requests[c])
        /\ \A l \in 1 .. Len(Requests[c]) : ToSay(c)[h + l] = Requests[c][l]
    BY HelloFacts, RequestFacts, ToSayFacts, LenProperties
  <1> HIDE DEF h, m
  <1>5. n <= 2 * Len(ToSay(c)) /\ 2 * m >= 2 * h
    BY <1>3 DEF h
  <1>6. k \in 1 .. Len(Requests[c]) /\ h + k = m + i
    BY <1>1, <1>2, <1>3, <1>4, <1>5
  <1>7. Asked(s, WholeStrings(s))[i] = s[2 * i - 1][1]
    BY DEF Asked
  <1>8. 2 * (h + k) = n - Len(s) + 2 * i
    BY <1>1, <1>3, <1>6
  <1> HIDE DEF k
  <1>9. k \in DOMAIN Requests[c] /\ Asked(s, WholeStrings(s))[i] = Requests[c][k]
    BY <1>2, <1>4, <1>6, <1>7
  <1>10. QED
    BY <1>2, <1>8, <1>9 DEF k, m, h

\* A playback read adds requests that stand behind all that were played.
LEMMA PlaybackReplays ==
  ASSUME NEW c \in Connections, protocol[c] \in Protocols, UNCHANGED protocol[c],
         Replayed(c), played[c] \in Seq(Names), NEW s \in Seq(Pieces), NEW n \in Nat,
         Carries(c, s, n), n <= 2 * Len(ToSay(c)), n - Len(s) >= 2 * Len(Hello[protocol[c]]),
         n - Len(s) = Consumed(c), Consumed(c)' = n, session'[c] # "none",
         played'[c] = played[c] \o Asked(s, WholeStrings(s))
  PROVE  played'[c] \in Seq(Names) /\ Replayed(c)'
  <1> DEFINE m == WholeStrings(s)
             new == Asked(s, m)
             h == Len(Hello[protocol[c]])
             Place(i) == (n - Len(s)) \div 2 + i - h
  <1>1. Len(s) \in Nat /\ m \in Nat /\ h \in Nat /\ DOMAIN Requests[c] \subseteq Nat
    BY WholeStringsAre, LenProperties, HelloFacts, RequestFacts
  <1>2. ASSUME NEW i \in 1 .. m
        PROVE  /\ Place(i) \in DOMAIN Requests[c] /\ new[i] = Requests[c][Place(i)]
               /\ 2 * (h + Place(i)) = n - Len(s) + 2 * i
               /\ 2 * i <= Len(s)
    BY AskedPlace
  <1>3. new = [i \in 1 .. m |-> new[i]] /\ played'[c] = played[c] \o new
    BY DEF Asked
  <1> HIDE DEF m, new, h, Place
  <1>4. new \in Seq(Names) /\ Len(new) = m
    <2>1. \A k \in DOMAIN Requests[c] : Requests[c][k] \in Names
      BY RequestFacts, ElementOfSeq, LenProperties
    <2>2. \A i \in 1 .. m : new[i] \in Names
      BY <1>2, <2>1
    <2>3. [i \in 1 .. m |-> new[i]] \in Seq(Names) /\ Len([i \in 1 .. m |-> new[i]]) = m
      BY <1>1, <2>2
    <2>4. QED
      BY <1>3, <2>3
  <1>5. /\ played'[c] \in Seq(Names) /\ Len(played'[c]) = Len(played[c]) + m
        /\ \A i \in 1 .. Len(played[c]) + m :
             played'[c][i] = IF i <= Len(played[c]) THEN played[c][i] ELSE new[i - Len(played[c])]
    <2>1. /\ played[c] \o new \in Seq(Names) /\ Len(played[c] \o new) = Len(played[c]) + Len(new)
          /\ \A i \in 1 .. Len(played[c]) + Len(new) :
               (played[c] \o new)[i] = IF i <= Len(played[c]) THEN played[c][i]
                                       ELSE new[i - Len(played[c])]
      BY <1>4, ConcatProperties, Zenon
    <2>2. QED
      BY <1>3, <1>4, <2>1
  <1>6. Len(played[c]) \in Nat /\ DOMAIN played[c] = 1 .. Len(played[c])
    BY LenProperties
  <1>7. DOMAIN played'[c] = 1 .. Len(played[c]) + m
    BY <1>5, LenProperties
  <1>8. ASSUME NEW i \in DOMAIN played'[c], i <= Len(played[c])
        PROVE  i \in DOMAIN played[c] /\ played'[c][i] = played[c][i]
    BY <1>1, <1>5, <1>6, <1>7, <1>8
  <1>9. ASSUME NEW i \in DOMAIN played'[c], ~(i <= Len(played[c]))
        PROVE  /\ i - Len(played[c]) \in 1 .. m
               /\ played'[c][i] = new[i - Len(played[c])]
    BY <1>1, <1>5, <1>6, <1>7, <1>9
  <1>10. \A k \in DOMAIN Requests[c] : 2 * (h + k) \in Int
    BY <1>1
  <1>11. ASSUME NEW i \in DOMAIN played'[c]
         PROVE  \E k \in DOMAIN Requests[c] : Requests[c][k] = played'[c][i] /\ 2 * (h + k) <= n
    <2>1. CASE i <= Len(played[c])
      <3>1. PICK k \in DOMAIN Requests[c] :
              Requests[c][k] = played[c][i] /\ 2 * (h + k) <= n - Len(s)
        BY <1>8, <2>1 DEF Replayed, h
      <3>2. 2 * (h + k) <= n
        BY <1>1, <1>10, <3>1
      <3>3. QED
        BY <1>8, <2>1, <3>1, <3>2
    <2>2. CASE ~(i <= Len(played[c]))
      <3> DEFINE j == i - Len(played[c])
      <3>1. j \in 1 .. m /\ played'[c][i] = new[j]
        BY <1>9, <2>2
      <3> HIDE DEF j
      <3>2. 2 * (h + Place(j)) <= n
        BY <1>1, <1>2, <3>1
      <3>3. QED
        BY <1>2, <3>1, <3>2
    <2>3. QED
      BY <2>1, <2>2
  <1>12. ASSUME NEW i \in DOMAIN played'[c], NEW j \in DOMAIN played'[c], i < j
         PROVE  \E k, l \in DOMAIN Requests[c] :
                   k < l /\ Requests[c][k] = played'[c][i] /\ Requests[c][l] = played'[c][j]
    <2>1. i \in Nat /\ j \in Nat
      BY <1>7
    <2>2. CASE j <= Len(played[c])
      <3>1. i <= Len(played[c])
        BY <1>6, <1>12, <2>1, <2>2
      <3>2. /\ i \in DOMAIN played[c] /\ played'[c][i] = played[c][i]
            /\ j \in DOMAIN played[c] /\ played'[c][j] = played[c][j]
        BY <1>8, <2>2, <3>1
      <3>3. PICK k \in DOMAIN Requests[c], l \in DOMAIN Requests[c] :
              k < l /\ Requests[c][k] = played[c][i] /\ Requests[c][l] = played[c][j]
        BY <1>12, <3>2, Zenon DEF Replayed
      <3>4. QED
        BY <3>2, <3>3
    <2>3. CASE i <= Len(played[c]) /\ ~(j <= Len(played[c]))
      <3> DEFINE b == j - Len(played[c])
      <3>1. b \in 1 .. m /\ played'[c][j] = new[b]
        BY <1>9, <2>3
      <3>2. PICK k \in DOMAIN Requests[c] :
              Requests[c][k] = played[c][i] /\ 2 * (h + k) <= n - Len(s)
        BY <1>8, <2>3 DEF Replayed, h
      <3> HIDE DEF b
      <3>3. Place(b) \in DOMAIN Requests[c] /\ 2 * (h + Place(b)) = n - Len(s) + 2 * b
        BY <1>2, <3>1
      <3>4. k < Place(b)
        BY <1>1, <3>1, <3>2, <3>3
      <3>5. QED
        BY <1>2, <1>8, <2>3, <3>1, <3>2, <3>3, <3>4
    <2>4. CASE ~(i <= Len(played[c])) /\ ~(j <= Len(played[c]))
      <3> DEFINE a == i - Len(played[c])
                 b == j - Len(played[c])
      <3>1. /\ a \in 1 .. m /\ played'[c][i] = new[a]
            /\ b \in 1 .. m /\ played'[c][j] = new[b]
        BY <1>9, <2>4
      <3>2. a < b
        BY <1>6, <1>12, <2>1
      <3> HIDE DEF a, b
      <3>3. Place(a) \in DOMAIN Requests[c] /\ 2 * (h + Place(a)) = n - Len(s) + 2 * a
        BY <1>2, <3>1
      <3>4. Place(b) \in DOMAIN Requests[c] /\ 2 * (h + Place(b)) = n - Len(s) + 2 * b
        BY <1>2, <3>1
      <3>5. Place(a) < Place(b)
        <4>1. /\ Place(a) \in Nat /\ Place(b) \in Nat /\ n - Len(s) \in Int
              /\ a \in Nat /\ b \in Nat
          BY <1>1, <3>1, <3>3, <3>4
        <4>2. QED
          BY <1>1, <3>2, <3>3, <3>4, <4>1
      <3>6. QED
        BY <1>2, <3>1, <3>3, <3>4, <3>5
    <2>5. QED
      BY <2>2, <2>3, <2>4
  <1>13. Replayed(c)'
    BY <1>11, <1>12 DEF Replayed, h
  <1>14. QED
    BY <1>5, <1>13

\* A read of k pieces: what is in the buffer then, and what stays on the wire.
Got(c, k) == buffer[c] \o SubSeq(wire[c], 1, k)
Left(c, k) == SubSeq(wire[c], k + 1, Len(wire[c]))

LEMMA ReadFacts ==
  ASSUME IInv, NEW c \in Connections, NEW k \in Amounts(c)
  PROVE  /\ protocol[c] \in Protocols
         /\ Left(c, k) \in Seq(Pieces) /\ Carries(c, Left(c, k), 2 * said[c])
         /\ Got(c, k) \in Seq(Pieces) /\ Carries(c, Got(c, k), 2 * said[c] - Len(Left(c, k)))
         /\ 2 * said[c] - Len(Left(c, k)) \in Nat /\ 2 * said[c] - Len(Left(c, k)) <= 2 * Len(ToSay(c))
         /\ 2 * said[c] - Len(Left(c, k)) - Len(Got(c, k)) = Consumed(c)
         /\ Consumed(c) \in Nat
         /\ ~split[c] => Len(Left(c, k)) % 2 = 0 /\ Len(Got(c, k)) % 2 = 0
  <1> DEFINE u == SubSeq(wire[c], 1, k)
             v == SubSeq(wire[c], k + 1, Len(wire[c]))
             s == Got(c, k)
             w == Left(c, k)
  <1>1. /\ wire[c] \in Seq(Pieces) /\ buffer[c] \in Seq(Pieces) /\ said[c] \in Nat
        /\ protocol[c] \in Protocols \cup {"none"} /\ split[c] \in BOOLEAN
    BY DEF IInv, TypeOK
  <1>2. Len(wire[c]) \in Nat /\ Len(buffer[c]) \in Nat
    BY <1>1, LenProperties
  <1>3. k \in 1 .. Len(wire[c]) /\ (split[c] \/ k % 2 = 0)
    BY DEF Amounts
  <1>4. Stream(c)
    BY DEF IInv, Conn
  <1>5. /\ Carries(c, wire[c], 2 * said[c]) /\ 2 * said[c] - Len(wire[c]) >= 0
        /\ Carries(c, buffer[c], 2 * said[c] - Len(wire[c]))
    BY <1>4 DEF Stream, Carries
  <1>6. protocol[c] \in Protocols /\ said[c] <= Len(ToSay(c))
    BY <1>1, <1>2, <1>3, <1>4, <1>5 DEF Stream
  <1>7. k \in 0 .. Len(wire[c]) /\ 2 * said[c] \in Nat /\ 2 * said[c] - Len(wire[c]) \in Nat
    BY <1>1, <1>2, <1>3, <1>5
  <1>8. /\ u \in Seq(Pieces) /\ Len(u) = k /\ v \in Seq(Pieces) /\ Len(v) = Len(wire[c]) - k
        /\ Carries(c, u, 2 * said[c] - Len(wire[c]) + k) /\ Carries(c, v, 2 * said[c])
    <2>1. u \in Seq(Pieces) /\ Len(u) = k /\ v \in Seq(Pieces) /\ Len(v) = Len(wire[c]) - k
      BY <1>1, <1>7, Cut
    <2>2. Carries(c, u, 2 * said[c] - Len(wire[c]) + k) /\ Carries(c, v, 2 * said[c])
      BY <1>1, <1>5, <1>7, CarryCut, Zenon
    <2>3. QED
      BY <2>1, <2>2
  <1>9. s = buffer[c] \o u /\ w = v
    BY DEF Got, Left
  <1> HIDE DEF u, v, s, w
  <1>10. /\ s \in Seq(Pieces) /\ Len(s) = Len(buffer[c]) + k
         /\ Carries(c, s, 2 * said[c] - Len(wire[c]) + k)
    <2> DEFINE n == 2 * said[c] - Len(wire[c])
    <2>1. n \in Nat /\ Carries(c, buffer[c], n) /\ Carries(c, u, n + k)
      BY <1>5, <1>7, <1>8
    <2> HIDE DEF n
    <2>2. /\ buffer[c] \o u \in Seq(Pieces) /\ Len(buffer[c] \o u) = Len(buffer[c]) + Len(u)
          /\ Carries(c, buffer[c] \o u, n + Len(u))
      <3>1. Carries(c, u, n + Len(u))
        BY <1>8, <2>1
      <3>2. QED
        BY <1>1, <1>8, <2>1, <3>1, CarryConcat, Zenon
    <2>3. QED
      BY <1>8, <1>9, <2>2 DEF n
  <1>11. Len(w) = Len(wire[c]) - k
    BY <1>8, <1>9
  <1>12. 2 * said[c] - Len(w) = 2 * said[c] - Len(wire[c]) + k
    BY <1>1, <1>2, <1>3, <1>11
  <1>13. Carries(c, s, 2 * said[c] - Len(w))
    BY <1>10, <1>12
  <1>14. /\ 2 * said[c] - (Len(wire[c]) - k) \in Nat
         /\ 2 * said[c] - (Len(wire[c]) - k) <= 2 * Len(ToSay(c))
         /\ 2 * said[c] - (Len(wire[c]) - k) - (Len(buffer[c]) + k) = Consumed(c)
         /\ Consumed(c) \in Nat
    <2>1. 2 * Len(ToSay(c)) \in Nat /\ 2 * said[c] <= 2 * Len(ToSay(c))
      <3>1. Len(ToSay(c)) \in Nat
        BY <1>6, ToSayFacts, LenProperties
      <3>2. QED
        BY <1>1, <1>6, <3>1
    <2>2. 2 * said[c] - Len(wire[c]) - Len(buffer[c]) >= 0
      BY <1>5 DEF Carries
    <2> DEFINE t == 2 * Len(ToSay(c))
               a == 2 * said[c]
               lw == Len(wire[c])
               lb == Len(buffer[c])
    <2>3. /\ t \in Nat /\ a \in Nat /\ a <= t /\ lw \in Nat /\ lb \in Nat
          /\ a - lw - lb >= 0 /\ k \in 1 .. lw /\ Consumed(c) = a - lw - lb
      BY <1>2, <1>3, <1>7, <2>1, <2>2 DEF Consumed
    <2> HIDE DEF t, a, lw, lb
    <2>4. /\ a - (lw - k) \in Nat /\ a - (lw - k) <= t
          /\ a - (lw - k) - (lb + k) = a - lw - lb
          /\ a - lw - lb \in Nat
      BY <2>3
    <2>5. QED
      BY <2>3, <2>4 DEF t, a, lw, lb
  <1>15. /\ 2 * said[c] - Len(w) \in Nat /\ 2 * said[c] - Len(w) <= 2 * Len(ToSay(c))
         /\ 2 * said[c] - Len(w) - Len(s) = Consumed(c) /\ Consumed(c) \in Nat
    BY <1>10, <1>11, <1>14, Zenon
  <1>16. ~split[c] => Len(w) % 2 = 0 /\ Len(s) % 2 = 0
    <2>1. \A x, y \in Nat : x % 2 = 0 /\ y % 2 = 0 => (x + y) % 2 = 0 /\ (x - y) % 2 = 0
      OBVIOUS
    <2>2. ~split[c] => Len(wire[c]) % 2 = 0 /\ Len(buffer[c]) % 2 = 0 /\ k % 2 = 0
      BY <1>3, <1>4 DEF Stream
    <2>3. k \in Nat
      BY <1>3
    <2>4. QED
      BY <1>2, <1>10, <1>11, <2>1, <2>2, <2>3
  <1>17. QED
    BY <1>6, <1>8, <1>9, <1>10, <1>13, <1>14, <1>15, <1>16 DEF s, w

\* A greeting is read, on acceptance or later.
LEMMA GreetingStep ==
  ASSUME IInv, NEW c \in Connections, protocol[c] \in Protocols,
         state[c] \in {"none", "StateClientSetup"}, deleting[c] = FALSE, killTimer[c] = FALSE,
         NEW w \in Seq(Pieces), Carries(c, w, 2 * said[c]),
         NEW s \in Seq(Pieces), Carries(c, s, 2 * said[c] - Len(w)),
         2 * said[c] - Len(w) = Len(s),
         ~split[c] => Len(w) % 2 = 0 /\ Len(s) % 2 = 0,
         ClientSetup(c, s), wire' = [wire EXCEPT ![c] = w], UNCHANGED <<client, locks>>
  PROVE  IInv'
  <1>1. PICK r \in Seq(Pieces) :
          /\ buffer' = [buffer EXCEPT ![c] = r]
          /\ Carries(c, r, Len(s))
          /\ Len(s) % 2 = 0 => Len(r) % 2 = 0
          /\ \/ /\ state' = [state EXCEPT ![c] = "StateWaitingSession"]
                /\ session' = [session EXCEPT ![c] = "scheduled"]
                /\ Len(s) - Len(r) >= 2 * Len(Hello[protocol[c]])
                /\ protocol[c] # "version2"
             \/ /\ state' = [state EXCEPT ![c] = "StateDoomed"]
                /\ session' = [session EXCEPT ![c] = @]
    BY ClientSetupReads
  <1>2. /\ UNCHANGED <<protocol, split, said, closed, setupInProgress, inSetup>>
        /\ UNCHANGED <<socketOpen, killTimer, deleting, played>>
    BY DEF ClientSetup, client, locks, ends
  <1>3. Stage(c) /\ Stream(c) /\ Replayed(c) /\ TypeOK /\ Locked
    BY DEF IInv, Conn
  <1>4. session[c] = "none" /\ inSetup # <<c>> /\ Consumed(c) = 0
    BY <1>3 DEF Stage, Stream
  <1>5. TypeOK'
    <2>1. waited' \in [Connections -> SUBSET Names]
      <3>1. \A t : RequestsIn(t) \subseteq Names
        BY DEF RequestsIn
      <3>2. \E t : waited' = [waited EXCEPT ![c] = @ \cup RequestsIn(t)]
        BY DEF ClientSetup
      <3>3. QED
        BY <1>3, <3>1, <3>2 DEF TypeOK
    <2>2. /\ clientFeedbackProtocolVersion' \in [Connections -> {"Unknown", "Version_1"}]
      BY <1>3 DEF ClientSetup, TypeOK
    <2>3. wire' \in [Connections -> Seq(Pieces)] /\ buffer' \in [Connections -> Seq(Pieces)]
      BY <1>1, <1>3 DEF TypeOK
    <2>4. /\ state' \in [Connections -> {"none", "StateClientSetup", "StateWaitingSession",
                                         "StatePlayback", "StateTerminated", "StateDoomed"}]
          /\ session' \in [Connections -> {"none", "scheduled", "setup", "ready"}]
      BY <1>1, <1>3 DEF TypeOK
    <2>5. QED
      BY <1>2, <1>3, <2>1, <2>2, <2>3, <2>4 DEF TypeOK
  <1>6. Locked'
    BY <1>2, <1>3 DEF Locked
  <1>7. \A d \in Connections \ {c} : Untouched(d)
    BY <1>1, <1>2, <1>3 DEF TypeOK, Untouched
  <1>8. /\ wire'[c] = w /\ buffer'[c] = r
        /\ \/ /\ state'[c] = "StateWaitingSession" /\ session'[c] = "scheduled"
              /\ Len(s) - Len(r) >= 2 * Len(Hello[protocol[c]])
              /\ protocol[c] # "version2"
           \/ state'[c] = "StateDoomed" /\ session'[c] = "none"
    BY <1>1, <1>3, <1>4 DEF TypeOK
  <1>9. Stage(c)'
    BY <1>2, <1>3, <1>4, <1>8 DEF Stage, Protocols, Hello
  <1>10. Consumed(c)' = Len(s) - Len(r) /\ Consumed(c)' >= 0 /\ Consumed(c)' \in Int
    <2>1. Len(s) \in Nat /\ Len(r) \in Nat /\ Len(s) - Len(r) >= 0
      BY <1>1, LenProperties DEF Carries
    <2>2. QED
      BY <1>2, <1>8, <2>1 DEF Consumed
  <1>11. Stream(c)'
    <2>1. Carries(c, wire'[c], 2 * said[c])
      BY <1>8
    <2>2. Carries(c, buffer'[c], 2 * said[c] - Len(wire'[c]))
      BY <1>1, <1>8
    <2>3. ~split[c] => Len(wire'[c]) % 2 = 0 /\ Len(buffer'[c]) % 2 = 0
      BY <1>1, <1>8
    <2>4. session'[c] # "none" => Consumed(c)' >= 2 * Len(Hello[protocol[c]])
      BY <1>8, <1>10
    <2>5. ~(state'[c] \in {"none", "StateClientSetup"})
      BY <1>8
    <2>6. QED
      BY <1>2, <1>3, <2>1, <2>2, <2>3, <2>4, <2>5, StreamMoved
  <1>12. Replayed(c)'
    BY <1>2, <1>3, <1>4, <1>10, ReplayedKept
  <1>13. QED
    BY <1>5, <1>6, <1>7, <1>9, <1>11, <1>12, OneConn DEF Conn

LEMMA AcceptStep ==
  ASSUME IInv, NEW c \in Connections, Accept(c)
  PROVE  IInv'
  <1>1. TypeOK /\ Stage(c) /\ Stream(c) /\ Replayed(c) /\ Locked
    BY DEF IInv, Conn
  <1>2. /\ protocol[c] \in Protocols /\ state[c] = "none" /\ session[c] = "none"
        /\ deleting[c] = FALSE /\ killTimer[c] = FALSE /\ Consumed(c) = 0
    BY <1>1 DEF Accept, TypeOK, Stage, Stream
  <1>3. UNCHANGED <<client, wire, locks>>
    BY DEF Accept
  <1>4. CASE buffer[c] # <<>>
    <2>1. ClientSetup(c, buffer[c])
      BY <1>4 DEF Accept
    <2>2. wire[c] \in Seq(Pieces) /\ buffer[c] \in Seq(Pieces)
      BY <1>1 DEF TypeOK
    <2>3. /\ Carries(c, wire[c], 2 * said[c]) /\ Carries(c, buffer[c], 2 * said[c] - Len(wire[c]))
          /\ ~split[c] => Len(wire[c]) % 2 = 0 /\ Len(buffer[c]) % 2 = 0
      BY <1>1 DEF Stream
    <2>4. 2 * said[c] - Len(wire[c]) = Len(buffer[c])
      <3>1. said[c] \in Nat /\ Len(wire[c]) \in Nat /\ Len(buffer[c]) \in Nat
        BY <1>1, LenProperties DEF TypeOK
      <3>2. QED
        BY <1>2, <3>1 DEF Consumed
    <2>5. wire' = [wire EXCEPT ![c] = wire[c]]
      BY <1>1, <1>3 DEF TypeOK
    <2>6. QED
      BY <1>2, <1>3, <2>1, <2>2, <2>3, <2>4, <2>5, GreetingStep
  <1>5. CASE buffer[c] = <<>>
    <2>1. /\ state' = [state EXCEPT ![c] = "StateClientSetup"]
          /\ UNCHANGED <<buffer, socketOpen, session, clientFeedbackProtocolVersion,
                         ends, played, waited>>
      BY <1>5 DEF Accept
    <2>2. TypeOK'
      BY <1>1, <1>3, <2>1 DEF TypeOK, client, locks, ends
    <2>3. Locked'
      BY <1>1, <1>3 DEF Locked, locks
    <2>4. \A d \in Connections \ {c} : Untouched(d)
      BY <1>1, <1>3, <2>1 DEF TypeOK, client, locks, ends, Untouched
    <2>5. state'[c] = "StateClientSetup"
      BY <1>1, <2>1 DEF TypeOK
    <2>6. Stage(c)'
      BY <1>1, <1>2, <1>3, <2>1, <2>5 DEF Stage, client, locks, ends, Protocols, Hello
    <2>7. Stream(c)' /\ Replayed(c)'
      BY <1>1, <1>2, <1>3, <2>1, <2>5, StreamKept DEF client
    <2>8. QED
      BY <2>2, <2>3, <2>4, <2>6, <2>7, OneConn DEF Conn
  <1>6. QED
    BY <1>4, <1>5

LEMMA ArrivesEarlyStep ==
  ASSUME IInv, NEW c \in Connections, ArrivesEarly(c)
  PROVE  IInv'
  <1>1. TypeOK /\ Stage(c) /\ Stream(c) /\ Replayed(c) /\ Locked
    BY DEF IInv, Conn
  <1>2. PICK k \in Amounts(c) :
          /\ buffer' = [buffer EXCEPT ![c] = buffer[c] \o SubSeq(wire[c], 1, k)]
          /\ wire' = [wire EXCEPT ![c] = SubSeq(wire[c], k + 1, Len(wire[c]))]
    BY <1>1 DEF ArrivesEarly, TypeOK
  <1> DEFINE s == Got(c, k)
             w == Left(c, k)
  <1>3. /\ protocol[c] \in Protocols
        /\ w \in Seq(Pieces) /\ Carries(c, w, 2 * said[c])
        /\ s \in Seq(Pieces) /\ Carries(c, s, 2 * said[c] - Len(w))
        /\ 2 * said[c] - Len(w) - Len(s) = Consumed(c) /\ Consumed(c) \in Nat
        /\ ~split[c] => Len(w) % 2 = 0 /\ Len(s) % 2 = 0
    BY ReadFacts
  <1>4. buffer' = [buffer EXCEPT ![c] = s] /\ wire' = [wire EXCEPT ![c] = w]
    BY <1>2 DEF Got, Left
  <1> HIDE DEF s, w
  <1>5. /\ UNCHANGED <<protocol, split, said, closed, setupInProgress, inSetup>>
        /\ UNCHANGED <<state, socketOpen, session, clientFeedbackProtocolVersion>>
        /\ UNCHANGED <<killTimer, deleting, played, waited>>
    BY DEF ArrivesEarly, client, locks, ends
  <1>6. TypeOK'
    <2>1. wire' \in [Connections -> Seq(Pieces)] /\ buffer' \in [Connections -> Seq(Pieces)]
      BY <1>1, <1>3, <1>4 DEF TypeOK
    <2>2. QED
      BY <1>1, <1>5, <2>1 DEF TypeOK
  <1>7. Locked'
    BY <1>1, <1>5 DEF Locked
  <1>8. \A d \in Connections \ {c} : Untouched(d)
    BY <1>1, <1>4, <1>5 DEF TypeOK, Untouched
  <1>9. wire'[c] = w /\ buffer'[c] = s
    BY <1>1, <1>4 DEF TypeOK
  <1>10. Consumed(c)' = Consumed(c)
    BY <1>3, <1>5, <1>9 DEF Consumed
  <1>11. Stage(c)'
    BY <1>1, <1>5 DEF Stage
  <1>12. Stream(c)'
    <2>1. Stream(c) => /\ state[c] \in {"none", "StateClientSetup"} => Consumed(c) = 0
                       /\ session[c] # "none" => Consumed(c) >= 2 * Len(Hello[protocol[c]])
      BY DEF Stream
    <2>2. QED
      BY <1>1, <1>3, <1>5, <1>9, <1>10, <2>1, StreamMoved
  <1>13. Replayed(c)'
    BY <1>1, <1>5, <1>10 DEF Replayed
  <1>14. QED
    BY <1>6, <1>7, <1>8, <1>11, <1>12, <1>13, OneConn DEF Conn

\* Everything that was read is consumed.
LEMMA EmptiedStream ==
  ASSUME IInv, NEW c \in Connections, NEW k \in Amounts(c),
         UNCHANGED <<protocol[c], split[c], said[c]>>,
         wire'[c] = Left(c, k), buffer'[c] = <<>>,
         ~(state'[c] \in {"none", "StateClientSetup"}),
         session'[c] # "none" => session[c] # "none"
  PROVE  /\ Stream(c)'
         /\ Consumed(c)' = 2 * said[c] - Len(Left(c, k))
         /\ Consumed(c) \in Nat /\ Consumed(c)' \in Nat /\ Consumed(c)' >= Consumed(c)
  <1> DEFINE w == Left(c, k)
             s == Got(c, k)
             h == Len(Hello[protocol[c]])
  <1>1. /\ protocol[c] \in Protocols /\ w \in Seq(Pieces) /\ Carries(c, w, 2 * said[c])
        /\ s \in Seq(Pieces) /\ 2 * said[c] - Len(w) \in Nat
        /\ 2 * said[c] - Len(w) - Len(s) = Consumed(c) /\ Consumed(c) \in Nat
        /\ ~split[c] => Len(w) % 2 = 0
    BY ReadFacts, Zenon
  <1>2. Stream(c) /\ h \in Nat
    BY <1>1, HelloFacts DEF IInv, Conn
  <1>3. session[c] # "none" => Consumed(c) >= 2 * h
    BY <1>2 DEF Stream
  <1>4. wire'[c] = w
    OBVIOUS
  <1> HIDE DEF w, s, h
  <1>5. Consumed(c)' = 2 * said[c] - Len(w)
    <2>1. Consumed(c)' = 2 * said[c] - Len(w) - 0
      BY <1>4 DEF Consumed
    <2>2. QED
      BY <1>1, <2>1
  <1>6. Len(s) \in Nat
    BY <1>1, LenProperties
  <1>7. Consumed(c)' \in Nat /\ Consumed(c)' >= Consumed(c)
    <2>1. \A x, y \in Nat : x - y = Consumed(c) => x >= Consumed(c)
      BY <1>1
    <2>2. QED
      BY <1>1, <1>5, <1>6, <2>1
  <1>8. session'[c] # "none" => Consumed(c)' >= 2 * h
    <2>1. \A x, y, z \in Nat : x >= y /\ y >= 2 * z => x >= 2 * z
      OBVIOUS
    <2>2. QED
      BY <1>1, <1>2, <1>3, <1>7, <2>1
  <1>9. Carries(c, buffer'[c], 2 * said[c] - Len(wire'[c])) /\ Len(buffer'[c]) % 2 = 0
    BY <1>1, <1>4 DEF Carries
  <1>10. Stream(c)'
    BY <1>1, <1>2, <1>4, <1>8, <1>9, StreamMoved DEF h
  <1>11. QED
    BY <1>1, <1>5, <1>7, <1>10 DEF w

LEMMA PlaybackStep ==
  ASSUME IInv, NEW c \in Connections, NEW k \in Amounts(c), state[c] = "StatePlayback",
         socketOpen[c], Playback(c, Got(c, k)), wire' = [wire EXCEPT ![c] = Left(c, k)],
         UNCHANGED <<client, locks>>
  PROVE  IInv'
  <1> DEFINE s == Got(c, k)
             w == Left(c, k)
             n == 2 * said[c] - Len(w)
             new == Asked(s, WholeStrings(s))
  <1>1. TypeOK /\ Stage(c) /\ Stream(c) /\ Replayed(c) /\ Locked
    BY DEF IInv, Conn
  <1>2. /\ protocol[c] \in Protocols /\ w \in Seq(Pieces)
        /\ s \in Seq(Pieces) /\ Carries(c, s, n) /\ n \in Nat /\ n <= 2 * Len(ToSay(c))
        /\ n - Len(s) = Consumed(c) /\ Consumed(c) \in Nat
        /\ ~split[c] => Len(w) % 2 = 0 /\ Len(s) % 2 = 0
    BY ReadFacts, Zenon
  <1>3. /\ session[c] = "ready" /\ deleting[c] = FALSE /\ inSetup # <<c>>
        /\ Consumed(c) >= 2 * Len(Hello[protocol[c]]) /\ protocol[c] # "version2"
    <2>1. session[c] \in {"none", "scheduled", "setup", "ready"} /\ deleting[c] \in BOOLEAN
      BY <1>1 DEF TypeOK
    <2>2. session[c] = "ready" /\ deleting[c] = FALSE /\ inSetup # <<c>> /\ protocol[c] # "version2"
      BY <1>1, <2>1 DEF Stage
    <2>3. QED
      BY <1>1, <2>2 DEF Stream
  <1>4. /\ played' = [played EXCEPT ![c] = played[c] \o new]
        /\ buffer' = [buffer EXCEPT ![c] = <<>>] /\ wire' = [wire EXCEPT ![c] = w]
        /\ UNCHANGED <<session, clientFeedbackProtocolVersion, killTimer, waited>>
        /\ UNCHANGED <<protocol, split, said, closed, setupInProgress, inSetup>>
        /\ \/ /\ Len(s) = 2 * WholeStrings(s)
              /\ UNCHANGED <<state, socketOpen, deleting>>
           \/ /\ Len(s) # 2 * WholeStrings(s)
              /\ state' = [state EXCEPT ![c] = "StateTerminated"]
              /\ socketOpen' = [socketOpen EXCEPT ![c] = FALSE]
              /\ deleting' = [deleting EXCEPT ![c] = TRUE]
    BY <1>1 DEF Playback, client, locks, TypeOK
  <1>5. ~split[c] => Len(s) = 2 * WholeStrings(s)
    <2>1. \A x, y \in Nat : x % 2 = 0 => (2 * y - x) % 2 = 0
      OBVIOUS
    <2>2. said[c] \in Nat /\ Len(w) \in Nat
      BY <1>1, <1>2, LenProperties DEF TypeOK
    <2>3. ~split[c] => Len(s) % 2 = 0 /\ n % 2 = 0
      BY <1>2, <2>1, <2>2
    <2>4. QED
      BY <1>2, <2>3, AllWhole
  <1>6. /\ played'[c] = played[c] \o new /\ buffer'[c] = <<>> /\ wire'[c] = w
        /\ \/ UNCHANGED <<state[c], socketOpen[c], deleting[c]>>
           \/ split[c] /\ state'[c] = "StateTerminated" /\ socketOpen'[c] = FALSE
    BY <1>1, <1>4, <1>5 DEF TypeOK
  <1>7. Stage(c)'
    BY <1>1, <1>3, <1>4, <1>6 DEF Stage
  <1>8. Stream(c)' /\ Consumed(c)' = n
    BY <1>3, <1>4, <1>6, EmptiedStream
  <1>9. played'[c] \in Seq(Names) /\ Replayed(c)'
    <2>1. played[c] \in Seq(Names) /\ session'[c] # "none"
      BY <1>1, <1>3, <1>4 DEF TypeOK
    <2>2. n - Len(s) >= 2 * Len(Hello[protocol[c]])
      BY <1>2, <1>3
    <2> HIDE DEF n, s
    <2>3. QED
      BY <1>1, <1>2, <1>4, <1>6, <1>8, <2>1, <2>2, PlaybackReplays
  <1> HIDE DEF s, w, n, new
  <1>10. TypeOK'
    <2>1. played' \in [Connections -> Seq(Names)]
      <3>1. played' = [played EXCEPT ![c] = played'[c]]
        BY <1>1, <1>4, <1>6 DEF TypeOK
      <3>2. QED
        BY <1>1, <1>9, <3>1 DEF TypeOK
    <2>2. wire' \in [Connections -> Seq(Pieces)] /\ buffer' \in [Connections -> Seq(Pieces)]
      BY <1>1, <1>2, <1>4, EmptySeq DEF TypeOK
    <2>3. /\ state' \in [Connections -> {"none", "StateClientSetup", "StateWaitingSession",
                                         "StatePlayback", "StateTerminated", "StateDoomed"}]
          /\ socketOpen' \in [Connections -> BOOLEAN] /\ deleting' \in [Connections -> BOOLEAN]
      BY <1>1, <1>4 DEF TypeOK
    <2>4. QED
      BY <1>1, <1>4, <2>1, <2>2, <2>3 DEF TypeOK
  <1>11. Locked'
    BY <1>1, <1>4 DEF Locked
  <1>12. \A d \in Connections \ {c} : Untouched(d)
    BY <1>1, <1>4 DEF TypeOK, Untouched
  <1>13. QED
    BY <1>7, <1>8, <1>9, <1>10, <1>11, <1>12, OneConn DEF Conn

LEMMA DiscardStep ==
  ASSUME IInv, NEW c \in Connections, NEW k \in Amounts(c),
         state[c] \in {"StateDoomed", "StateWaitingSession"},
         DiscardAll(c, Got(c, k)), wire' = [wire EXCEPT ![c] = Left(c, k)],
         UNCHANGED <<client, locks>>
  PROVE  IInv'
  <1> DEFINE w == Left(c, k)
  <1>1. TypeOK /\ Stage(c) /\ Stream(c) /\ Replayed(c) /\ Locked
    BY DEF IInv, Conn
  <1>2. protocol[c] \in Protocols /\ w \in Seq(Pieces)
    BY ReadFacts
  <1>3. /\ buffer' = [buffer EXCEPT ![c] = <<>>] /\ wire' = [wire EXCEPT ![c] = w]
        /\ waited' = [waited EXCEPT ![c] = @ \cup RequestsIn(Got(c, k))]
        /\ UNCHANGED <<state, socketOpen, session, clientFeedbackProtocolVersion>>
        /\ UNCHANGED <<killTimer, deleting, played>>
        /\ UNCHANGED <<protocol, split, said, closed, setupInProgress, inSetup>>
    BY DEF DiscardAll, client, locks, ends
  <1>4. buffer'[c] = <<>> /\ wire'[c] = w
    BY <1>1, <1>3 DEF TypeOK
  <1>5. /\ Stream(c)' /\ Consumed(c) \in Nat /\ Consumed(c)' \in Nat
        /\ Consumed(c)' >= Consumed(c)
    BY <1>3, <1>4, EmptiedStream
  <1> HIDE DEF w
  <1>6. Stage(c)'
    BY <1>1, <1>3 DEF Stage
  <1>7. Replayed(c)'
    BY <1>1, <1>2, <1>3, <1>5, ReplayedKept
  <1>8. TypeOK'
    <2>1. waited' \in [Connections -> SUBSET Names]
      BY <1>1, <1>3 DEF TypeOK, RequestsIn
    <2>2. wire' \in [Connections -> Seq(Pieces)] /\ buffer' \in [Connections -> Seq(Pieces)]
      BY <1>1, <1>2, <1>3, EmptySeq DEF TypeOK
    <2>3. QED
      BY <1>1, <1>3, <2>1, <2>2 DEF TypeOK
  <1>9. Locked'
    BY <1>1, <1>3 DEF Locked
  <1>10. \A d \in Connections \ {c} : Untouched(d)
    BY <1>1, <1>3 DEF TypeOK, Untouched
  <1>11. QED
    BY <1>5, <1>6, <1>7, <1>8, <1>9, <1>10, OneConn DEF Conn

LEMMA readSocketDataStep ==
  ASSUME IInv, NEW c \in Connections, readSocketData(c)
  PROVE  IInv'
  <1>1. PICK k \in Amounts(c) :
          /\ wire' = [wire EXCEPT ![c] = Left(c, k)]
          /\ \/ state[c] = "StatePlayback" /\ Playback(c, Got(c, k))
             \/ state[c] \in {"StateDoomed", "StateWaitingSession"} /\ DiscardAll(c, Got(c, k))
             \/ state[c] = "StateClientSetup" /\ ClientSetup(c, Got(c, k))
    BY DEF readSocketData, Got, Left, IInv, TypeOK
  <1>2. UNCHANGED <<client, locks>> /\ socketOpen[c]
    BY DEF readSocketData
  <1>3. CASE state[c] = "StatePlayback" /\ Playback(c, Got(c, k))
    BY <1>1, <1>2, <1>3, PlaybackStep
  <1>4. CASE state[c] \in {"StateDoomed", "StateWaitingSession"} /\ DiscardAll(c, Got(c, k))
    BY <1>1, <1>2, <1>4, DiscardStep
  <1>5. CASE state[c] = "StateClientSetup" /\ ClientSetup(c, Got(c, k))
    <2> DEFINE s == Got(c, k)
               w == Left(c, k)
    <2>1. /\ protocol[c] \in Protocols
          /\ w \in Seq(Pieces) /\ Carries(c, w, 2 * said[c])
          /\ s \in Seq(Pieces) /\ Carries(c, s, 2 * said[c] - Len(w))
          /\ 2 * said[c] - Len(w) \in Nat /\ 2 * said[c] - Len(w) - Len(s) = Consumed(c)
          /\ ~split[c] => Len(w) % 2 = 0 /\ Len(s) % 2 = 0
      BY ReadFacts, Zenon
    <2>2. deleting[c] = FALSE /\ killTimer[c] = FALSE /\ Consumed(c) = 0
      BY <1>2, <1>5 DEF IInv, TypeOK, Conn, Stage, Stream
    <2>3. 2 * said[c] - Len(w) = Len(s)
      <3>1. Len(s) \in Nat
        BY <2>1, LenProperties
      <3>2. QED
        BY <2>1, <2>2, <3>1
    <2>4. ClientSetup(c, s) /\ wire' = [wire EXCEPT ![c] = w]
      BY <1>1, <1>5
    <2> HIDE DEF s, w
    <2>5. QED
      BY <1>2, <1>5, <2>1, <2>2, <2>3, <2>4, GreetingStep
  <1>6. QED
    BY <1>1, <1>3, <1>4, <1>5

-----------------------------------------------------------------------------
(* The end of a connection, and its session.                               *)

LEMMA DisconnectedStep ==
  ASSUME IInv, NEW c \in Connections, Disconnected(c)
  PROVE  IInv'
  <1>1. TypeOK /\ Stage(c) /\ Stream(c) /\ Replayed(c) /\ Locked
    BY DEF IInv, Conn
  <1>2. /\ UNCHANGED <<protocol, split, said, closed, wire, buffer, state, session>>
        /\ UNCHANGED <<clientFeedbackProtocolVersion, setupInProgress, inSetup, played, waited>>
        /\ state[c] # "none" /\ socketOpen' = [socketOpen EXCEPT ![c] = FALSE]
        /\ \/ /\ state[c] = "StateWaitingSession"
              /\ killTimer' = [killTimer EXCEPT ![c] = TRUE] /\ UNCHANGED deleting
           \/ /\ state[c] # "StateWaitingSession"
              /\ deleting' = [deleting EXCEPT ![c] = TRUE] /\ UNCHANGED killTimer
    BY DEF Disconnected, Accepted, client, locks
  <1>3. TypeOK'
    BY <1>1, <1>2 DEF TypeOK
  <1>4. Locked'
    BY <1>1, <1>2 DEF Locked
  <1>5. \A d \in Connections \ {c} : Untouched(d)
    BY <1>1, <1>2 DEF TypeOK, Untouched
  <1>6. Stage(c)'
    BY <1>1, <1>2 DEF TypeOK, Stage
  <1>7. Stream(c)' /\ Replayed(c)'
    BY <1>1, <1>2, StreamKept
  <1>8. QED
    BY <1>3, <1>4, <1>5, <1>6, <1>7, OneConn DEF Conn

LEMMA killMeStep ==
  ASSUME IInv, NEW c \in Connections, killMe(c)
  PROVE  IInv'
  <1>1. TypeOK /\ Stage(c) /\ Stream(c) /\ Replayed(c) /\ Locked
    BY DEF IInv, Conn
  <1>2. /\ UNCHANGED <<protocol, split, said, closed, wire, buffer, state, socketOpen, session>>
        /\ UNCHANGED <<clientFeedbackProtocolVersion, setupInProgress, inSetup, played, waited>>
        /\ killTimer[c] /\ state[c] # "StateWaitingSession"
        /\ killTimer' = [killTimer EXCEPT ![c] = FALSE]
        /\ deleting' = [deleting EXCEPT ![c] = TRUE]
    BY DEF killMe, client, locks
  <1>3. TypeOK'
    BY <1>1, <1>2 DEF TypeOK
  <1>4. Locked'
    BY <1>1, <1>2 DEF Locked
  <1>5. \A d \in Connections \ {c} : Untouched(d)
    BY <1>1, <1>2 DEF TypeOK, Untouched
  <1>6. Stage(c)'
    BY <1>1, <1>2 DEF TypeOK, Stage
  <1>7. Stream(c)' /\ Replayed(c)'
    BY <1>1, <1>2, StreamKept
  <1>8. QED
    BY <1>3, <1>4, <1>5, <1>6, <1>7, OneConn DEF Conn

LEMMA DeleteStep ==
  ASSUME IInv, NEW c \in Connections, Delete(c)
  PROVE  IInv'
  <1>1. TypeOK /\ Stage(c) /\ Locked
    BY DEF IInv, Conn
  <1>2. UNCHANGED <<setupInProgress, inSetup>> /\ deleting[c]
    BY DEF Delete, locks
  <1>3. TypeOK'
    <2>1. /\ <<>> \in Seq(Pieces) /\ <<>> \in Seq(Names)
      BY EmptySeq
    <2>2. wire' \in [Connections -> Seq(Pieces)] /\ buffer' \in [Connections -> Seq(Pieces)]
      BY <1>1, <2>1 DEF Delete, TypeOK
    <2>3. played' \in [Connections -> Seq(Names)] /\ waited' \in [Connections -> SUBSET Names]
      BY <1>1, <2>1 DEF Delete, TypeOK
    <2>4. /\ protocol' \in [Connections -> Protocols \cup {"none"}]
          /\ split' \in [Connections -> BOOLEAN] /\ said' \in [Connections -> Nat]
          /\ closed' \in [Connections -> BOOLEAN] /\ socketOpen' \in [Connections -> BOOLEAN]
          /\ killTimer' \in [Connections -> BOOLEAN] /\ deleting' \in [Connections -> BOOLEAN]
      BY <1>1 DEF Delete, TypeOK
    <2>5. /\ state' \in [Connections -> {"none", "StateClientSetup", "StateWaitingSession",
                                         "StatePlayback", "StateTerminated", "StateDoomed"}]
          /\ session' \in [Connections -> {"none", "scheduled", "setup", "ready"}]
          /\ clientFeedbackProtocolVersion' \in [Connections -> {"Unknown", "Version_1"}]
      BY <1>1 DEF Delete, TypeOK
    <2>6. QED
      BY <1>1, <1>2, <2>2, <2>3, <2>4, <2>5 DEF TypeOK
  <1>4. Locked'
    BY <1>1, <1>2 DEF Locked
  <1>5. \A d \in Connections \ {c} : Untouched(d)
    BY <1>1, <1>2 DEF Delete, TypeOK, Untouched
  <1>6. /\ protocol'[c] = "none" /\ split'[c] = FALSE /\ said'[c] = 0 /\ wire'[c] = <<>>
        /\ buffer'[c] = <<>> /\ state'[c] = "none" /\ session'[c] = "none"
        /\ ~killTimer'[c] /\ ~deleting'[c] /\ played'[c] = <<>>
    BY <1>1 DEF Delete, TypeOK
  <1>7. inSetup # <<c>>
    BY <1>1, <1>2 DEF Stage
  <1>8. Stage(c)'
    BY <1>2, <1>6, <1>7 DEF Stage
  <1>9. Stream(c)'
    <2>1. Carries(c, <<>>, 0)' /\ Len(<<>>) = 0 /\ 0 % 2 = 0
      BY DEF Carries
    <2>2. 2 * said'[c] = 0 /\ 2 * said'[c] - Len(wire'[c]) = 0 /\ Consumed(c)' = 0
      <3>1. said'[c] = 0 /\ Len(wire'[c]) = 0 /\ Len(buffer'[c]) = 0
        BY <1>6, <2>1
      <3>2. QED
        BY <3>1 DEF Consumed
    <2>3. QED
      BY <1>6, <2>1, <2>2 DEF Stream
  <1>10. Replayed(c)'
    BY <1>6 DEF Replayed
  <1>11. QED
    BY <1>3, <1>4, <1>5, <1>8, <1>9, <1>10, OneConn DEF Conn

LEMMA BeginSetupStep ==
  ASSUME IInv, NEW c \in Connections, BeginSetup(c)
  PROVE  IInv'
  <1>1. TypeOK /\ Stage(c) /\ Stream(c) /\ Replayed(c) /\ Locked
    BY DEF IInv, Conn
  <1>2. /\ UNCHANGED <<protocol, split, said, closed, wire, buffer, state, socketOpen>>
        /\ UNCHANGED <<clientFeedbackProtocolVersion, killTimer, deleting, played, waited>>
        /\ session[c] = "scheduled" /\ ~setupInProgress /\ setupInProgress' = TRUE
        /\ inSetup' = <<c>> \o inSetup /\ session' = [session EXCEPT ![c] = "setup"]
    BY DEF BeginSetup, client, ends
  <1>3. inSetup = <<>> /\ inSetup' = <<c>>
    <2>1. inSetup = <<>>
      BY <1>1, <1>2 DEF Locked
    <2>2. <<c>> \o <<>> = <<c>>
      BY ConcatEmptySeq, SMT
    <2>3. QED
      BY <1>2, <2>1, <2>2
  <1>4. TypeOK'
    BY <1>1, <1>2, <1>3 DEF TypeOK
  <1>5. Locked'
    BY <1>2, <1>3 DEF Locked
  <1>6. \A d \in Connections \ {c} : Untouched(d)
    BY <1>1, <1>2, <1>3 DEF TypeOK, Untouched
  <1>7. session'[c] = "setup"
    BY <1>1, <1>2 DEF TypeOK
  <1>8. Stage(c)'
    BY <1>1, <1>2, <1>3, <1>7 DEF Stage
  <1>9. Stream(c)' /\ Replayed(c)'
    BY <1>1, <1>2, <1>7, StreamKept
  <1>10. QED
    BY <1>4, <1>5, <1>6, <1>8, <1>9, OneConn DEF Conn

LEMMA EndSetupStep ==
  ASSUME IInv, NEW c \in Connections, EndSetup(c)
  PROVE  IInv'
  <1>1. TypeOK /\ Stage(c) /\ Stream(c) /\ Replayed(c) /\ Locked
    BY DEF IInv, Conn
  <1>2. /\ UNCHANGED <<protocol, split, said, closed, wire, buffer, socketOpen>>
        /\ UNCHANGED <<clientFeedbackProtocolVersion, killTimer, deleting, played, waited>>
        /\ inSetup # <<>> /\ Head(inSetup) = c /\ inSetup' = Tail(inSetup)
        /\ setupInProgress' = FALSE
        /\ session' = [session EXCEPT ![c] = "ready"]
        /\ state' = [state EXCEPT ![c] = "StatePlayback"]
    BY DEF EndSetup, client, ends
  <1>3. inSetup = <<c>> /\ inSetup' = <<>>
    <2>1. Len(inSetup) = 1 /\ inSetup \in Seq(Connections)
      <3>1. inSetup \in Seq(Connections) /\ Len(inSetup) \in Nat /\ Len(inSetup) <= 1
        BY <1>1, LenProperties DEF TypeOK, Locked
      <3>2. Len(inSetup) # 0
        BY <1>2, <3>1, EmptySeq
      <3>3. \A x \in Nat : x <= 1 /\ x # 0 => x = 1
        OBVIOUS
      <3>4. QED
        BY <3>1, <3>2, <3>3, Zenon
    <2>2. inSetup[1] = c
      BY <1>2, <2>1
    <2>3. QED
      BY <1>2, <2>1, <2>2
  <1>4. TypeOK'
    <2>1. <<>> \in Seq(Connections)
      BY EmptySeq
    <2>2. QED
      BY <1>1, <1>2, <1>3, <2>1 DEF TypeOK
  <1>5. Locked'
    BY <1>2, <1>3 DEF Locked
  <1>6. \A d \in Connections \ {c} : Untouched(d)
    BY <1>1, <1>2, <1>3 DEF TypeOK, Untouched
  <1>7. state'[c] = "StatePlayback" /\ session'[c] = "ready"
    BY <1>1, <1>2 DEF TypeOK
  <1>8. session[c] = "setup" /\ state[c] = "StateWaitingSession"
    BY <1>1, <1>3 DEF Stage
  <1>9. Stage(c)'
    BY <1>1, <1>2, <1>3, <1>7, <1>8 DEF Stage
  <1>10. Stream(c)' /\ Replayed(c)'
    BY <1>1, <1>2, <1>7, <1>8, StreamKept
  <1>11. QED
    BY <1>4, <1>5, <1>6, <1>9, <1>10, OneConn DEF Conn

LEMMA Stutter == IInv /\ UNCHANGED vars => IInv'
  <1> SUFFICES ASSUME IInv, UNCHANGED vars
               PROVE  IInv'
    OBVIOUS
  <1>1. TypeOK' /\ Locked'
    BY DEF IInv, TypeOK, Locked, vars, client, ends, locks
  <1>2. \A d \in Connections : Untouched(d)
    BY DEF Untouched, vars, client, ends, locks
  <1>3. QED
    BY <1>1, <1>2, UntouchedKept DEF IInv

LEMMA IInvStep == IInv /\ [Next]_vars => IInv'
  <1> SUFFICES ASSUME IInv, [Next]_vars
               PROVE  IInv'
    OBVIOUS
  <1>1. CASE UNCHANGED vars
    BY <1>1, Stutter
  <1>2. CASE Next
    <2>1. PICK c \in Connections :
            \/ ClientConnects(c) \/ ClientWrites(c) \/ ClientCloses(c)
            \/ Accept(c) \/ ArrivesEarly(c) \/ readSocketData(c)
            \/ Disconnected(c) \/ killMe(c) \/ killMeLater(c) \/ Delete(c)
            \/ BeginSetup(c) \/ SetupLater(c) \/ EndSetup(c)
      BY <1>2, Zenon DEF Next
    <2>2. killMeLater(c) \/ SetupLater(c) => UNCHANGED vars
      BY DEF killMeLater, SetupLater
    <2>3. QED
      BY <2>1, <2>2, Stutter, ClientConnectsStep, ClientWritesStep, ClientClosesStep,
         AcceptStep, ArrivesEarlyStep, readSocketDataStep, DisconnectedStep, killMeStep,
         DeleteStep, BeginSetupStep, EndSetupStep, Zenon
  <1>3. QED
    BY <1>1, <1>2

-----------------------------------------------------------------------------
(* The theorems.                                                           *)

LEMMA Invariance == Spec => []IInv
  BY IInvInit, IInvStep, PTL DEF Spec

\* Every variable keeps to its type; in particular what is read from a socket is always a
\* row of pieces of strings some client writes.
THEOREM TypeCorrect == Spec => []TypeOK
  <1>1. IInv => TypeOK
    BY DEF IInv
  <1>2. QED
    BY <1>1, Invariance, PTL

\* Requests are played at most once and in the order their client made them, whatever is
\* thrown away and wherever reads cut the stream.
THEOREM InOrder == Spec => []PlayedInOrder
  <1>1. IInv => PlayedInOrder
    BY DEF IInv, Conn, Replayed, PlayedInOrder
  <1>2. QED
    BY <1>1, Invariance, PTL

\* A connection in playback has its session, and no session is deleted while its setup()
\* has not returned.
THEOREM SessionStays == Spec => []SessionInUse
  <1>1. IInv => SessionInUse
    <2> SUFFICES ASSUME IInv
                 PROVE  SessionInUse
      OBVIOUS
    <2>1. \A c \in Connections : state[c] = "StatePlayback" => session[c] = "ready"
      BY DEF IInv, TypeOK, Conn, Stage
    <2>2. ASSUME NEW i \in DOMAIN inSetup
          PROVE  session[inSetup[i]] = "setup"
      <3>1. inSetup \in Seq(Connections) /\ Len(inSetup) \in Nat /\ DOMAIN inSetup = 1 .. Len(inSetup)
        BY LenProperties DEF IInv, TypeOK
      <3>2. i = 1 /\ Len(inSetup) = 1
        BY <3>1 DEF IInv, Locked
      <3>3. inSetup[1] \in Connections /\ inSetup = <<inSetup[1]>>
        BY <3>1, <3>2
      <3>4. QED
        BY <3>2, <3>3 DEF IInv, Conn, Stage
    <2>3. QED
      BY <2>1, <2>2 DEF SessionInUse
  <1>2. QED
    BY <1>1, Invariance, PTL

\* A client of an unknown protocol gets no session and plays nothing, however its
\* greeting is cut.
THEOREM UnknownIsRefused == Spec => []UnknownNeverServed
  <1>1. IInv => UnknownNeverServed
    BY DEF IInv, Conn, Stage, Replayed, UnknownNeverServed
  <1>2. QED
    BY <1>1, Invariance, PTL

\* A client whose strings arrive whole is never cut off: what is thrown away while its
\* session is set up leaves the stream in step.
THEOREM WholeStays == Spec => []WholeNeverTerminated
  <1>1. IInv => WholeNeverTerminated
    BY DEF IInv, Conn, Stage, WholeNeverTerminated
  <1>2. QED
    BY <1>1, Invariance, PTL

=============================================================================
