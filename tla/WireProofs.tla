----------------------------- MODULE WireProofs ------------------------------
(***************************************************************************)
(* Theorems about what goes over the wire: the stream transport             *)
(* (SocketTransport), for any number of requests, and the typed envelopes   *)
(* (TypedEnvelope), for any names and any session.                          *)
(***************************************************************************)
EXTENDS TypedEnvelope, SocketTransport, SequenceTheorems, FiniteSetTheorems, TLAPS

\* A piece comes before another one: of an earlier message, or earlier in it.
Precedes(p, q) == p[1] < q[1] \/ (p[1] = q[1] /\ p[2] < q[2])
Rising(s) == \A i, j \in DOMAIN s : i < j => Precedes(s[i], s[j])
Ahead(s, t) == \A i \in DOMAIN s, j \in DOMAIN t : Precedes(s[i], t[j])
Older(s, t) == \A i \in DOMAIN s, j \in DOMAIN t : s[i][1] < t[j][1]
Upto(s, b) == \A i \in DOMAIN s : s[i][1] <= b
Beyond(m, s) == \A i \in DOMAIN s : m < s[i][1]

-----------------------------------------------------------------------------
(* Streams.                                                                 *)

\* A piece is one of a message, and of a place in it.
LEMMA PieceParts ==
    ASSUME NEW s \in Seq(Pieces), NEW i \in DOMAIN s
    PROVE  s[i] \in Pieces /\ s[i][1] \in Requests /\ s[i][1] \in Nat /\ s[i][2] \in Nat
<1>1. s[i] \in Pieces
  OBVIOUS
<1> QED
  BY <1>1, TransportAssumption DEF Pieces, Requests, FrameSize

\* The pieces of a frame; it is never misread.
LEMMA FrameParts ==
    ASSUME NEW m \in Requests
    PROVE  /\ Frame(m) \in Seq(Pieces)
           /\ Len(Frame(m)) = 4
           /\ DOMAIN Frame(m) = 1 .. 4
           /\ \A i \in 1 .. 4 : Frame(m)[i] = <<m, i>>
           /\ ~Misread(Frame(m))
<1>1. /\ DOMAIN Frame(m) = 1 .. 4
      /\ \A i \in 1 .. 4 : Frame(m)[i] = <<m, i>>
  BY DEF Frame, FrameSize
<1>2. \A i \in 1 .. 4 : Frame(m)[i] \in Pieces
  BY <1>1 DEF Pieces, FrameSize
<1>3. Frame(m) \in Seq(Pieces) /\ Len(Frame(m)) = 4
  BY <1>1, <1>2 DEF Frame, FrameSize
<1>4. Frame(m)[1][1] = m
  BY <1>1
<1> QED
  BY <1>1, <1>3, <1>4 DEF Misread

\* A piece moves from the head of a stream to the end of what is read.
LEMMA MoveElements ==
    ASSUME NEW s \in Seq(Pieces), NEW t \in Seq(Pieces), t # <<>>
    PROVE  /\ Append(s, Head(t)) \in Seq(Pieces)
           /\ Tail(t) \in Seq(Pieces)
           /\ \A i \in DOMAIN Append(s, Head(t)) :
                 \/ i \in DOMAIN s /\ Append(s, Head(t))[i] = s[i]
                 \/ i = Len(s) + 1 /\ Append(s, Head(t))[i] = t[1]
           /\ \A i \in DOMAIN Tail(t) : i + 1 \in DOMAIN t /\ Tail(t)[i] = t[i + 1]
           /\ 1 \in DOMAIN t
           /\ Append(s, Head(t)) \o Tail(t) = s \o t
<1>1. Head(t) = t[1] /\ 1 \in DOMAIN t /\ Head(t) \in Pieces
  OBVIOUS
<1>2. /\ Append(s, Head(t)) \in Seq(Pieces)
      /\ Tail(t) \in Seq(Pieces)
      /\ Len(Tail(t)) = Len(t) - 1
      /\ Len(Append(s, Head(t))) = Len(s) + 1
  BY <1>1
<1>3. \A i \in DOMAIN Append(s, Head(t)) :
                 \/ i \in DOMAIN s /\ Append(s, Head(t))[i] = s[i]
                 \/ i = Len(s) + 1 /\ Append(s, Head(t))[i] = t[1]
  BY <1>1, <1>2
<1>4. \A i \in DOMAIN Tail(t) : i + 1 \in DOMAIN t /\ Tail(t)[i] = t[i + 1]
  BY <1>2
<1>5. Append(s, Head(t)) \o Tail(t) = s \o t
  BY <1>1, <1>2, <1>3, <1>4
<1> QED
  BY <1>1, <1>2, <1>3, <1>4, <1>5

\* Reading a piece keeps the order of the pieces.
LEMMA MoveOrder ==
    ASSUME NEW s \in Seq(Pieces), NEW t \in Seq(Pieces), t # <<>>,
           Rising(s), Rising(t), Ahead(s, t)
    PROVE  Rising(Append(s, Head(t))) /\ Rising(Tail(t)) /\ Ahead(Append(s, Head(t)), Tail(t))
<1> DEFINE a == Append(s, Head(t))
           b == Tail(t)
<1>1. /\ a \in Seq(Pieces) /\ b \in Seq(Pieces)
      /\ \A i \in DOMAIN a : \/ i \in DOMAIN s /\ a[i] = s[i]
                             \/ i = Len(s) + 1 /\ a[i] = t[1]
      /\ \A i \in DOMAIN b : i + 1 \in DOMAIN t /\ b[i] = t[i + 1]
      /\ 1 \in DOMAIN t
  BY MoveElements
<1> HIDE DEF a, b
<1>2. \A i \in DOMAIN s : i \in Nat /\ i <= Len(s)
  OBVIOUS
<1>3. \A i \in DOMAIN t : i \in Nat /\ i >= 1
  OBVIOUS
<1>4. Rising(a)
  BY <1>1, <1>2 DEF Rising, Ahead
<1>5. \A i \in DOMAIN b : i \in Nat /\ i >= 1
  BY <1>1
<1>6. Rising(b)
  <2> SUFFICES ASSUME NEW i \in DOMAIN b, NEW j \in DOMAIN b, i < j
               PROVE  Precedes(b[i], b[j])
    BY DEF Rising
  <2>1. i + 1 \in DOMAIN t /\ j + 1 \in DOMAIN t /\ b[i] = t[i + 1] /\ b[j] = t[j + 1]
    BY <1>1
  <2>2. i + 1 < j + 1
    BY <1>5
  <2> QED
    BY <2>1, <2>2 DEF Rising
<1>7. ASSUME NEW i \in DOMAIN a, NEW j \in DOMAIN b PROVE Precedes(a[i], b[j])
  <2>1. j + 1 \in DOMAIN t /\ b[j] = t[j + 1] /\ 1 < j + 1
    BY <1>1, <1>5
  <2>2. CASE i \in DOMAIN s /\ a[i] = s[i]
    BY <2>1, <2>2 DEF Ahead
  <2>3. CASE a[i] = t[1]
    BY <2>1, <2>3, <1>1 DEF Rising
  <2> QED
    BY <2>2, <2>3, <1>1
<1> QED
  BY <1>4, <1>6, <1>7 DEF Ahead, a, b

\* Reading a piece keeps the messages' order.
LEMMA MoveAges ==
    ASSUME NEW s \in Seq(Pieces), NEW t \in Seq(Pieces), t # <<>>
    PROVE  /\ \A b : Upto(s, b) /\ Upto(t, b) => Upto(Append(s, Head(t)), b) /\ Upto(Tail(t), b)
           /\ \A m : Beyond(m, s) /\ Beyond(m, t) => Beyond(m, Append(s, Head(t))) /\ Beyond(m, Tail(t))
           /\ \A x : Older(s, x) /\ Older(t, x) => Older(Append(s, Head(t)), x) /\ Older(Tail(t), x)
           /\ \A x : Older(x, s) /\ Older(x, t) => Older(x, Append(s, Head(t))) /\ Older(x, Tail(t))
<1> DEFINE a == Append(s, Head(t))
           c == Tail(t)
<1>1. /\ \A i \in DOMAIN a : \/ i \in DOMAIN s /\ a[i] = s[i]
                             \/ i = Len(s) + 1 /\ a[i] = t[1]
      /\ \A i \in DOMAIN c : i + 1 \in DOMAIN t /\ c[i] = t[i + 1]
      /\ 1 \in DOMAIN t
  BY MoveElements
<1> HIDE DEF a, c
<1>2. \A b : Upto(s, b) /\ Upto(t, b) => Upto(a, b) /\ Upto(c, b)
  BY <1>1 DEF Upto
<1>3. \A m : Beyond(m, s) /\ Beyond(m, t) => Beyond(m, a) /\ Beyond(m, c)
  BY <1>1 DEF Beyond
<1>4. \A x : Older(s, x) /\ Older(t, x) => Older(a, x) /\ Older(c, x)
  BY <1>1 DEF Older
<1>5. \A x : Older(x, s) /\ Older(x, t) => Older(x, a) /\ Older(x, c)
  BY <1>1 DEF Older
<1> QED
  BY <1>2, <1>3, <1>4, <1>5 DEF a, c

\* Pieces of a frame go to the end of a stream that holds only earlier ones.
LEMMA SendElements ==
    ASSUME NEW s \in Seq(Pieces), NEW m \in Requests, NEW f \in Seq(Pieces),
           Len(f) <= 4, \A i \in 1 .. Len(f) : f[i] = <<m, i>>
    PROVE  /\ s \o f \in Seq(Pieces)
           /\ \A i \in DOMAIN (s \o f) :
                 \/ i \in DOMAIN s /\ (s \o f)[i] = s[i]
                 \/ i > Len(s) /\ (s \o f)[i] = <<m, i - Len(s)>>
<1>1. s \o f \in Seq(Pieces) /\ Len(s \o f) = Len(s) + Len(f)
  OBVIOUS
<1>2. ASSUME NEW i \in DOMAIN (s \o f)
      PROVE  \/ i \in DOMAIN s /\ (s \o f)[i] = s[i]
             \/ i > Len(s) /\ (s \o f)[i] = <<m, i - Len(s)>>
  <2>1. i \in 1 .. Len(s) + Len(f)
    BY <1>1
  <2>2. CASE i <= Len(s)
    BY <2>1, <2>2
  <2>3. CASE i > Len(s)
    <3>1. (s \o f)[i] = f[i - Len(s)] /\ i - Len(s) \in 1 .. Len(f)
      BY <2>1, <2>3
    <3> QED
      BY <3>1, <2>3
  <2> QED
    BY <2>1, <2>2, <2>3
<1> QED
  BY <1>1, <1>2

\* Sending keeps the order of the pieces.
LEMMA SendOrder ==
    ASSUME NEW s \in Seq(Pieces), NEW m \in Requests, NEW f \in Seq(Pieces),
           Len(f) <= 4, \A i \in 1 .. Len(f) : f[i] = <<m, i>>,
           Rising(s), Upto(s, m - 1)
    PROVE  Rising(s \o f)
<1> DEFINE u == s \o f
<1>1. /\ u \in Seq(Pieces)
      /\ \A i \in DOMAIN u : \/ i \in DOMAIN s /\ u[i] = s[i]
                             \/ i > Len(s) /\ u[i] = <<m, i - Len(s)>>
  BY SendElements
<1> HIDE DEF u
<1>2. \A i \in DOMAIN s : i <= Len(s) /\ s[i][1] < m
  <2>1. m \in Nat
    BY TransportAssumption DEF Requests
  <2> QED
    BY <2>1, PieceParts DEF Upto
<1>3. ASSUME NEW i \in DOMAIN u, NEW j \in DOMAIN u, i < j
      PROVE  Precedes(u[i], u[j])
  <2>0. i \in Nat /\ j \in Nat /\ Len(s) \in Nat /\ m \in Nat
    BY <1>1, TransportAssumption DEF Requests
  <2>1. CASE i \in DOMAIN s /\ j \in DOMAIN s
    BY <2>1, <1>1, <1>2, <1>3, <2>0 DEF Rising
  <2>2. CASE i \in DOMAIN s /\ j \notin DOMAIN s
    <3>1. u[j] = <<m, j - Len(s)>> /\ u[i] = s[i] /\ s[i][1] < m
      BY <2>2, <1>1, <1>2, <2>0
    <3> QED
      BY <3>1 DEF Precedes
  <2>3. CASE i \notin DOMAIN s
    <3>1. u[i] = <<m, i - Len(s)>> /\ i > Len(s)
      BY <2>3, <1>1
    <3>2. j > Len(s)
      BY <3>1, <1>3, <2>0
    <3>3. u[j] = <<m, j - Len(s)>>
      BY <3>2, <1>1, <1>2, <2>0
    <3> QED
      BY <3>1, <3>3, <1>3, <2>0 DEF Precedes
  <2> QED
    BY <2>1, <2>2, <2>3
<1> QED
  BY <1>3 DEF Rising, u

\* Sending keeps the messages' order.
LEMMA SendAges ==
    ASSUME NEW s \in Seq(Pieces), NEW m \in Requests, NEW f \in Seq(Pieces),
           Len(f) <= 4, \A i \in 1 .. Len(f) : f[i] = <<m, i>>
    PROVE  /\ \A b \in Nat : Upto(s, b) /\ m <= b => Upto(s \o f, b)
           /\ \A r : Beyond(r, s) /\ r < m => Beyond(r, s \o f)
           /\ \A x \in Seq(Pieces) : Older(x, s) /\ Upto(x, m - 1) => Older(x, s \o f)
           /\ \A x : Older(s, x) /\ Beyond(m, x) => Older(s \o f, x)
<1> DEFINE u == s \o f
<1>1. /\ u \in Seq(Pieces)
      /\ \A i \in DOMAIN u : \/ i \in DOMAIN s /\ u[i] = s[i]
                             \/ u[i][1] = m
  BY SendElements
<1> HIDE DEF u
<1>2. m \in Nat
  BY TransportAssumption DEF Requests
<1>3. \A b \in Nat : Upto(s, b) /\ m <= b => Upto(u, b)
  BY <1>1 DEF Upto
<1>4. \A r : Beyond(r, s) /\ r < m => Beyond(r, u)
  BY <1>1 DEF Beyond
<1>5. ASSUME NEW x \in Seq(Pieces), Older(x, s), Upto(x, m - 1) PROVE Older(x, u)
  <2>1. \A i \in DOMAIN x : x[i][1] < m
    BY <1>2, <1>5, PieceParts DEF Upto
  <2> QED
    BY <2>1, <1>1, <1>5 DEF Older
<1>6. \A x : Older(s, x) /\ Beyond(m, x) => Older(u, x)
  BY <1>1 DEF Older, Beyond
<1> QED
  BY <1>3, <1>4, <1>5, <1>6 DEF u

\* A part of a frame, from its beginning.
LEMMA PartOfFrame ==
    ASSUME NEW m \in Requests, NEW n \in 0 .. FrameSize - 1
    PROVE  /\ SubSeq(Frame(m), 1, n) \in Seq(Pieces)
           /\ Len(SubSeq(Frame(m), 1, n)) <= 4
           /\ \A i \in 1 .. Len(SubSeq(Frame(m), 1, n)) : SubSeq(Frame(m), 1, n)[i] = <<m, i>>
<1>1. n \in Nat /\ n <= 3
  BY DEF FrameSize
<1>2. /\ SubSeq(Frame(m), 1, n) \in Seq(Pieces)
      /\ Len(SubSeq(Frame(m), 1, n)) = n
      /\ \A i \in 1 .. n : SubSeq(Frame(m), 1, n)[i] = Frame(m)[i]
  BY <1>1, FrameParts
<1> QED
  BY <1>1, <1>2, FrameParts

\* Two streams that make one frame: what is complete of them is all of it.
LEMMA WholeFrame ==
    ASSUME NEW s \in Seq(Pieces), NEW t \in Seq(Pieces), NEW m \in Requests, s \o t = Frame(m)
    PROVE  /\ Complete(s) => s = Frame(m) /\ t = <<>>
           /\ ~Misread(s)
<1>1. Len(s) + Len(t) = 4 /\ \A i \in 1 .. Len(s) : s[i] = <<m, i>>
  <2>1. Len(s \o t) = Len(s) + Len(t) /\ \A i \in 1 .. Len(s) : (s \o t)[i] = s[i]
    OBVIOUS
  <2>2. Len(s) \in Nat /\ Len(t) \in Nat
    OBVIOUS
  <2>3. Len(Frame(m)) = 4 /\ \A i \in 1 .. 4 : Frame(m)[i] = <<m, i>>
    BY FrameParts
  <2>4. Len(s) + Len(t) = 4
    BY <2>1, <2>3
  <2> QED
    BY <2>1, <2>2, <2>3, <2>4
<1>2. ASSUME Complete(s) PROVE s = Frame(m) /\ t = <<>>
  <2>1. Len(s) = 4 /\ Len(t) = 0
    BY <1>1, <1>2 DEF Complete, FrameSize
  <2>2. t = <<>>
    BY <2>1
  <2>3. s \o t = s
    BY <2>2
  <2> QED
    BY <2>2, <2>3
<1>3. ASSUME Len(s) >= 2 PROVE SubSeq(s, 1, 2) = SubSeq(Frame(s[1][1]), 1, 2)
  <2>1. s[1] = <<m, 1>> /\ s[2] = <<m, 2>>
    BY <1>1, <1>3
  <2>2. s[1][1] = m
    BY <2>1
  <2>3. /\ SubSeq(s, 1, 2) \in Seq(Pieces) /\ Len(SubSeq(s, 1, 2)) = 2
        /\ SubSeq(s, 1, 2)[1] = s[1] /\ SubSeq(s, 1, 2)[2] = s[2]
    BY <1>3
  <2>4. /\ SubSeq(Frame(m), 1, 2) \in Seq(Pieces) /\ Len(SubSeq(Frame(m), 1, 2)) = 2
        /\ SubSeq(Frame(m), 1, 2)[1] = <<m, 1>> /\ SubSeq(Frame(m), 1, 2)[2] = <<m, 2>>
    BY FrameParts
  <2> DEFINE a == SubSeq(s, 1, 2)
             b == SubSeq(Frame(m), 1, 2)
  <2>5. /\ a \in Seq(Pieces) /\ b \in Seq(Pieces) /\ Len(a) = 2 /\ Len(b) = 2
        /\ a[1] = b[1] /\ a[2] = b[2]
    BY <2>1, <2>3, <2>4
  <2> HIDE DEF a, b
  <2>6. \A i \in 1 .. Len(a) : a[i] = b[i]
    BY <2>5
  <2>7. a = b
    BY <2>5, <2>6, SeqEqual
  <2> QED
    BY <2>2, <2>7 DEF a, b
<1> QED
  BY <1>2, <1>3 DEF Misread, HeaderSize

\* The requests a part of which may have left.
Sent == IF stage = "send" THEN asked - 1 ELSE asked

\* One send after the other, each with its own chunks; the socket has its timeout
\* back whenever none is under way.
Asking ==
    /\ stage = "idle" /\ asked > 0 => result[asked] # Nothing
    /\ stage # "idle" => asked > 0 /\ result[asked] = Nothing
    /\ \A r \in Requests : r > asked => result[r] = Nothing
    /\ stage # "receive" => got = <<>>
    /\ stage = "idle" => limited = previous
    /\ ~timed => limited = previous
    /\ sends <= Sent

\* Along the way from the client to the peer and back the messages rise, with
\* those of the replies before those of the requests the peer has yet to answer,
\* and every request that was answered comes before all of them.
Order ==
    /\ Rising(got) /\ Rising(down) /\ Rising(heard) /\ Rising(up)
    /\ Ahead(got, down) /\ Ahead(heard, up)
    /\ Older(got, heard) /\ Older(got, up) /\ Older(down, heard) /\ Older(down, up)
    /\ Upto(got, Sent) /\ Upto(down, Sent) /\ Upto(heard, Sent) /\ Upto(up, Sent)
    /\ \A r \in Requests : result[r] \in Requests =>
          /\ result[r] <= Sent
          /\ Beyond(result[r], got) /\ Beyond(result[r], down)
          /\ Beyond(result[r], heard) /\ Beyond(result[r], up)

\* The frame of the request is on its way to the peer, or its reply on the way back.
Waiting ==
    /\ got = <<>> /\ down = <<>>
    /\ peer = "open" => heard \o up = Frame(asked)
Replied ==
    /\ got \o down = Frame(asked)
    /\ peer = "open" => heard = <<>> /\ up = <<>>

\* Until a call ends in a timeout nothing of an earlier one is in the streams.
Clean ==
    ~late =>
        /\ stage = "receive" => Waiting \/ Replied
        /\ stage # "receive" =>
              /\ got = <<>> /\ down = <<>>
              /\ peer = "open" => heard = <<>> /\ up = <<>>

IInv == TypeOK /\ Asking /\ Order /\ Clean

-----------------------------------------------------------------------------
LEMMA Numbers ==
    TypeOK => /\ asked \in Nat /\ N \in Nat /\ Failed \in Nat /\ Nothing \notin Requests
              /\ Failed \notin Requests
              /\ \A r \in Requests : r \in Nat /\ r >= 1 /\ r <= N
              /\ \A v \in 0 .. Failed : v = Nothing \/ v = Failed \/ v \in Requests
BY TransportAssumption DEF TypeOK, Requests, Nothing, Failed

\* A complete payload is parsed as the message whose frame it is, or as none.
LEMMA ParsedIsFrame ==
    ASSUME NEW s \in Seq(Pieces), Complete(s)
    PROVE  /\ Parsed(s) = Nothing \/ (Parsed(s) \in Requests /\ s = Frame(Parsed(s)))
           /\ \A m \in Requests : s = Frame(m) => Parsed(s) = m
<1>1. Len(s) = 4
  BY DEF Complete, FrameSize
<1>2. s[1][1] \in Requests
  BY <1>1, PieceParts
<1>3. ASSUME NEW m \in Requests, s = Frame(m) PROVE s[1][1] = m
  BY <1>3, FrameParts
<1> QED
  BY <1>2, <1>3 DEF Parsed

LEMMA TypeStart == Init => TypeOK
<1> SUFFICES ASSUME Init PROVE TypeOK
  OBVIOUS
<1>1. <<>> \in Seq(Pieces)
  OBVIOUS
<1>2. Nothing \in 0 .. Failed /\ 0 \in 0 .. N
  BY TransportAssumption DEF Failed, Nothing
<1>3. result \in [Requests -> 0 .. Failed]
  BY <1>2 DEF Init
<1> QED
  BY <1>1, <1>2, <1>3 DEF Init, TypeOK

LEMMA TypeStep == TypeOK /\ Asking /\ [Next]_vars => TypeOK'
<1> SUFFICES ASSUME TypeOK, Asking, [Next]_vars PROVE TypeOK'
  OBVIOUS
<1>0. /\ <<>> \in Seq(Pieces) /\ N \in Nat /\ asked \in Nat
      /\ Failed \in 0 .. Failed
      /\ \A r \in Requests : r \in 0 .. Failed
      /\ stage # "idle" => asked \in Requests
  BY TransportAssumption DEF TypeOK, Failed, Requests, Asking
<1>00. /\ sends \in Nat /\ (stage = "send" => sends + 1 \in 0 .. N)
  BY TransportAssumption DEF TypeOK, Asking, Sent
<1>r. ASSUME NEW v \in 0 .. Failed, Return(v)
      PROVE  /\ result' \in [Requests -> 0 .. Failed]
             /\ limited' \in BOOLEAN /\ stage' \in {"idle", "send", "receive"}
             /\ got' \in Seq(Pieces)
  BY <1>r, <1>0 DEF Return, TypeOK, RestoredTimeout, Chunks
<1>1. CASE Begin
  <2>1. asked' \in 0 .. N
    BY <1>1, <1>0 DEF Begin
  <2>2. limited' \in BOOLEAN /\ timed' \in BOOLEAN /\ previous' \in BOOLEAN
    BY <1>1 DEF Begin, TypeOK
  <2> QED
    BY <1>1, <2>1, <2>2 DEF Begin, TypeOK, peerVars
<1>2. CASE SendFrame
  <2>1. up' \in Seq(Pieces)
    BY <1>2, <1>0, FrameParts DEF SendFrame, TypeOK
  <2> QED
    BY <1>2, <1>00, <2>1 DEF SendFrame, TypeOK
<1>3. CASE SendTimesOut
  <2>1. up' \in Seq(Pieces)
    <3>1. PICK n \in 0 .. FrameSize - 1 : up' = up \o SubSeq(Frame(asked), 1, n)
      BY <1>3 DEF SendTimesOut
    <3>2. SubSeq(Frame(asked), 1, n) \in Seq(Pieces)
      BY <1>3, <1>0, PartOfFrame DEF SendTimesOut
    <3> QED
      BY <3>1, <3>2 DEF TypeOK
  <2> QED
    BY <1>3, <1>0, <1>r, <2>1 DEF SendTimesOut, TypeOK
<1>4. CASE ReceivePiece
  <2>1. got' \in Seq(Pieces) /\ down' \in Seq(Pieces)
    BY <1>4, MoveElements DEF ReceivePiece, TypeOK
  <2> QED
    BY <1>4, <2>1 DEF ReceivePiece, TypeOK
<1>5. CASE ReturnReply
  <2>1. (IF Parsed(got) = Nothing THEN Failed ELSE Parsed(got)) \in 0 .. Failed
    BY <1>5, <1>0, ParsedIsFrame DEF ReturnReply, TypeOK
  <2> QED
    BY <1>5, <1>r, <2>1 DEF ReturnReply, TypeOK, peerVars
<1>6. CASE ReturnGarbage
  BY <1>6, <1>0, <1>r DEF ReturnGarbage, TypeOK, peerVars
<1>7. CASE ReceiveTimesOut
  BY <1>7, <1>0, <1>r DEF ReceiveTimesOut, TypeOK, peerVars
<1>8. CASE SocketClosed
  BY <1>8, <1>0, <1>r DEF SocketClosed, TypeOK, peerVars
<1>9. CASE PeerReads
  <2>1. heard' \in Seq(Pieces) /\ up' \in Seq(Pieces)
    BY <1>9, MoveElements DEF PeerReads, TypeOK
  <2> QED
    BY <1>9, <2>1 DEF PeerReads, TypeOK
<1>10. CASE PeerReplies
  <2>1. down' \in Seq(Pieces)
    <3>1. CASE Parsed(heard) = Nothing
      BY <1>10, <3>1 DEF PeerReplies, TypeOK
    <3>2. CASE Parsed(heard) # Nothing
      <4>1. Frame(Parsed(heard)) \in Seq(Pieces)
        BY <1>10, <3>2, ParsedIsFrame, FrameParts DEF PeerReplies, TypeOK
      <4>2. down' = down \o Frame(Parsed(heard))
        BY <1>10, <3>2 DEF PeerReplies
      <4>3. down \in Seq(Pieces)
        BY DEF TypeOK
      <4> QED
        BY <4>1, <4>2, <4>3
    <3> QED
      BY <3>1, <3>2
  <2> QED
    BY <1>10, <1>0, <2>1 DEF PeerReplies, TypeOK
<1>11. CASE PeerCloses
  BY <1>11 DEF PeerCloses, TypeOK
<1>12. CASE UNCHANGED vars
  BY <1>12 DEF vars, TypeOK
<1> QED
  BY <1>1, <1>2, <1>3, <1>4, <1>5, <1>6, <1>7, <1>8, <1>9, <1>10, <1>11, <1>12
  DEF Next, Client, Peer

LEMMA AskingStart == Init => Asking
BY TransportAssumption DEF Init, Asking, Sent, Nothing, Requests

LEMMA AskingStep == TypeOK /\ Asking /\ [Next]_vars => Asking'
<1> SUFFICES ASSUME TypeOK, Asking, [Next]_vars PROVE Asking'
  OBVIOUS
<1>0. /\ N \in Nat /\ asked \in Nat /\ asked <= N /\ sends \in Nat /\ Failed # Nothing
      /\ stage # "idle" => asked \in Requests
      /\ \A r \in Requests : r \in Nat /\ r > 0
  BY TransportAssumption DEF TypeOK, Failed, Nothing, Requests, Asking
<1>r. ASSUME NEW v, v # Nothing, Return(v), stage # "idle", UNCHANGED <<asked, timed, previous, sends>>
      PROVE  Asking'
  <2>1. /\ result'[asked] = v /\ \A r \in Requests : r # asked => result'[r] = result[r]
    BY <1>r, <1>0 DEF Return, TypeOK
  <2>2. /\ stage' = "idle" /\ got' = <<>> /\ limited' = previous
    BY <1>r DEF Return, Chunks, RestoredTimeout, Asking
  <2>3. sends <= asked
    BY <1>0 DEF Asking, Sent
  <2>4. Sent' = asked
    BY <1>r, <2>2 DEF Sent
  <2>5. \A r \in Requests : r > asked => result'[r] = Nothing
    BY <2>1, <1>0 DEF Asking
  <2> QED
    BY <1>r, <2>1, <2>2, <2>3, <2>4, <2>5 DEF Asking
<1>1. CASE Begin
  <2>1. /\ asked' = asked + 1 /\ stage' = "send" /\ stage = "idle" /\ asked < N
        /\ result' = result /\ got' = got /\ sends' = sends
        /\ previous' = limited /\ timed' \in BOOLEAN /\ limited' = (limited \/ timed')
    BY <1>1 DEF Begin
  <2>2. asked + 1 \in Requests /\ asked + 1 > asked
    BY <2>1, <1>0 DEF Requests
  <2>3. result'[asked'] = Nothing /\ asked' > 0
    BY <2>1, <2>2, <1>0 DEF Asking
  <2>4. \A r \in Requests : r > asked' => result'[r] = Nothing
    BY <2>1, <1>0 DEF Asking
  <2>5. sends' <= Sent'
    BY <2>1, <1>0 DEF Asking, Sent
  <2>6. ~timed' => limited' = previous'
    BY <2>1 DEF TypeOK
  <2>7. got' = <<>>
    BY <2>1 DEF Asking
  <2> QED
    BY <2>1, <2>3, <2>4, <2>5, <2>6, <2>7 DEF Asking
<1>2. CASE SendFrame
  <2>1. sends' <= Sent'
    BY <1>2, <1>0 DEF SendFrame, Asking, Sent
  <2> QED
    BY <1>2, <2>1 DEF SendFrame, Asking
<1>3. CASE SendTimesOut
  BY <1>3, <1>0, <1>r DEF SendTimesOut
<1>4. CASE ReceivePiece
  <2>1. sends' <= Sent'
    BY <1>4 DEF ReceivePiece, Asking, Sent
  <2> QED
    BY <1>4, <2>1 DEF ReceivePiece, Asking
<1>5. CASE ReturnReply
  BY <1>5, <1>0, <1>r DEF ReturnReply
<1>6. CASE ReturnGarbage
  BY <1>6, <1>0, <1>r DEF ReturnGarbage
<1>7. CASE ReceiveTimesOut
  BY <1>7, <1>0, <1>r DEF ReceiveTimesOut
<1>8. CASE SocketClosed
  BY <1>8, <1>0, <1>r DEF SocketClosed
<1>9. ASSUME UNCHANGED <<asked, result, timed, limited, previous, stage, got, sends>> PROVE Asking'
  BY <1>9 DEF Asking, Sent
<1>10. CASE Peer
  <2>1. UNCHANGED <<asked, result, timed, limited, previous, stage, got, sends>>
    BY <1>10 DEF Peer, PeerReads, PeerReplies, PeerCloses
  <2> QED
    BY <2>1, <1>9
<1>11. CASE UNCHANGED vars
  BY <1>11, <1>9 DEF vars
<1> QED
  BY <1>1, <1>2, <1>3, <1>4, <1>5, <1>6, <1>7, <1>8, <1>10, <1>11 DEF Next, Client

LEMMA OrderStart == Init => Order
<1> SUFFICES ASSUME Init PROVE Order
  OBVIOUS
<1>1. DOMAIN <<>> = {}
  OBVIOUS
<1>2. \A r \in Requests : result[r] = Nothing
  BY DEF Init
<1>3. Nothing \notin Requests
  BY TransportAssumption DEF Nothing, Requests
<1> QED
  BY <1>1, <1>2, <1>3 DEF Init, Order, Rising, Ahead, Older, Upto, Beyond

\* Nothing is before, behind or beyond an empty stream.
LEMMA EmptyOrder ==
    /\ Rising(<<>>)
    /\ \A x : Ahead(<<>>, x) /\ Ahead(x, <<>>) /\ Older(<<>>, x) /\ Older(x, <<>>)
              /\ Upto(<<>>, x) /\ Beyond(x, <<>>)
<1>1. DOMAIN <<>> = {}
  OBVIOUS
<1> QED
  BY <1>1 DEF Rising, Ahead, Older, Upto, Beyond

LEMMA UptoGrows ==
    ASSUME NEW s \in Seq(Pieces), NEW b \in Nat, NEW c \in Nat, b <= c, Upto(s, b)
    PROVE  Upto(s, c)
BY PieceParts DEF Upto

\* The end of a call that returns no reply.
LEMMA FailureOrder ==
    ASSUME TypeOK, Order, stage # "idle", asked \in Requests, Return(Failed),
           UNCHANGED <<asked, down, heard>>,
           Rising(up'), Ahead(heard, up'), Older(down, up'), Upto(up', asked),
           \A r \in Requests : result[r] \in Requests => Beyond(result[r], up')
    PROVE  Order'
<1>1. /\ Sent' = asked /\ Sent \in Nat /\ Sent <= asked /\ asked \in Nat
  BY TransportAssumption DEF Sent, Return, TypeOK, Requests
<1>2. got' = <<>>
  BY DEF Return, Chunks
<1>3. /\ Upto(down, asked) /\ Upto(heard, asked)
  BY <1>1, UptoGrows DEF Order, TypeOK
<1>4. \A r \in Requests : result'[r] \in Requests => result'[r] = result[r]
  BY Numbers DEF Return, TypeOK
<1>5. \A r \in Requests : result'[r] \in Requests =>
          /\ result'[r] <= asked
          /\ Beyond(result'[r], <<>>) /\ Beyond(result'[r], down)
          /\ Beyond(result'[r], heard) /\ Beyond(result'[r], up')
  <2>1. ASSUME NEW r \in Requests, result'[r] \in Requests
        PROVE  result'[r] <= asked
    <3>1. result[r] <= Sent /\ result[r] \in Nat /\ result'[r] = result[r]
      BY <2>1, <1>4, Numbers DEF Order
    <3> QED
      BY <3>1, <1>1
  <2> QED
    BY <2>1, <1>4, EmptyOrder DEF Order
<1> QED
  BY <1>1, <1>2, <1>3, <1>5, EmptyOrder DEF Order

LEMMA QuietFailureOrder ==
    ASSUME TypeOK, Asking, Order, stage # "idle", Return(Failed), UNCHANGED <<asked, down, heard, up>>
    PROVE  Order'
<1>1. asked \in Requests /\ asked \in Nat
  BY TransportAssumption DEF Asking, TypeOK, Requests
<1>2. Sent \in Nat /\ Sent <= asked
  BY <1>1, TransportAssumption DEF Sent, Requests
<1>3. Upto(up, asked)
  BY <1>1, <1>2, UptoGrows DEF Order, TypeOK
<1> QED
  BY <1>1, <1>3, FailureOrder DEF Order

\* Part of the frame of a new request goes to the end of the stream to the peer.
LEMMA SendingOrder ==
    ASSUME TypeOK, Asking, Order, stage = "send", NEW f \in Seq(Pieces),
           Len(f) <= 4, \A i \in 1 .. Len(f) : f[i] = <<asked, i>>
    PROVE  /\ Rising(up \o f) /\ Ahead(heard, up \o f) /\ Older(down, up \o f) /\ Older(got, up \o f)
           /\ Upto(up \o f, asked)
           /\ \A r \in Requests : result[r] \in Requests => Beyond(result[r], up \o f)
<1>1. asked \in Requests /\ asked \in Nat /\ asked - 1 \in Nat
  BY TransportAssumption DEF Asking, TypeOK, Requests
<1>2. /\ Upto(up, asked - 1) /\ Upto(heard, asked - 1) /\ Upto(down, asked - 1) /\ Upto(got, asked - 1)
  BY DEF Order, Sent
<1>3. up \in Seq(Pieces) /\ heard \in Seq(Pieces) /\ down \in Seq(Pieces) /\ got \in Seq(Pieces)
  BY DEF TypeOK
<1>4. Rising(up \o f)
  BY <1>1, <1>2, <1>3, SendOrder DEF Order
<1>5. Older(down, up \o f) /\ Older(got, up \o f)
  BY <1>1, <1>2, <1>3, SendAges DEF Order
<1>6. Upto(up \o f, asked)
  <2>1. Upto(up, asked)
    BY <1>1, <1>2, <1>3, UptoGrows
  <2> QED
    BY <2>1, <1>1, <1>3, SendAges
<1>7. Ahead(heard, up \o f)
  <2>1. \A i \in DOMAIN (up \o f) :
            \/ i \in DOMAIN up /\ (up \o f)[i] = up[i]
            \/ i > Len(up) /\ (up \o f)[i] = <<asked, i - Len(up)>>
    BY <1>1, <1>3, SendElements
  <2>2. \A i \in DOMAIN heard : heard[i][1] < asked
    BY <1>1, <1>2, <1>3, PieceParts DEF Upto
  <2>3. ASSUME NEW i \in DOMAIN heard, NEW j \in DOMAIN (up \o f)
        PROVE  Precedes(heard[i], (up \o f)[j])
    <3>1. CASE j \in DOMAIN up /\ (up \o f)[j] = up[j]
      BY <3>1 DEF Order, Ahead
    <3>2. CASE (up \o f)[j] = <<asked, j - Len(up)>>
      BY <3>2, <2>2 DEF Precedes
    <3> QED
      BY <3>1, <3>2, <2>1
  <2> QED
    BY <2>3 DEF Ahead
<1>8. ASSUME NEW r \in Requests, result[r] \in Requests PROVE Beyond(result[r], up \o f)
  <2>1. result[r] <= Sent /\ result[r] \in Nat
    BY <1>8, Numbers DEF Order
  <2>2. result[r] < asked
    BY <1>1, <2>1 DEF Sent
  <2> QED
    BY <2>2, <1>1, <1>3, <1>8, SendAges DEF Order
<1> QED
  BY <1>4, <1>5, <1>6, <1>7, <1>8

\* The reply that a call returns is behind it for good.
LEMMA ReplyOrder ==
    ASSUME TypeOK, Asking, Order, ReturnReply
    PROVE  Order'
<1>1. asked \in Requests /\ asked \in Nat /\ stage = "receive"
  BY TransportAssumption DEF Asking, TypeOK, Requests, ReturnReply
<1>2. CASE Parsed(got) = Nothing
  BY <1>1, <1>2, QuietFailureOrder DEF ReturnReply, peerVars
<1>3. CASE Parsed(got) # Nothing
  <2> DEFINE m == Parsed(got)
  <2>1. m \in Requests /\ got = Frame(m) /\ Return(m) /\ UNCHANGED <<asked, up, down, heard>>
    BY <1>3, ParsedIsFrame DEF ReturnReply, peerVars, TypeOK
  <2> HIDE DEF m
  <2>2. /\ DOMAIN got = 1 .. 4 /\ got[1] = <<m, 1>> /\ got[4] = <<m, 4>>
        /\ m \in Nat
    BY <2>1, FrameParts, TransportAssumption DEF Requests
  <2>3. m <= asked /\ Sent = asked
    BY <1>1, <2>2 DEF Order, Upto, Sent
  <2>4. Beyond(m, heard) /\ Beyond(m, up)
    BY <2>2 DEF Order, Older, Beyond
  <2>5. Beyond(m, down)
    <3>1. ASSUME NEW j \in DOMAIN down PROVE m < down[j][1]
      <4>1. down[j] \in Pieces
        BY DEF TypeOK
      <4>2. down[j][1] \in Nat /\ down[j][2] \in 1 .. 4
        BY <4>1, TransportAssumption DEF Pieces, Requests, FrameSize
      <4>3. Precedes(<<m, 4>>, down[j])
        BY <2>2 DEF Order, Ahead
      <4> QED
        BY <4>2, <4>3, <2>2 DEF Precedes
    <3> QED
      BY <3>1 DEF Beyond
  <2>6. got' = <<>> /\ Sent' = asked
    BY <2>1 DEF Return, Chunks, Sent
  <2>7. \A r \in Requests : result'[r] = IF r = asked THEN m ELSE result[r]
    BY <2>1, <1>1 DEF Return, TypeOK
  <2>8. \A r \in Requests : result'[r] \in Requests =>
          /\ result'[r] <= asked
          /\ Beyond(result'[r], <<>>) /\ Beyond(result'[r], down)
          /\ Beyond(result'[r], heard) /\ Beyond(result'[r], up)
    BY <2>3, <2>4, <2>5, <2>7, EmptyOrder DEF Order
  <2>9. Upto(down, asked) /\ Upto(heard, asked) /\ Upto(up, asked)
    BY <2>3 DEF Order
  <2> QED
    BY <2>1, <2>6, <2>8, <2>9, EmptyOrder DEF Order
<1> QED
  BY <1>2, <1>3

\* A piece that is read.
LEMMA ReceivingOrder ==
    ASSUME TypeOK, Order, ReceivePiece
    PROVE  Order'
<1>1. /\ got \in Seq(Pieces) /\ down \in Seq(Pieces) /\ down # <<>>
      /\ got' = Append(got, Head(down)) /\ down' = Tail(down)
      /\ UNCHANGED <<asked, result, stage, heard, up>>
  BY DEF ReceivePiece, TypeOK
<1>2. Sent' = Sent
  BY <1>1 DEF Sent
<1>3. Rising(got') /\ Rising(down') /\ Ahead(got', down')
  BY <1>1, MoveOrder DEF Order
<1>4. Older(got', heard) /\ Older(down', heard) /\ Older(got', up) /\ Older(down', up)
  BY <1>1, MoveAges DEF Order
<1>5. Upto(got', Sent) /\ Upto(down', Sent)
  BY <1>1, MoveAges DEF Order
<1>6. \A r \in Requests : result[r] \in Requests => Beyond(result[r], got') /\ Beyond(result[r], down')
  BY <1>1, MoveAges DEF Order
<1> QED
  BY <1>1, <1>2, <1>3, <1>4, <1>5, <1>6 DEF Order

LEMMA ReadingOrder ==
    ASSUME TypeOK, Order, PeerReads
    PROVE  Order'
<1>1. /\ heard \in Seq(Pieces) /\ up \in Seq(Pieces) /\ up # <<>>
      /\ heard' = Append(heard, Head(up)) /\ up' = Tail(up)
      /\ UNCHANGED <<asked, result, stage, got, down>>
  BY DEF PeerReads, TypeOK
<1>2. Sent' = Sent
  BY <1>1 DEF Sent
<1>3. Rising(heard') /\ Rising(up') /\ Ahead(heard', up')
  BY <1>1, MoveOrder DEF Order
<1>4. Older(got, heard') /\ Older(got, up') /\ Older(down, heard') /\ Older(down, up')
  BY <1>1, MoveAges DEF Order
<1>5. Upto(heard', Sent) /\ Upto(up', Sent)
  BY <1>1, MoveAges DEF Order
<1>6. \A r \in Requests : result[r] \in Requests => Beyond(result[r], heard') /\ Beyond(result[r], up')
  BY <1>1, MoveAges DEF Order
<1> QED
  BY <1>1, <1>2, <1>3, <1>4, <1>5, <1>6 DEF Order

\* The reply of what the peer has heard goes behind what it has sent.
LEMMA ReplyingOrder ==
    ASSUME TypeOK, Order, PeerReplies
    PROVE  Order'
<1>1. /\ got \in Seq(Pieces) /\ down \in Seq(Pieces) /\ heard \in Seq(Pieces) /\ up \in Seq(Pieces)
      /\ heard' = <<>> /\ Complete(heard)
      /\ UNCHANGED <<asked, result, stage, got, up>>
  BY DEF PeerReplies, TypeOK
<1>2. Sent' = Sent
  BY <1>1 DEF Sent
<1>3. CASE Parsed(heard) = Nothing
  <2>1. down' = down
    BY <1>3 DEF PeerReplies
  <2> QED
    BY <1>1, <1>2, <2>1, EmptyOrder DEF Order
<1>4. CASE Parsed(heard) # Nothing
  <2> DEFINE m == Parsed(heard)
  <2>1. m \in Requests /\ heard = Frame(m) /\ down' = down \o Frame(m)
    BY <1>4, <1>1, ParsedIsFrame DEF PeerReplies
  <2> HIDE DEF m
  <2>2. /\ DOMAIN heard = 1 .. 4 /\ heard[1] = <<m, 1>> /\ heard[4] = <<m, 4>>
        /\ m \in Nat /\ m - 1 \in Nat
    BY <2>1, FrameParts, TransportAssumption DEF Requests
  <2>3. /\ Frame(m) \in Seq(Pieces) /\ Len(Frame(m)) <= 4
        /\ \A i \in 1 .. Len(Frame(m)) : Frame(m)[i] = <<m, i>>
    <3>1. /\ Frame(m) \in Seq(Pieces) /\ Len(Frame(m)) = 4
          /\ \A i \in 1 .. 4 : Frame(m)[i] = <<m, i>>
      BY <2>1, FrameParts, Zenon
    <3> HIDE DEF m
    <3> QED
      BY <3>1
  <2>4. Upto(down, m - 1) /\ Upto(got, m - 1)
    <3>1. \A i \in DOMAIN down : down[i][1] < m
      BY <2>2 DEF Order, Older
    <3>2. \A i \in DOMAIN got : got[i][1] < m
      BY <2>2 DEF Order, Older
    <3> QED
      BY <3>1, <3>2, <1>1, <2>2, PieceParts DEF Upto
  <2>5. Beyond(m, up)
    <3>1. ASSUME NEW j \in DOMAIN up PROVE m < up[j][1]
      <4>1. up[j] \in Pieces
        BY DEF TypeOK
      <4>2. up[j][1] \in Nat /\ up[j][2] \in 1 .. 4
        BY <4>1, TransportAssumption DEF Pieces, Requests, FrameSize
      <4>3. Precedes(<<m, 4>>, up[j])
        BY <2>2 DEF Order, Ahead
      <4> QED
        BY <4>2, <4>3, <2>2 DEF Precedes
    <3> QED
      BY <3>1 DEF Beyond
  <2>6. m <= Sent /\ Sent \in Nat
    <3>1. m <= Sent
      BY <2>2 DEF Order, Upto
    <3>2. Sent \in Int
      BY DEF Sent, TypeOK
    <3> QED
      BY <3>1, <3>2, <2>2
  <2>7. Rising(down')
    BY <2>1, <2>3, <2>4, <1>1, SendOrder DEF Order
  <2>8. Older(down', up)
    BY <2>1, <2>3, <2>5, <1>1, SendAges DEF Order
  <2>9. Upto(down', Sent)
    BY <2>1, <2>3, <2>6, <1>1, SendAges DEF Order
  <2>10. ASSUME NEW r \in Requests, result[r] \in Requests PROVE Beyond(result[r], down')
    <3>1. result[r] < m
      BY <2>10, <2>2 DEF Order, Beyond
    <3> QED
      BY <2>10, <2>1, <2>3, <3>1, <1>1, SendAges DEF Order
  <2>11. Ahead(got, down')
    <3>1. \A i \in DOMAIN (down \o Frame(m)) :
            \/ i \in DOMAIN down /\ (down \o Frame(m))[i] = down[i]
            \/ i > Len(down) /\ (down \o Frame(m))[i] = <<m, i - Len(down)>>
      BY <2>1, <2>3, <1>1, SendElements
    <3>2. \A i \in DOMAIN got : got[i][1] < m
      BY <2>2, <2>4, <1>1, PieceParts DEF Upto
    <3>3. ASSUME NEW i \in DOMAIN got, NEW j \in DOMAIN (down \o Frame(m))
          PROVE  Precedes(got[i], (down \o Frame(m))[j])
      <4>1. CASE j \in DOMAIN down /\ (down \o Frame(m))[j] = down[j]
        BY <4>1 DEF Order, Ahead
      <4>2. CASE (down \o Frame(m))[j] = <<m, j - Len(down)>>
        BY <4>2, <3>2 DEF Precedes
      <4> QED
        BY <4>1, <4>2, <3>1
    <3> QED
      BY <3>3, <2>1 DEF Ahead
  <2> QED
    BY <1>1, <1>2, <2>7, <2>8, <2>9, <2>10, <2>11, EmptyOrder DEF Order
<1> QED
  BY <1>3, <1>4

LEMMA OrderStep == TypeOK /\ Asking /\ Order /\ [Next]_vars => Order'
<1> SUFFICES ASSUME TypeOK, Asking, Order, [Next]_vars PROVE Order'
  OBVIOUS
<1>0. /\ N \in Nat /\ asked \in Nat
      /\ stage # "idle" => asked \in Requests
  BY TransportAssumption DEF TypeOK, Requests, Asking
<1>1. CASE Begin
  <2>1. Sent' = Sent
    BY <1>1, <1>0 DEF Begin, Sent
  <2> QED
    BY <1>1, <2>1 DEF Begin, peerVars, Order
<1>2. CASE SendFrame
  <2>1. /\ stage = "send" /\ up' = up \o Frame(asked) /\ UNCHANGED <<asked, result, got, down, heard>>
        /\ asked \in Requests /\ Sent' = asked /\ Sent = asked - 1 /\ Sent \in Nat
    BY <1>2, <1>0, Numbers DEF SendFrame, Sent
  <2>2. /\ Rising(up') /\ Ahead(heard, up') /\ Older(down, up') /\ Older(got, up') /\ Upto(up', asked)
        /\ \A r \in Requests : result[r] \in Requests => Beyond(result[r], up')
    <3>1. /\ Frame(asked) \in Seq(Pieces) /\ Len(Frame(asked)) = 4
          /\ \A i \in 1 .. 4 : Frame(asked)[i] = <<asked, i>>
      BY <2>1, FrameParts
    <3>2. Len(Frame(asked)) <= 4 /\ 1 .. Len(Frame(asked)) = 1 .. 4
      BY <3>1
    <3> QED
      BY <2>1, <3>1, <3>2, SendingOrder
  <2>3. Upto(got, asked) /\ Upto(down, asked) /\ Upto(heard, asked)
    BY <2>1, <1>0, UptoGrows DEF Order, TypeOK
  <2>4. \A r \in Requests : result[r] \in Requests => result[r] <= asked
    <3>1. ASSUME NEW r \in Requests, result[r] \in Requests PROVE result[r] <= asked
      <4>1. result[r] <= Sent /\ result[r] \in Nat
        BY <3>1, Numbers DEF Order
      <4> QED
        BY <4>1, <2>1, <1>0
    <3> QED
      BY <3>1
  <2> QED
    BY <2>1, <2>2, <2>3, <2>4 DEF Order
<1>3. CASE SendTimesOut
  <2>1. PICK n \in 0 .. FrameSize - 1 : up' = up \o SubSeq(Frame(asked), 1, n)
    BY <1>3 DEF SendTimesOut
  <2>2. /\ stage = "send" /\ UNCHANGED <<asked, down, heard>> /\ asked \in Requests /\ Return(Failed)
    BY <1>3, <1>0 DEF SendTimesOut
  <2>3. /\ SubSeq(Frame(asked), 1, n) \in Seq(Pieces)
        /\ Len(SubSeq(Frame(asked), 1, n)) <= 4
        /\ \A i \in 1 .. Len(SubSeq(Frame(asked), 1, n)) : SubSeq(Frame(asked), 1, n)[i] = <<asked, i>>
    BY <2>2, PartOfFrame
  <2>4. /\ Rising(up') /\ Ahead(heard, up') /\ Older(down, up') /\ Upto(up', asked)
        /\ \A r \in Requests : result[r] \in Requests => Beyond(result[r], up')
    BY <2>1, <2>2, <2>3, SendingOrder
  <2> QED
    BY <2>2, <2>4, FailureOrder
<1>4. CASE ReceivePiece
  BY <1>4, ReceivingOrder
<1>5. CASE ReturnReply
  BY <1>5, ReplyOrder
<1>6. CASE ReturnGarbage
  BY <1>6, QuietFailureOrder DEF ReturnGarbage, peerVars
<1>7. CASE ReceiveTimesOut
  BY <1>7, QuietFailureOrder DEF ReceiveTimesOut, peerVars
<1>8. CASE SocketClosed
  BY <1>8, QuietFailureOrder DEF SocketClosed, peerVars
<1>9. CASE PeerReads
  BY <1>9, ReadingOrder
<1>10. CASE PeerReplies
  BY <1>10, ReplyingOrder
<1>11. ASSUME UNCHANGED <<asked, result, stage, got, down, heard, up>> PROVE Order'
  BY <1>11 DEF Order, Sent
<1>12. CASE PeerCloses
  BY <1>11, <1>12 DEF PeerCloses
<1>13. CASE UNCHANGED vars
  BY <1>11, <1>13 DEF vars
<1> QED
  BY <1>1, <1>2, <1>3, <1>4, <1>5, <1>6, <1>7, <1>8, <1>9, <1>10, <1>12, <1>13 DEF Next, Client, Peer

-----------------------------------------------------------------------------
LEMMA CleanStart == Init => Clean
BY DEF Init, Clean

\* A sound call's chunks are a beginning of its own reply.
LEMMA CleanChunks ==
    ASSUME TypeOK, Asking, Clean, ~late, stage = "receive"
    PROVE  /\ asked \in Requests
           /\ ~Misread(got)
           /\ Complete(got) => got = Frame(asked) /\ down = <<>> /\ Replied
<1>1. asked \in Requests
  BY TransportAssumption DEF Asking, TypeOK, Requests
<1>2. CASE Waiting
  <2>1. Len(got) = 0
    BY <1>2 DEF Waiting
  <2> QED
    BY <1>1, <2>1 DEF Misread, Complete, HeaderSize, FrameSize
<1>3. CASE Replied
  <2>1. got \o down = Frame(asked)
    BY <1>3 DEF Replied
  <2> QED
    BY <1>1, <1>3, <2>1, WholeFrame DEF TypeOK
<1> QED
  BY <1>2, <1>3 DEF Clean

LEMMA CleanStep == TypeOK /\ Asking /\ Clean /\ [Next]_vars => Clean'
<1> SUFFICES ASSUME TypeOK, Asking, Clean, [Next]_vars PROVE Clean'
  OBVIOUS
<1>0. stage # "idle" => asked \in Requests
  BY TransportAssumption DEF TypeOK, Requests, Asking
<1>1. CASE Begin
  BY <1>1 DEF Begin, Clean, peerVars
<1>2. CASE SendFrame
  <2> SUFFICES ASSUME ~late PROVE Waiting'
    BY <1>2 DEF SendFrame, Clean
  <2>1. got = <<>> /\ down = <<>> /\ heard = <<>> /\ up = <<>>
    BY <1>2 DEF SendFrame, Clean
  <2>2. heard' \o up' = Frame(asked)
    <3>1. Frame(asked) \in Seq(Pieces)
      BY <1>0, <1>2, FrameParts DEF SendFrame
    <3>2. heard' = <<>> /\ up' = <<>> \o Frame(asked)
      BY <1>2, <2>1 DEF SendFrame
    <3> QED
      BY <3>1, <3>2
  <2> QED
    BY <1>2, <2>1, <2>2 DEF SendFrame, Waiting
<1>3. CASE SendTimesOut
  BY <1>3 DEF SendTimesOut, Clean
<1>4. CASE ReceivePiece
  <2> SUFFICES ASSUME ~late PROVE Replied'
    BY <1>4 DEF ReceivePiece, Clean
  <2>1. Replied
    BY <1>4 DEF ReceivePiece, Clean, Waiting
  <2>2. got' \o down' = got \o down
    BY <1>4, MoveElements DEF ReceivePiece, TypeOK
  <2> QED
    BY <1>4, <2>1, <2>2 DEF ReceivePiece, Replied
<1>5. CASE ReturnReply
  <2> SUFFICES ASSUME ~late PROVE Clean'
    BY <1>5 DEF ReturnReply, Clean
  <2>1. down = <<>> /\ Replied
    BY <1>5, CleanChunks DEF ReturnReply
  <2> QED
    BY <1>5, <2>1 DEF ReturnReply, Return, Chunks, Replied, Clean, peerVars
<1>6. CASE ReturnGarbage
  BY <1>6, CleanChunks DEF ReturnGarbage, Clean
<1>7. CASE ReceiveTimesOut
  BY <1>7 DEF ReceiveTimesOut, Clean
<1>8. CASE SocketClosed
  <2> SUFFICES ASSUME ~late PROVE Clean'
    BY <1>8 DEF SocketClosed, Clean
  <2>1. down = <<>> /\ got' = <<>> /\ stage' = "idle" /\ UNCHANGED <<peer, down>> /\ peer = "closed"
    BY <1>8 DEF SocketClosed, Clean, Return, Chunks, peerVars
  <2> QED
    BY <2>1 DEF Clean
<1>9. CASE PeerReads
  <2> SUFFICES ASSUME ~late PROVE Clean'
    BY <1>9 DEF PeerReads, Clean
  <2>1. stage = "receive" /\ Waiting
    BY <1>9 DEF PeerReads, Clean, Replied
  <2>2. heard' \o up' = heard \o up
    BY <1>9, MoveElements DEF PeerReads, TypeOK
  <2>3. Waiting'
    BY <1>9, <2>1, <2>2 DEF PeerReads, Waiting
  <2> QED
    BY <1>9, <2>1, <2>3 DEF PeerReads, Clean
<1>10. CASE PeerReplies
  <2> SUFFICES ASSUME ~late PROVE Clean'
    BY <1>10 DEF PeerReplies, Clean
  <2>0. heard # <<>>
    <3>1. Len(heard) = 4
      BY <1>10 DEF PeerReplies, Complete, FrameSize
    <3> QED
      BY <3>1
  <2>1. stage = "receive" /\ Waiting
    BY <1>10, <2>0 DEF PeerReplies, Clean, Replied
  <2>2. asked \in Requests
    BY <1>0, <2>1
  <2>3. heard \o up = Frame(asked) /\ heard \in Seq(Pieces) /\ up \in Seq(Pieces) /\ Complete(heard)
    BY <1>10, <2>1 DEF PeerReplies, Waiting, TypeOK
  <2>4. heard = Frame(asked) /\ up = <<>>
    BY <2>2, <2>3, WholeFrame
  <2>5. Parsed(heard) = asked
    BY <2>2, <2>3, <2>4, ParsedIsFrame
  <2>6. down' = down \o Frame(asked) /\ got' = <<>> /\ down = <<>>
    BY <1>10, <2>1, <2>2, <2>5, Numbers DEF PeerReplies, Waiting
  <2>7. got' \o down' = Frame(asked)
    <3>1. Frame(asked) \in Seq(Pieces)
      BY <2>2, FrameParts
    <3> QED
      BY <2>6, <3>1
  <2>8. Replied'
    BY <1>10, <2>4, <2>7 DEF PeerReplies, Replied
  <2> QED
    BY <1>10, <2>1, <2>8 DEF PeerReplies, Clean
<1>11. CASE PeerCloses
  BY <1>11 DEF PeerCloses, Clean, Waiting, Replied
<1>12. CASE UNCHANGED vars
  BY <1>12 DEF vars, Clean, Waiting, Replied
<1> QED
  BY <1>1, <1>2, <1>3, <1>4, <1>5, <1>6, <1>7, <1>8, <1>9, <1>10, <1>11, <1>12
  DEF Next, Client, Peer

\* The messages keep their order along the way to the peer and back, and until a
\* call ends in a timeout the streams hold nothing of an earlier call.
THEOREM StreamsAreOrdered == Spec => []IInv
<1>1. Init => IInv
  BY TypeStart, AskingStart, OrderStart, CleanStart DEF IInv
<1>2. IInv /\ [Next]_vars => IInv'
  BY TypeStep, AskingStep, OrderStep, CleanStep DEF IInv
<1> QED
  BY <1>1, <1>2, PTL DEF Spec

-----------------------------------------------------------------------------
\* A call is open on the channel as long as it is under way.
LEMMA OpenCall == TypeOK /\ Asking => (Channel!Open <=> stage # "idle")
BY DEF Channel!Open, Channel!Nothing, Nothing, Asking, TypeOK

\* A call that raises is a failure of the channel.
LEMMA FailStep ==
    ASSUME IInv, stage # "idle", Return(Failed), UNCHANGED asked, late' \in {late, TRUE}
    PROVE  Channel!Fail
<1>1. Channel!Open
  BY OpenCall DEF IInv
<1>2. result' = [result EXCEPT ![asked] = Channel!Failed]
  BY DEF Return, Failed, Channel!Failed
<1>3. (~late)' \in {~late, FALSE}
  <2>1. CASE late' = late
    BY <2>1
  <2>2. CASE late' = TRUE
    BY <2>2
  <2> QED
    BY <2>1, <2>2
<1> QED
  BY <1>1, <1>2, <1>3 DEF Channel!Fail

\* A call that returns is a reply of the channel: of its own request when no call
\* has ended in a timeout, and otherwise of one that was answered by none.
LEMMA ReplyStep ==
    ASSUME IInv, ReturnReply
    PROVE  Channel!Next
<1>1. /\ stage = "receive" /\ got \in Seq(Pieces) /\ Complete(got) /\ UNCHANGED <<asked, late>>
      /\ TypeOK /\ Asking /\ Order /\ Clean /\ asked \in Requests
  BY TransportAssumption DEF ReturnReply, IInv, TypeOK, Requests, Asking
<1>2. CASE Parsed(got) = Nothing
  BY <1>1, <1>2, FailStep DEF ReturnReply, Channel!Next
<1>3. CASE Parsed(got) # Nothing
  <2> DEFINE m == Parsed(got)
  <2>1. m \in Requests /\ got = Frame(m) /\ result' = [result EXCEPT ![asked] = m]
    BY <1>1, <1>3, ParsedIsFrame DEF ReturnReply, Return
  <2>2. ~late => m = asked
    BY <1>1, CleanChunks, ParsedIsFrame
  <2> HIDE DEF m
  <2>3. 1 \in DOMAIN got /\ got[1] = <<m, 1>> /\ m \in Nat /\ m >= 1
    BY <2>1, FrameParts, TransportAssumption DEF Requests
  <2>4. m \in 1 .. asked
    BY <1>1, <2>3 DEF Order, Upto, Sent, TypeOK
  <2>5. Channel!Later(m)
    <3>1. ASSUME NEW r \in 1 .. asked, result[r] \notin {Channel!Nothing, Channel!Failed}
          PROVE  result[r] < m
      <4>1. r \in Requests
        BY <1>1, TransportAssumption DEF TypeOK, Requests
      <4>2. result[r] \in 0 .. Failed
        BY <1>1, <4>1 DEF TypeOK
      <4>3. result[r] # Nothing /\ result[r] # Failed
        BY <3>1 DEF Channel!Nothing, Channel!Failed, Nothing, Failed
      <4>4. result[r] \in Requests
        BY <1>1, <4>2, <4>3, Numbers
      <4> QED
        BY <1>1, <2>3, <4>1, <4>4 DEF Order, Beyond
    <3> QED
      BY <3>1 DEF Channel!Later
  <2>6. Channel!Open
    BY <1>1, OpenCall
  <2>7. Channel!Answer
    BY <1>1, <2>1, <2>2, <2>4, <2>5, <2>6 DEF Channel!Answer
  <2> QED
    BY <2>7 DEF Channel!Next
<1> QED
  BY <1>2, <1>3

LEMMA ChannelStart == Init => Channel!Init
BY DEF Init, Channel!Init, Requests, Nothing, Channel!Nothing

LEMMA ChannelStep == IInv /\ [Next]_vars => [Channel!Next]_(Channel!vars)
<1> SUFFICES ASSUME IInv, [Next]_vars PROVE [Channel!Next]_(Channel!vars)
  OBVIOUS
<1>1. CASE Begin
  <2>1. ~Channel!Open
    BY <1>1, OpenCall DEF Begin, IInv
  <2> QED
    BY <1>1, <2>1 DEF Begin, Channel!Next, Channel!Ask
<1>2. CASE SendTimesOut
  BY <1>2, FailStep DEF SendTimesOut, Channel!Next
<1>3. CASE ReturnReply
  BY <1>3, ReplyStep
<1>4. CASE ReturnGarbage
  BY <1>4, FailStep DEF ReturnGarbage, Channel!Next
<1>5. CASE ReceiveTimesOut
  BY <1>5, FailStep DEF ReceiveTimesOut, Channel!Next
<1>6. CASE SocketClosed
  BY <1>6, FailStep DEF SocketClosed, Channel!Next
<1>7. CASE SendFrame \/ ReceivePiece
  BY <1>7 DEF SendFrame, ReceivePiece, Channel!vars
<1>8. CASE Peer
  BY <1>8 DEF Peer, PeerReads, PeerReplies, PeerCloses, Channel!vars
<1>9. CASE UNCHANGED vars
  BY <1>9 DEF vars, Channel!vars
<1> QED
  BY <1>1, <1>2, <1>3, <1>4, <1>5, <1>6, <1>7, <1>8, <1>9 DEF Next, Client

\* The transport implements RequestReply: a call returns the reply of its own
\* request until one has ended in a timeout, and afterwards never one that another
\* call has returned, nor an older one than that.
THEOREM TransportIsChannel == Spec => ImplementsRequestReply
<1>1. Spec => []IInv
  BY StreamsAreOrdered
<1>2. Init => Channel!Init
  BY ChannelStart
<1>3. IInv /\ [Next]_vars => [Channel!Next]_(Channel!vars)
  BY ChannelStep
<1> QED
  BY <1>1, <1>2, <1>3, PTL DEF Spec, ImplementsRequestReply, Channel!Spec

\* Whatever way a call ends, the socket has the timeout again that it had before
\* (the finally of SocketFrameTransport.send): the safety half of TimedSendsEnd.
THEOREM TimeoutIsRestored == Spec => [](stage = "idle" => limited = previous)
<1>1. IInv => (stage = "idle" => limited = previous)
  BY DEF IInv, Asking
<1> QED
  BY <1>1, StreamsAreOrdered, PTL

-----------------------------------------------------------------------------
(* Envelopes.                                                               *)

\* The order of sorted() on the names.
StrictOrder ==
    /\ \A v, w \in Names : v # w => <<v, w>> \in Before \/ <<w, v>> \in Before
    /\ \A v \in Names : <<v, v>> \notin Before
    /\ \A u, v, w \in Names : <<u, v>> \in Before /\ <<v, w>> \in Before
                                  => <<u, w>> \in Before

\* A name that sorts before another has fewer names before it.
LEMMA FewerBefore ==
    ASSUME StrictOrder, NEW S \in SUBSET Names, IsFiniteSet(S),
           NEW v \in S, NEW w \in S, <<v, w>> \in Before
    PROVE  Numbered(S)[v] < Numbered(S)[w]
<1> DEFINE Below(x) == {u \in S : <<u, x>> \in Before}
<1>1. Below(v) \subseteq Below(w) \ {v}
  BY DEF StrictOrder
<1>2. v \in Below(w)
  OBVIOUS
<1>3. IsFiniteSet(Below(w)) /\ IsFiniteSet(Below(w) \ {v})
  BY FS_Subset
<1>4. Cardinality(Below(w) \ {v}) = Cardinality(Below(w)) - 1
  BY <1>2, <1>3, FS_RemoveElement
<1>5. Cardinality(Below(v)) <= Cardinality(Below(w) \ {v}) /\ IsFiniteSet(Below(v))
  BY <1>1, <1>3, FS_Subset
<1>6. Cardinality(Below(v)) \in Nat /\ Cardinality(Below(w)) \in Nat
  BY <1>3, <1>5, FS_CardinalityType
<1>7. Numbered(S)[v] = 1 + Cardinality(Below(v)) /\ Numbered(S)[w] = 1 + Cardinality(Below(w))
  BY DEF Numbered
<1> QED
  BY <1>4, <1>5, <1>6, <1>7

\* Every name has a number of its own, between 1 and the number of names.
THEOREM NumbersAreDistinct ==
    ASSUME StrictOrder, NEW S \in SUBSET Names, IsFiniteSet(S)
    PROVE  /\ Numbered(S) \in [S -> 1 .. Cardinality(S)]
           /\ \A v, w \in S : Numbered(S)[v] = Numbered(S)[w] => v = w
<1>1. ASSUME NEW v \in S PROVE Numbered(S)[v] \in 1 .. Cardinality(S)
  <2> DEFINE B == {u \in S : <<u, v>> \in Before}
  <2>1. B \subseteq S \ {v}
    BY DEF StrictOrder
  <2>2. IsFiniteSet(S \ {v}) /\ Cardinality(S \ {v}) = Cardinality(S) - 1
    BY FS_RemoveElement
  <2>3. Cardinality(B) <= Cardinality(S \ {v}) /\ IsFiniteSet(B)
    BY <2>1, <2>2, FS_Subset
  <2>4. Cardinality(B) \in Nat /\ Cardinality(S) \in Nat
    BY <2>3, FS_CardinalityType
  <2>5. Numbered(S)[v] = 1 + Cardinality(B)
    BY DEF Numbered
  <2> QED
    BY <2>2, <2>3, <2>4, <2>5
<1>2. Numbered(S) \in [S -> 1 .. Cardinality(S)]
  BY <1>1 DEF Numbered
<1>3. ASSUME NEW v \in S, NEW w \in S, Numbered(S)[v] = Numbered(S)[w], v # w PROVE FALSE
  <2>1. <<v, w>> \in Before \/ <<w, v>> \in Before
    BY <1>3 DEF StrictOrder
  <2>2. Numbered(S)[v] < Numbered(S)[w] \/ Numbered(S)[w] < Numbered(S)[v]
    BY <2>1, FewerBefore
  <2>3. Numbered(S)[v] \in Int /\ Numbered(S)[w] \in Int
    BY <1>2
  <2> QED
    BY <1>3, <2>2, <2>3
<1> QED
  BY <1>2, <1>3

\* The values of a function on a finite set are finitely many.
LEMMA ImageIsFinite ==
    ASSUME NEW S, IsFiniteSet(S), NEW f
    PROVE  IsFiniteSet({f[x] : x \in S})
<1> DEFINE T == {f[x] : x \in S}
           g == [x \in S |-> f[x]]
<1>1. g \in Surjection(S, T)
  BY DEF Surjection
<1> QED
  BY <1>1, FS_Surjection

\* A session mentions finitely many names of each kind.
LEMMA MentionsAreNames ==
    ASSUME None \notin Names, NEW messages \in Seq(Message), NEW field \in Fields
    PROVE  LET S == UNION {Mentions(field, messages[n]) : n \in DOMAIN messages}
           IN  S \in SUBSET Names /\ IsFiniteSet(S)
<1> DEFINE S == UNION {Mentions(field, messages[n]) : n \in DOMAIN messages}
<1>1. ASSUME NEW n \in DOMAIN messages
      PROVE  Mentions(field, messages[n]) \in SUBSET Names /\ IsFiniteSet(Mentions(field, messages[n]))
  <2> DEFINE m == messages[n]
  <2>1. m \in Message
    OBVIOUS
  <2>2. /\ m.trace \in Names /\ m.source \in Names /\ m.target \in Names /\ m.type \in Names
        /\ m.action \in Names \cup {None} /\ m.capability \in Seq(Names) /\ m.refs \in Seq(Names)
    BY <2>1 DEF Message
  <2>3. ASSUME NEW q \in Seq(Names)
        PROVE  {q[k] : k \in DOMAIN q} \in SUBSET Names /\ IsFiniteSet({q[k] : k \in DOMAIN q})
    <3>1. DOMAIN q = 1 .. Len(q) /\ Len(q) \in Nat
      OBVIOUS
    <3>2. IsFiniteSet(DOMAIN q)
      BY <3>1, FS_Interval
    <3> QED
      BY <3>1, <3>2, ImageIsFinite
  <2>4. /\ IsFiniteSet({m.trace}) /\ IsFiniteSet({m.type}) /\ IsFiniteSet({m.source, m.target})
        /\ IsFiniteSet({m.action} \ {None})
    <3>1. IsFiniteSet({m.trace}) /\ IsFiniteSet({m.type}) /\ IsFiniteSet({m.source})
          /\ IsFiniteSet({m.target}) /\ IsFiniteSet({m.action})
      BY FS_Singleton
    <3>2. {m.source, m.target} = {m.source} \cup {m.target} /\ {m.action} \ {None} \subseteq {m.action}
      OBVIOUS
    <3> QED
      BY <3>1, <3>2, FS_Union, FS_Subset
  <2>5. field \in {"traces", "agents", "msg_types", "actions", "capabilities", "state_refs"}
    BY DEF Fields
  <2>6. CASE field \in {"traces", "agents", "msg_types", "actions"}
    BY <2>2, <2>4, <2>6 DEF Mentions
  <2>7. CASE field = "capabilities"
    BY <2>2, <2>3, <2>7 DEF Mentions
  <2>8. CASE field = "state_refs"
    BY <2>2, <2>3, <2>8 DEF Mentions
  <2> QED
    BY <2>5, <2>6, <2>7, <2>8
<1>2. IsFiniteSet({Mentions(field, messages[n]) : n \in DOMAIN messages})
  <2> DEFINE g == [n \in DOMAIN messages |-> Mentions(field, messages[n])]
  <2>1. DOMAIN messages = 1 .. Len(messages) /\ Len(messages) \in Nat
    OBVIOUS
  <2>2. IsFiniteSet(DOMAIN messages)
    BY <2>1, FS_Interval
  <2>3. IsFiniteSet({g[n] : n \in DOMAIN messages})
    BY <2>2, ImageIsFinite
  <2> QED
    BY <2>3
<1>3. IsFiniteSet(S)
  BY <1>1, <1>2, FS_UNION
<1> QED
  BY <1>1, <1>3

\* build_typed_envelope finds each name of each message of the session in the
\* dictionary that was built from them: no lookup fails.
THEOREM LookupsSucceed ==
    ASSUME NEW messages \in Seq(Message), NEW n \in DOMAIN messages, NEW field \in Fields
    PROVE  Mentions(field, messages[n]) \subseteq DOMAIN Dictionary(messages)[field]
  BY DEF Dictionary, Numbered

\* Sequences with the same places and the same elements are the same.
LEMMA SameSequence ==
    ASSUME NEW S, NEW p \in Seq(S), NEW q \in Seq(S),
           DOMAIN p = DOMAIN q, \A n \in DOMAIN p : p[n] = q[n]
    PROVE  p = q
<1>1. p = [n \in 1 .. Len(p) |-> p[n]] /\ q = [n \in 1 .. Len(q) |-> q[n]]
  OBVIOUS
<1>2. DOMAIN p = 1 .. Len(p) /\ DOMAIN q = 1 .. Len(q)
  OBVIOUS
<1> QED
  BY <1>1, <1>2, Zenon

\* Two messages that differ at most in their id and the time they were made.
SameContent(x, y) == \A field \in DOMAIN x \ {"id", "created"} : x[field] = y[field]

Carried == {"trace", "source", "target", "type", "action", "capability", "refs",
            "params", "result"}

LEMMA CarriedIsAllBut ==
    ASSUME NEW m \in Message
    PROVE  DOMAIN m \ {"id", "created"} = Carried
  BY DEF Carried, Message

\* What tells two messages apart is told by the envelope or the payload, but for the
\* message's id and the time it was made.
LEMMA EnvelopesTellApart ==
    ASSUME StrictOrder, None \notin Names, NEW messages \in Seq(Message),
           NEW j \in DOMAIN messages, NEW k \in DOMAIN messages, NEW i,
           Envelope(messages[j], Dictionary(messages), i)
               = Envelope(messages[k], Dictionary(messages), i),
           Payload(messages[j]) = Payload(messages[k])
    PROVE  SameContent(messages[j], messages[k])
<1> DEFINE d == Dictionary(messages)
           x == messages[j]
           y == messages[k]
           S(field) == UNION {Mentions(field, messages[n]) : n \in DOMAIN messages}
<1>1. ASSUME NEW field \in Fields
      PROVE  /\ \A v, w \in S(field) : d[field][v] = d[field][w] => v = w
             /\ \A v \in S(field) : d[field][v] # 0
  <2>1. S(field) \in SUBSET Names /\ IsFiniteSet(S(field))
    BY MentionsAreNames
  <2>2. d[field] = Numbered(S(field))
    BY DEF Dictionary
  <2>3. /\ Numbered(S(field)) \in [S(field) -> 1 .. Cardinality(S(field))]
        /\ \A v, w \in S(field) : Numbered(S(field))[v] = Numbered(S(field))[w] => v = w
    BY <2>1, NumbersAreDistinct
  <2>4. \A v \in S(field) : Numbered(S(field))[v] # 0
    BY <2>3
  <2> QED
    BY <2>2, <2>3, <2>4
<1>2. /\ "traces" \in Fields /\ "agents" \in Fields /\ "msg_types" \in Fields
      /\ "actions" \in Fields /\ "capabilities" \in Fields /\ "state_refs" \in Fields
  BY DEF Fields
<1>3. x \in Message /\ y \in Message
  OBVIOUS
<1>4. ASSUME NEW n \in DOMAIN messages
      PROVE  /\ messages[n].trace \in S("traces")
             /\ messages[n].source \in S("agents") /\ messages[n].target \in S("agents")
             /\ messages[n].type \in S("msg_types")
             /\ messages[n].action # None => messages[n].action \in S("actions")
             /\ \A q \in DOMAIN messages[n].capability : messages[n].capability[q] \in S("capabilities")
             /\ \A q \in DOMAIN messages[n].refs : messages[n].refs[q] \in S("state_refs")
  BY DEF Mentions
<1>5. /\ d["traces"][x.trace] = d["traces"][y.trace]
      /\ d["agents"][x.source] = d["agents"][y.source]
      /\ d["agents"][x.target] = d["agents"][y.target]
      /\ d["msg_types"][x.type] = d["msg_types"][y.type]
      /\ (IF x.action = None THEN 0 ELSE d["actions"][x.action])
           = (IF y.action = None THEN 0 ELSE d["actions"][y.action])
      /\ [q \in DOMAIN x.capability |-> d["capabilities"][x.capability[q]]]
           = [q \in DOMAIN y.capability |-> d["capabilities"][y.capability[q]]]
      /\ [q \in DOMAIN x.refs |-> d["state_refs"][x.refs[q]]]
           = [q \in DOMAIN y.refs |-> d["state_refs"][y.refs[q]]]
  BY DEF Envelope
<1>a. /\ x.trace \in S("traces") /\ y.trace \in S("traces")
      /\ x.source \in S("agents") /\ y.source \in S("agents")
      /\ x.target \in S("agents") /\ y.target \in S("agents")
      /\ x.type \in S("msg_types") /\ y.type \in S("msg_types")
      /\ x.action # None => x.action \in S("actions")
      /\ y.action # None => y.action \in S("actions")
  BY <1>4
<1>b. /\ \A q \in DOMAIN x.capability : x.capability[q] \in S("capabilities")
      /\ \A q \in DOMAIN y.capability : y.capability[q] \in S("capabilities")
      /\ \A q \in DOMAIN x.refs : x.refs[q] \in S("state_refs")
      /\ \A q \in DOMAIN y.refs : y.refs[q] \in S("state_refs")
  BY <1>4
<1>c. x.params = y.params /\ x.result = y.result
  BY DEF Payload
<1> HIDE DEF d, S, x, y
<1>6. x.trace = y.trace /\ x.source = y.source /\ x.target = y.target /\ x.type = y.type
  <2>1. x.trace = y.trace
    BY <1>1, <1>2, <1>5, <1>a
  <2>2. x.source = y.source /\ x.target = y.target
    BY <1>1, <1>2, <1>5, <1>a
  <2>3. x.type = y.type
    BY <1>1, <1>2, <1>5, <1>a
  <2> QED
    BY <2>1, <2>2, <2>3
<1>7. x.action = y.action
  <2>1. CASE x.action = None /\ y.action # None
    BY <1>1, <1>2, <1>5, <1>a, <2>1
  <2>2. CASE x.action # None /\ y.action = None
    BY <1>1, <1>2, <1>5, <1>a, <2>2
  <2>3. CASE x.action # None /\ y.action # None
    BY <1>1, <1>2, <1>5, <1>a, <2>3
  <2> QED
    BY <2>1, <2>2, <2>3
<1>8. x.capability = y.capability
  <2>1. x.capability \in Seq(Names) /\ y.capability \in Seq(Names)
    BY <1>3 DEF Message
  <2>2. DOMAIN x.capability = DOMAIN y.capability
    BY <1>5
  <2>3. \A q \in DOMAIN x.capability : d["capabilities"][x.capability[q]] = d["capabilities"][y.capability[q]]
    BY <1>5, <2>2
  <2>4. \A q \in DOMAIN x.capability : x.capability[q] = y.capability[q]
    BY <1>1, <1>2, <1>b, <2>2, <2>3
  <2> QED
    BY <2>1, <2>2, <2>4, SameSequence
<1>9. x.refs = y.refs
  <2>1. x.refs \in Seq(Names) /\ y.refs \in Seq(Names)
    BY <1>3 DEF Message
  <2>2. DOMAIN x.refs = DOMAIN y.refs
    BY <1>5
  <2>3. \A q \in DOMAIN x.refs : d["state_refs"][x.refs[q]] = d["state_refs"][y.refs[q]]
    BY <1>5, <2>2
  <2>4. \A q \in DOMAIN x.refs : x.refs[q] = y.refs[q]
    BY <1>1, <1>2, <1>b, <2>2, <2>3
  <2> QED
    BY <2>1, <2>2, <2>4, SameSequence
<1>10. SameContent(x, y)
  <2>1. DOMAIN x \ {"id", "created"} = Carried
    BY <1>3, CarriedIsAllBut
  <2> QED
    BY <1>6, <1>7, <1>8, <1>9, <1>c, <2>1 DEF SameContent, Carried
<1> QED
  BY <1>10 DEF x, y

\* What build_typed_envelope carries of an AMPMessage: of two messages of a session the
\* envelopes (under one number) and the payloads are the same exactly when the messages
\* differ at most in message_id and created_at.  These two are not on the wire: an
\* envelope cannot be turned back into its message.
THEOREM EnvelopesDropIdAndTime ==
    ASSUME StrictOrder, None \notin Names, NEW messages \in Seq(Message),
           NEW j \in DOMAIN messages, NEW k \in DOMAIN messages, NEW i
    PROVE  LET d == Dictionary(messages)
               x == messages[j]
               y == messages[k]
           IN  Envelope(x, d, i) = Envelope(y, d, i) /\ Payload(x) = Payload(y)
                 <=> SameContent(x, y)
<1> DEFINE d == Dictionary(messages)
           x == messages[j]
           y == messages[k]
<1>1. ASSUME Envelope(x, d, i) = Envelope(y, d, i), Payload(x) = Payload(y)
      PROVE  SameContent(x, y)
  BY <1>1, EnvelopesTellApart
<1>2. ASSUME SameContent(x, y)
      PROVE  Envelope(x, d, i) = Envelope(y, d, i) /\ Payload(x) = Payload(y)
  <2>1. x \in Message /\ y \in Message
    OBVIOUS
  <2> HIDE DEF d, x, y
  <2>2. /\ x.trace = y.trace /\ x.source = y.source /\ x.target = y.target
        /\ x.type = y.type /\ x.action = y.action /\ x.capability = y.capability
        /\ x.refs = y.refs /\ x.params = y.params /\ x.result = y.result
    BY <1>2, <2>1, CarriedIsAllBut DEF SameContent, Carried
  <2> QED
    BY <2>2 DEF Envelope, Payload
<1> QED
  BY <1>1, <1>2
=============================================================================
