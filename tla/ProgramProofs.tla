---------------------------- MODULE ProgramProofs ----------------------------
(***************************************************************************)
(* Proofs about RpcCommand, Upload and Fixtures, and about GingerInfra as  *)
(* a whole: what is proved of each component holds in the program that     *)
(* runs any one of them, for every set of requests, commands, files and    *)
(* namespaces.                                                             *)
(***************************************************************************)
EXTENDS GingerInfra, CommandProofs, DeviceProofs, TLAPS

-----------------------------------------------------------------------------
(***************************************************************************)
(* upload.                                                                 *)
(***************************************************************************)

\* The parts stored so far, by number.
Parts == UNION {[D -> Seq(1..Size)] : D \in SUBSET (0..Size)}

\* The parts stored so far are the file up to what was read: part n begins
\* where the one before it ended.
Covered(u, from) ==
    /\ from[0] = 0 /\ from[partNumber[u]] = read[u]
    /\ DOMAIN parts[u] = 0 .. partNumber[u] - 1
    /\ \A n \in 0 .. partNumber[u] - 1 :
          /\ from[n] <= from[n + 1]
          /\ parts[u][n] = SubSeq(File, from[n] + 1, from[n + 1])
Offsets(u) == [0 .. partNumber[u] -> 0..Size]
Sending(u) ==
    /\ sending[u] \in {"idle", "open"} => read[u] = 0 /\ partNumber[u] = 0 /\ DOMAIN parts[u] = {}
    /\ sending[u] \in {"reading", "finalizing"} => \E from \in Offsets(u) : Covered(u, from)
    /\ sending[u] = "finalizing" => read[u] = Size
    /\ partNumber[u] <= read[u]
    /\ sending[u] # "ended" => object[u] = <<>> /\ uploadEnd[u] = "none"
UploadInv ==
    /\ UploadTypeOK /\ UploadIsWhole
    /\ parts \in [Uploads -> Parts]
    /\ \A u \in Uploads : Sending(u)

\* Pieces of the file.
LEMMA Piece ==
    ASSUME NEW a \in 0..Size, NEW b \in a..Size
    PROVE  LET p == SubSeq(File, a + 1, b)
           IN  /\ p \in Seq(1..Size) /\ Len(p) = b - a
               /\ \A i \in 1 .. b - a : p[i] = a + i
<1>1. File \in Seq(1..Size) /\ Len(File) = Size /\ \A i \in 1..Size : File[i] = i
  BY UploadAssumption DEF File
<1>2. a + 1 \in 1 .. Size + 1 /\ b \in 0..Size /\ Size \in Nat
  BY UploadAssumption
<1> HIDE DEF File
<1> QED
  BY <1>1, <1>2

\* Two sequences of one length with the same elements are the same.
LEMMA SameSequence ==
    ASSUME NEW S, NEW s \in Seq(S), NEW t \in Seq(S), Len(s) = Len(t),
           \A i \in 1..Len(s) : s[i] = t[i]
    PROVE  s = t
OBVIOUS

\* What is where in two sequences, one after the other.
LEMMA Concatenation ==
    ASSUME NEW S, NEW s \in Seq(S), NEW t \in Seq(S)
    PROVE  /\ s \o t \in Seq(S) /\ Len(s \o t) = Len(s) + Len(t)
           /\ \A i \in 1 .. Len(s) + Len(t) :
                 (s \o t)[i] = IF i <= Len(s) THEN s[i] ELSE t[i - Len(s)]
OBVIOUS

\* A piece of the file and the rest of it.
LEMMA TwoPieces ==
    ASSUME NEW a \in 0..Size, NEW b \in a..Size
    PROVE  SubSeq(File, a + 1, b) \o SubSeq(File, b + 1, Size) = SubSeq(File, a + 1, Size)
<1> DEFINE s == SubSeq(File, a + 1, b)
           t == SubSeq(File, b + 1, Size)
           w == SubSeq(File, a + 1, Size)
<1>1. b \in 0..Size /\ Size \in b..Size /\ Size \in a..Size
  BY UploadAssumption
<1>2. s \in Seq(1..Size) /\ Len(s) = b - a /\ \A i \in 1 .. b - a : s[i] = a + i
  BY Piece
<1>3. t \in Seq(1..Size) /\ Len(t) = Size - b /\ \A i \in 1 .. Size - b : t[i] = b + i
  BY <1>1, Piece
<1>4. w \in Seq(1..Size) /\ Len(w) = Size - a /\ \A i \in 1 .. Size - a : w[i] = a + i
  BY <1>1, Piece
<1> HIDE DEF s, t, w
<1>5. /\ s \o t \in Seq(1..Size) /\ Len(s \o t) = (b - a) + (Size - b)
      /\ \A i \in 1 .. (b - a) + (Size - b) :
            (s \o t)[i] = IF i <= b - a THEN s[i] ELSE t[i - (b - a)]
  <2>1. b - a \in Nat /\ Size - b \in Nat
    BY <1>1
  <2>2. /\ s \o t \in Seq(1..Size) /\ Len(s \o t) = Len(s) + Len(t)
        /\ \A i \in 1 .. Len(s) + Len(t) :
              (s \o t)[i] = IF i <= Len(s) THEN s[i] ELSE t[i - Len(s)]
    <3>1. s \in Seq(1..Size) /\ t \in Seq(1..Size)
      BY <1>2, <1>3
    <3> QED
      BY <3>1, Concatenation
  <2>3. Len(s) = b - a /\ Len(t) = Size - b
    BY <1>2, <1>3
  <2> QED
    BY <2>2, <2>3
<1>6. \A i \in 1 .. Size - a : (s \o t)[i] = w[i]
  <2> TAKE i \in 1 .. Size - a
  <2>1. (b - a) + (Size - b) = Size - a
    BY <1>1
  <2>2. CASE i <= b - a
    <3>1. i \in 1 .. b - a
      BY <1>1, <2>2
    <3>2. s[i] = a + i /\ w[i] = a + i
      BY <1>2, <1>4, <3>1
    <3>3. (s \o t)[i] = s[i]
      BY <1>5, <2>1, <2>2
    <3> QED
      BY <3>2, <3>3
  <2>3. CASE i > b - a
    <3>1. i - (b - a) \in 1 .. Size - b /\ b + (i - (b - a)) = a + i
      BY <1>1, <2>3
    <3>2. t[i - (b - a)] = b + (i - (b - a)) /\ w[i] = a + i
      BY <1>3, <1>4, <3>1
    <3>3. (s \o t)[i] = t[i - (b - a)]
      <4>1. ~(i <= b - a)
        BY <1>1, <2>3
      <4> QED
        BY <1>5, <2>1, <4>1
    <3> QED
      BY <3>1, <3>2, <3>3
  <2> QED
    <3>1. i <= b - a \/ i > b - a
      BY <1>1
    <3> QED
      BY <2>2, <2>3, <3>1
<1>7. Len(s \o t) = Size - a
  BY <1>1, <1>5
<1>8. s \o t = w
  BY <1>4, <1>5, <1>6, <1>7, SameSequence
<1> QED
  BY <1>8 DEF s, t, w

\* What the service puts together of parts that are the file, is the file.
\* Backwards from the last part: the parts from n on make the rest of it.
LEMMA JoinedIsFile ==
    ASSUME NEW u \in Uploads, partNumber[u] \in Nat, read[u] = Size,
           NEW from \in Offsets(u), Covered(u, from)
    PROVE  Joined(u) = File
<1> DEFINE N == partNumber[u]
           Tails(f) == [n \in Nat |-> IF n \in DOMAIN parts[u] THEN parts[u][n] \o f[n + 1] ELSE <<>>]
           f == CHOOSE h : h = Tails(h)
           g == [n \in Nat |-> IF n < N THEN SubSeq(File, from[n] + 1, Size) ELSE <<>>]
<1>1. Joined(u) = f[0]
  BY Zenon DEF Joined
<1>2. /\ DOMAIN parts[u] = 0 .. N - 1 /\ from[N] = Size /\ from[0] = 0
      /\ from \in [0..N -> 0..Size]
      /\ \A n \in 0 .. N - 1 : from[n] <= from[n + 1]
                              /\ parts[u][n] = SubSeq(File, from[n] + 1, from[n + 1])
  BY DEF Covered, Offsets
<1> HIDE DEF N
<1>3. N \in Nat /\ Size \in Nat
  BY UploadAssumption DEF N
<1>4. ASSUME NEW n \in 0 .. N - 1
      PROVE  g[n] = parts[u][n] \o g[n + 1]
  <2>1. n \in Nat /\ n + 1 \in Nat /\ n + 1 \in 0..N /\ n \in 0..N /\ n < N
    BY <1>3
  <2>2. from[n] \in 0..Size /\ from[n + 1] \in from[n] .. Size
    BY <1>2, <1>3, <2>1
  <2>3. g[n] = SubSeq(File, from[n] + 1, Size)
    BY <2>1
  <2>4. g[n] = parts[u][n] \o SubSeq(File, from[n + 1] + 1, Size)
    BY <1>2, <2>2, <2>3, TwoPieces
  <2>5. CASE n + 1 < N
    BY <2>1, <2>4, <2>5
  <2>6. CASE n + 1 = N
    <3>1. g[n + 1] = <<>>
      BY <2>1, <2>6
    <3>2. SubSeq(File, Size + 1, Size) = <<>>
      <4>1. Size \in 0..Size /\ Size \in Size..Size /\ Size - Size = 0
        BY <1>3
      <4>2. /\ SubSeq(File, Size + 1, Size) \in Seq(1..Size)
            /\ Len(SubSeq(File, Size + 1, Size)) = 0
        BY <4>1, Piece
      <4> QED
        BY <4>2
    <3> QED
      BY <1>2, <2>4, <2>6, <3>1, <3>2
  <2>7. n + 1 < N \/ n + 1 = N
    BY <1>3
  <2> HIDE DEF g
  <2> QED
    BY <2>5, <2>6, <2>7
<1>5. g = Tails(g)
  <2>1. ASSUME NEW n \in Nat
        PROVE  g[n] = IF n \in DOMAIN parts[u] THEN parts[u][n] \o g[n + 1] ELSE <<>>
    <3>1. CASE n < N
      <4>1. n \in 0 .. N - 1
        BY <1>3, <3>1
      <4> HIDE DEF g
      <4> QED
        BY <1>2, <1>4, <4>1
    <3>2. CASE ~(n < N)
      <4>1. n \notin 0 .. N - 1
        BY <1>3, <3>2
      <4> QED
        BY <1>2, <3>2, <4>1
    <3> QED
      BY <3>1, <3>2
  <2>2. g = [n \in Nat |-> g[n]]
    OBVIOUS
  <2> HIDE DEF g
  <2> QED
    BY <2>1, <2>2
<1>6. f = Tails(f)
  <2> HIDE DEF Tails, g
  <2> QED
    BY <1>5, Zenon
<1>7. \A n \in 0 .. N - 1 : f[n] = parts[u][n] \o f[n + 1]
  <2> HIDE DEF f
  <2>1. \A n \in Nat : f[n] = IF n \in DOMAIN parts[u] THEN parts[u][n] \o f[n + 1] ELSE <<>>
    BY <1>6
  <2> TAKE n \in 0 .. N - 1
  <2>2. n \in Nat /\ n \in DOMAIN parts[u]
    BY <1>2, <1>3
  <2> QED
    BY <2>1, <2>2
<1>8. f[N] = <<>> /\ g[N] = <<>>
  <2>1. N \notin 0 .. N - 1 /\ N \in Nat /\ ~(N < N)
    BY <1>3
  <2>2. g[N] = <<>>
    BY <2>1
  <2> HIDE DEF f
  <2>3. f[N] = IF N \in DOMAIN parts[u] THEN parts[u][N] \o f[N + 1] ELSE <<>>
    BY <1>6, <2>1
  <2> QED
    BY <1>2, <2>1, <2>2, <2>3
<1> HIDE DEF f, g, Tails
<1>9. \A n \in 0..N : f[n] = g[n]
  <2> DEFINE Wrong == {k \in 0..N : f[N - k] # g[N - k]}
  <2> SUFFICES ASSUME Wrong # {}
               PROVE  FALSE
    <3>1. ASSUME Wrong = {}, NEW n \in 0..N
          PROVE  f[n] = g[n]
      <4>1. N - n \in 0..N /\ N - (N - n) = n
        BY <1>3
      <4> QED
        BY <3>1, <4>1
    <3> QED
      BY <3>1
  <2>1. Wrong \in SUBSET Nat
    OBVIOUS
  <2> HIDE DEF Wrong
  <2>2. PICK k \in Wrong : \A m \in Wrong : k <= m
    BY <2>1, LeastNumber
  <2> USE DEF Wrong
  <2>3. k # 0 /\ k \in 0..N
    BY <1>3, <1>8
  <2>4. k - 1 \in 0..N /\ N - k \in 0 .. N - 1 /\ (N - k) + 1 = N - (k - 1)
    BY <1>3, <2>3
  <2>5. f[N - (k - 1)] = g[N - (k - 1)]
    BY <2>2, <2>3, <2>4
  <2> QED
    BY <1>4, <1>7, <2>2, <2>4, <2>5
<1>10. SubSeq(File, 1, Size) = File
  <2>1. File \in Seq(1..Size) /\ Len(File) = Size /\ \A i \in 1..Size : File[i] = i
    BY UploadAssumption DEF File
  <2>2. 0 \in 0..Size /\ Size \in 0..Size /\ 0 + 1 = 1 /\ Size - 0 = Size
    BY <1>3
  <2>3. /\ SubSeq(File, 1, Size) \in Seq(1..Size) /\ Len(SubSeq(File, 1, Size)) = Size
        /\ \A i \in 1..Size : SubSeq(File, 1, Size)[i] = 0 + i
    <3>1. /\ SubSeq(File, 0 + 1, Size) \in Seq(1..Size)
          /\ Len(SubSeq(File, 0 + 1, Size)) = Size - 0
          /\ \A i \in 1 .. Size - 0 : SubSeq(File, 0 + 1, Size)[i] = 0 + i
      BY <2>2, Piece
    <3> QED
      BY <2>2, <3>1
  <2> HIDE DEF File
  <2>4. \A i \in 1..Size : SubSeq(File, 1, Size)[i] = File[i]
    BY <2>1, <2>3
  <2> QED
    BY <2>1, <2>3, <2>4, SameSequence
<1>11. g[0] = File
  <2>1. CASE N = 0
    <3>1. Size = 0
      BY <1>2, <2>1
    <3>2. File = <<>>
      BY <3>1 DEF File
    <3> QED
      BY <1>8, <2>1, <3>2
  <2>2. CASE N # 0
    <3>1. 0 \in Nat /\ 0 < N
      BY <1>3, <2>2
    <3>2. g[0] = SubSeq(File, from[0] + 1, Size)
      BY <3>1 DEF g
    <3> QED
      BY <1>2, <1>10, <3>2
  <2> QED
    BY <2>1, <2>2
<1> QED
  BY <1>1, <1>3, <1>9, <1>11

-----------------------------------------------------------------------------

\* A step of one upload leaves the others as they are.
LEMMA UploadStepOfOne ==
    ASSUME UploadInv, UploadTypeOK', NEW u \in Uploads,
           parts' \in [Uploads -> Parts], Sending(u)',
           object'[u] \in {<<>>, File}, uploadEnd'[u] = "ok" => object'[u] = File,
           \A v \in Uploads : v # u =>
              /\ sending'[v] = sending[v] /\ uploadEnd'[v] = uploadEnd[v]
              /\ read'[v] = read[v] /\ partNumber'[v] = partNumber[v]
              /\ parts'[v] = parts[v] /\ object'[v] = object[v]
    PROVE  UploadInv'
<1>1. UploadIsWhole'
  BY DEF UploadInv, UploadIsWhole
<1>2. ASSUME NEW v \in Uploads, v # u
      PROVE  Sending(v)'
  BY <1>2 DEF UploadInv, Sending, Covered, Offsets
<1> QED
  BY <1>1, <1>2 DEF UploadInv

\* What UploadInv says of one upload, for the lemmas below.
LEMMA UploadTypes ==
    ASSUME UploadInv, NEW u \in Uploads
    PROVE  /\ sending[u] \in {"idle", "open", "reading", "finalizing", "ended"}
           /\ uploadEnd[u] \in {"none", "ok", "error"}
           /\ read[u] \in 0..Size /\ partNumber[u] \in 0..Size
           /\ parts[u] \in Parts /\ Size \in Nat
           /\ Sending(u) /\ object[u] \in {<<>>, File}
BY UploadAssumption DEF UploadInv, UploadTypeOK, UploadIsWhole

\* The first read begins at the start of the file.
LEMMA NothingSent ==
    ASSUME NEW u \in Uploads, read[u] = 0, partNumber[u] = 0, DOMAIN parts[u] = {}
    PROVE  \E from \in Offsets(u) : Covered(u, from)
<1> DEFINE from == [n \in 0..0 |-> 0]
<1>1. from \in Offsets(u)
  BY UploadAssumption DEF Offsets
<1>2. Covered(u, from)
  BY DEF Covered
<1> QED
  BY <1>1, <1>2

\* One more part, of what was read since the last.
LEMMA StoredPart ==
    ASSUME UploadInv, NEW u \in Uploads, read[u] < Size,
           NEW to \in read[u] + 1 .. Size, Stored(u, to, partNumber[u]),
           sending[u] = "reading"
    PROVE  /\ parts' \in [Uploads -> Parts]
           /\ \A v \in Uploads : v # u => parts'[v] = parts[v]
           /\ parts'[u] = [m \in DOMAIN parts[u] \cup {partNumber[u]} |->
                              IF m = partNumber[u] THEN SubSeq(File, read[u] + 1, to)
                              ELSE parts[u][m]]
<1> DEFINE D == DOMAIN parts[u] \cup {partNumber[u]}
           P == [m \in D |-> IF m = partNumber[u] THEN SubSeq(File, read[u] + 1, to)
                              ELSE parts[u][m]]
<1>1. /\ read[u] \in 0..Size /\ partNumber[u] \in 0..Size /\ parts[u] \in Parts
      /\ Size \in Nat
  BY UploadTypes
<1>2. DOMAIN parts[u] \in SUBSET (0..Size) /\ parts[u] \in [DOMAIN parts[u] -> Seq(1..Size)]
  BY <1>1 DEF Parts
<1>3. to \in read[u] .. Size
  BY <1>1
<1>4. SubSeq(File, read[u] + 1, to) \in Seq(1..Size)
  BY <1>1, <1>3, Piece
<1>5. P \in [D -> Seq(1..Size)] /\ D \in SUBSET (0..Size)
  BY <1>1, <1>2, <1>4
<1>6. P \in Parts
  BY <1>5 DEF Parts
<1>7. parts' = [parts EXCEPT ![u] = P]
  BY DEF Stored
<1> HIDE DEF P
<1>8. parts \in [Uploads -> Parts]
  BY DEF UploadInv
<1>9. parts'[u] = P
  BY <1>7, <1>8
<1>10. /\ parts' \in [Uploads -> Parts]
       /\ \A v \in Uploads : v # u => parts'[v] = parts[v]
  BY <1>6, <1>7, <1>8
<1> QED
  BY <1>9, <1>10 DEF P

\* The part that is sent begins where the last one ended.
LEMMA SendPartKeeps ==
    ASSUME UploadInv, NEW u \in Uploads, SendPart(u)
    PROVE  UploadInv'
<1>1. PICK to \in read[u] + 1 .. Size :
         Stored(u, to, partNumber[u]) /\ read' = [read EXCEPT ![u] = to]
  BY DEF SendPart
<1>2. /\ sending[u] = "reading" /\ read[u] < Size
      /\ partNumber' = [partNumber EXCEPT ![u] = @ + 1]
      /\ UNCHANGED <<sending, uploadEnd, object>>
  BY DEF SendPart
<1>3. /\ read[u] \in 0..Size /\ partNumber[u] \in 0..Size /\ parts[u] \in Parts
      /\ Size \in Nat /\ Sending(u) /\ object[u] \in {<<>>, File}
  BY UploadTypes
<1>4. /\ partNumber[u] <= read[u] /\ object[u] = <<>> /\ uploadEnd[u] = "none"
  BY <1>2, <1>3 DEF Sending
<1>5. PICK from \in Offsets(u) : Covered(u, from)
  BY <1>2, <1>3 DEF Sending
<1>6. /\ parts' \in [Uploads -> Parts]
      /\ \A v \in Uploads : v # u => parts'[v] = parts[v]
      /\ parts'[u] = [m \in DOMAIN parts[u] \cup {partNumber[u]} |->
                         IF m = partNumber[u] THEN SubSeq(File, read[u] + 1, to)
                         ELSE parts[u][m]]
  BY <1>1, <1>2, StoredPart
<1>7. read \in [Uploads -> 0..Size] /\ partNumber \in [Uploads -> 0..Size]
  BY DEF UploadInv, UploadTypeOK
<1>8. /\ partNumber[u] + 1 \in 0..Size /\ partNumber[u] + 1 <= to /\ to \in 0..Size
      /\ read[u] <= to /\ partNumber[u] \in Nat
  BY <1>2, <1>3, <1>4
<1>9. /\ read' \in [Uploads -> 0..Size] /\ partNumber' \in [Uploads -> 0..Size]
      /\ read'[u] = to /\ partNumber'[u] = partNumber[u] + 1
      /\ \A v \in Uploads : v # u => read'[v] = read[v] /\ partNumber'[v] = partNumber[v]
  BY <1>1, <1>2, <1>7, <1>8
<1>10. \A v \in Uploads : DOMAIN parts'[v] \subseteq 0..Size
  <2> TAKE v \in Uploads
  <2>1. parts'[v] \in Parts
    BY <1>6
  <2> QED
    BY <2>1 DEF Parts
<1>11. UploadTypeOK'
  BY <1>2, <1>9, <1>10 DEF UploadInv, UploadTypeOK
<1> DEFINE n == partNumber[u]
<1>12. /\ from \in [0..n -> 0..Size] /\ from[0] = 0 /\ from[n] = read[u]
       /\ DOMAIN parts[u] = 0 .. n - 1
       /\ \A m \in 0 .. n - 1 : from[m] <= from[m + 1]
                               /\ parts[u][m] = SubSeq(File, from[m] + 1, from[m + 1])
  BY <1>5 DEF Covered, Offsets
<1> HIDE DEF n
<1>13. n \in Nat
  BY <1>8 DEF n
<1>14. PICK next \in [0 .. n + 1 -> 0..Size] :
          next[0] = 0 /\ next[n + 1] = to /\ \A m \in 0..n : next[m] = from[m]
  <2> DEFINE longer == [m \in 0 .. n + 1 |-> IF m = n + 1 THEN to ELSE from[m]]
  <2>1. /\ longer \in [0 .. n + 1 -> 0..Size] /\ longer[0] = 0 /\ longer[n + 1] = to
        /\ \A m \in 0..n : longer[m] = from[m]
    BY <1>8, <1>12, <1>13
  <2> HIDE DEF longer
  <2> QED
    BY <2>1
<1>15. parts'[u] = [m \in 0..n |-> IF m = n THEN SubSeq(File, from[n] + 1, to) ELSE parts[u][m]]
  <2>1. (0 .. n - 1) \cup {n} = 0..n
    BY <1>13
  <2> QED
    BY <1>6, <1>12, <2>1 DEF n
<1>16. ASSUME NEW m \in 0..n
       PROVE  next[m] <= next[m + 1] /\ parts'[u][m] = SubSeq(File, next[m] + 1, next[m + 1])
  <2>1. CASE m = n
    BY <1>8, <1>12, <1>13, <1>14, <1>15, <2>1
  <2>2. CASE m # n
    <3>1. m \in 0 .. n - 1 /\ m + 1 \in 0..n
      BY <1>13, <2>2
    <3> QED
      BY <1>12, <1>14, <1>15, <2>2, <3>1
  <2> QED
    BY <2>1, <2>2
<1>17. next \in Offsets(u)' /\ Covered(u, next)'
  <2>1. partNumber'[u] = n + 1 /\ (n + 1) - 1 = n
    BY <1>9, <1>13 DEF n
  <2>2. DOMAIN parts'[u] = 0..n
    BY <1>15
  <2>3. next \in Offsets(u)'
    BY <1>14, <2>1 DEF Offsets
  <2>4. next[partNumber'[u]] = read'[u]
    BY <1>9, <1>14, <2>1
  <2>5. 0 .. partNumber'[u] - 1 = 0..n
    BY <2>1
  <2>6. \A m \in 0 .. partNumber'[u] - 1 :
           next[m] <= next[m + 1] /\ parts'[u][m] = SubSeq(File, next[m] + 1, next[m + 1])
    BY <1>16, <2>5
  <2> QED
    BY <1>14, <2>2, <2>3, <2>4, <2>5, <2>6 DEF Covered
<1>18. Sending(u)'
  <2>1. sending'[u] = "reading" /\ object'[u] = <<>> /\ uploadEnd'[u] = "none"
    BY <1>2, <1>4
  <2>2. partNumber'[u] <= read'[u]
    BY <1>8, <1>9
  <2>3. \E h \in Offsets(u)' : Covered(u, h)'
    BY <1>17
  <2> QED
    BY <2>1, <2>2, <2>3 DEF Sending
<1>19. object'[u] \in {<<>>, File} /\ (uploadEnd'[u] = "ok" => object'[u] = File)
  BY <1>2, <1>4
<1> QED
  BY <1>2, <1>6, <1>9, <1>11, <1>18, <1>19, UploadStepOfOne

\* Where nothing was sent, nothing more is stored.
LEMMA MovesKeep ==
    ASSUME UploadInv, NEW u \in Uploads, StartUpload(u) \/ OpenFile(u) \/ EndOfFile(u)
    PROVE  UploadInv'
<1>1. /\ sending[u] \in {"idle", "open", "reading", "finalizing", "ended"}
      /\ uploadEnd[u] \in {"none", "ok", "error"} /\ Sending(u)
      /\ object[u] \in {<<>>, File}
  BY UploadTypes
<1>2. sending[u] # "ended"
  BY DEF StartUpload, OpenFile, EndOfFile
<1>3. UNCHANGED <<read, partNumber, parts, object>>
  BY DEF StartUpload, OpenFile, EndOfFile
<1>4. /\ object[u] = <<>> /\ uploadEnd[u] = "none" /\ partNumber[u] <= read[u]
  BY <1>1, <1>2 DEF Sending
<1>5. sending \in [Uploads -> {"idle", "open", "reading", "finalizing", "ended"}]
      /\ uploadEnd \in [Uploads -> {"none", "ok", "error"}]
  BY DEF UploadInv, UploadTypeOK
<1>6. CASE Ends(u, "error")
  <2>1. /\ sending'[u] = "ended" /\ uploadEnd'[u] = "error"
        /\ sending' \in [Uploads -> {"idle", "open", "reading", "finalizing", "ended"}]
        /\ uploadEnd' \in [Uploads -> {"none", "ok", "error"}]
        /\ \A v \in Uploads : v # u => sending'[v] = sending[v] /\ uploadEnd'[v] = uploadEnd[v]
    BY <1>5, <1>6 DEF Ends
  <2>2. UploadTypeOK'
    BY <1>3, <2>1 DEF UploadInv, UploadTypeOK
  <2>3. Sending(u)'
    BY <1>3, <1>4, <2>1 DEF Sending
  <2>4. parts' \in [Uploads -> Parts]
    BY <1>3 DEF UploadInv
  <2> QED
    BY <1>1, <1>3, <2>1, <2>2, <2>3, <2>4, UploadStepOfOne
<1>7. ASSUME NEW place \in {"open", "reading", "finalizing"}, GoesTo(u, place),
             place \in {"reading", "finalizing"} => \E from \in Offsets(u) : Covered(u, from),
             place = "open" => read[u] = 0 /\ partNumber[u] = 0 /\ DOMAIN parts[u] = {},
             place = "finalizing" => read[u] = Size
      PROVE  UploadInv'
  <2>1. /\ sending'[u] = place /\ uploadEnd' = uploadEnd
        /\ sending' \in [Uploads -> {"idle", "open", "reading", "finalizing", "ended"}]
        /\ \A v \in Uploads : v # u => sending'[v] = sending[v]
    BY <1>5, <1>7 DEF GoesTo
  <2>2. UploadTypeOK'
    BY <1>3, <2>1 DEF UploadInv, UploadTypeOK
  <2>3. (\E from \in Offsets(u) : Covered(u, from)) => (\E from \in Offsets(u) : Covered(u, from))'
    BY <1>3 DEF Offsets, Covered
  <2>4. Sending(u)'
    BY <1>3, <1>4, <1>7, <2>1, <2>3 DEF Sending
  <2>5. parts' \in [Uploads -> Parts]
    BY <1>3 DEF UploadInv
  <2> QED
    BY <1>1, <1>3, <1>4, <2>1, <2>2, <2>4, <2>5, UploadStepOfOne
<1>8. CASE StartUpload(u)
  <2>1. sending[u] = "idle" /\ (GoesTo(u, "open") \/ Ends(u, "error"))
    BY <1>8 DEF StartUpload
  <2>2. read[u] = 0 /\ partNumber[u] = 0 /\ DOMAIN parts[u] = {}
    BY <1>1, <2>1 DEF Sending
  <2> QED
    BY <1>6, <1>7, <2>1, <2>2
<1>9. CASE OpenFile(u)
  <2>1. sending[u] = "open" /\ (GoesTo(u, "reading") \/ Ends(u, "error"))
    BY <1>9 DEF OpenFile
  <2>2. read[u] = 0 /\ partNumber[u] = 0 /\ DOMAIN parts[u] = {}
    BY <1>1, <2>1 DEF Sending
  <2>3. \E from \in Offsets(u) : Covered(u, from)
    BY <2>2, NothingSent
  <2> QED
    BY <1>6, <1>7, <2>1, <2>3
<1>10. CASE EndOfFile(u)
  <2>1. sending[u] = "reading" /\ read[u] = Size /\ GoesTo(u, "finalizing")
    BY <1>10 DEF EndOfFile
  <2>2. \E from \in Offsets(u) : Covered(u, from)
    BY <1>1, <2>1 DEF Sending
  <2> QED
    BY <1>7, <2>1, <2>2
<1> QED
  BY <1>8, <1>9, <1>10

\* A request that fails ends the upload, whatever of it was stored.
LEMMA PartFailsKeeps ==
    ASSUME UploadInv, NEW u \in Uploads, PartFails(u)
    PROVE  UploadInv'
<1>1. /\ sending[u] = "reading" /\ read[u] < Size /\ Ends(u, "error")
      /\ UNCHANGED <<read, partNumber, object>>
  BY DEF PartFails
<1>2. parts' \in [Uploads -> Parts] /\ \A v \in Uploads : v # u => parts'[v] = parts[v]
  <2>1. CASE UNCHANGED parts
    BY <2>1 DEF UploadInv
  <2>2. CASE \E to \in read[u] + 1 .. Size : Stored(u, to, partNumber[u])
    BY <1>1, <2>2, StoredPart
  <2> QED
    BY <2>1, <2>2 DEF PartFails
<1>3. /\ Sending(u) /\ object[u] \in {<<>>, File}
  BY UploadTypes
<1>4. partNumber[u] <= read[u]
  BY <1>3 DEF Sending
<1>5. /\ sending'[u] = "ended" /\ uploadEnd'[u] = "error"
      /\ sending' \in [Uploads -> {"idle", "open", "reading", "finalizing", "ended"}]
      /\ uploadEnd' \in [Uploads -> {"none", "ok", "error"}]
      /\ \A v \in Uploads : v # u => sending'[v] = sending[v] /\ uploadEnd'[v] = uploadEnd[v]
  BY <1>1 DEF Ends, UploadInv, UploadTypeOK
<1>6. \A v \in Uploads : DOMAIN parts'[v] \subseteq 0..Size
  <2> TAKE v \in Uploads
  <2>1. parts'[v] \in Parts
    BY <1>2
  <2> QED
    BY <2>1 DEF Parts
<1>7. UploadTypeOK'
  BY <1>1, <1>5, <1>6 DEF UploadInv, UploadTypeOK
<1>8. Sending(u)'
  BY <1>1, <1>4, <1>5 DEF Sending
<1> QED
  BY <1>1, <1>2, <1>3, <1>5, <1>7, <1>8, UploadStepOfOne

\* The service joins the parts, all of them.
LEMMA FinalizeKeeps ==
    ASSUME UploadInv, NEW u \in Uploads, Finalize(u)
    PROVE  UploadInv'
<1>1. /\ sending[u] = "finalizing" /\ UNCHANGED <<read, partNumber, parts>>
  BY DEF Finalize
<1>2. /\ Sending(u) /\ object[u] \in {<<>>, File} /\ partNumber[u] \in 0..Size /\ Size \in Nat
  BY UploadTypes
<1>3. partNumber[u] <= read[u] /\ read[u] = Size
  BY <1>1, <1>2 DEF Sending
<1>4. PICK from \in Offsets(u) : Covered(u, from)
  BY <1>1, <1>2 DEF Sending
<1>5. Joined(u) = File
  <2>1. partNumber[u] \in Nat
    BY <1>2
  <2> QED
    BY <1>3, <1>4, <2>1, JoinedIsFile
<1>6. PICK how \in {"ok", "error"} :
         /\ Ends(u, how)
         /\ \/ object' = [object EXCEPT ![u] = File]
            \/ how = "error" /\ UNCHANGED object
  BY <1>5 DEF Finalize
<1>7. /\ sending'[u] = "ended" /\ uploadEnd'[u] = how
      /\ sending' \in [Uploads -> {"idle", "open", "reading", "finalizing", "ended"}]
      /\ uploadEnd' \in [Uploads -> {"none", "ok", "error"}]
      /\ \A v \in Uploads : v # u => sending'[v] = sending[v] /\ uploadEnd'[v] = uploadEnd[v]
  BY <1>6 DEF Ends, UploadInv, UploadTypeOK
<1>8. File \in Seq(1..Size)
  BY UploadAssumption DEF File
<1> HIDE DEF File
<1>9. /\ object' \in [Uploads -> Seq(1..Size)] /\ object'[u] \in {<<>>, File}
      /\ how = "ok" => object'[u] = File
      /\ \A v \in Uploads : v # u => object'[v] = object[v]
  BY <1>2, <1>6, <1>8 DEF UploadInv, UploadTypeOK
<1>10. UploadTypeOK'
  BY <1>1, <1>7, <1>9 DEF UploadInv, UploadTypeOK
<1>11. Sending(u)'
  BY <1>1, <1>3, <1>7 DEF Sending
<1>12. parts' \in [Uploads -> Parts]
  BY <1>1 DEF UploadInv
<1> QED
  BY <1>1, <1>7, <1>9, <1>10, <1>11, <1>12, UploadStepOfOne

LEMMA InitUpload == UploadInit => UploadInv
<1> SUFFICES ASSUME UploadInit
             PROVE  UploadInv
  OBVIOUS
<1>1. \A u \in Uploads :
         /\ sending[u] = "idle" /\ uploadEnd[u] = "none" /\ read[u] = 0 /\ partNumber[u] = 0
         /\ DOMAIN parts[u] = {} /\ object[u] = <<>>
  BY DEF UploadInit
<1>2. Size \in Nat /\ 0 \in 0..Size /\ <<>> \in Seq(1..Size) /\ [n \in {} |-> <<>>] \in Parts
  <2>1. Size \in Nat /\ 0 \in 0..Size /\ <<>> \in Seq(1..Size)
    BY UploadAssumption
  <2>2. [n \in {} |-> <<>>] \in [{} -> Seq(1..Size)] /\ {} \in SUBSET (0..Size)
    OBVIOUS
  <2> QED
    BY <2>1, <2>2 DEF Parts
<1>3. parts \in [Uploads -> Parts]
  BY <1>1, <1>2 DEF UploadInit
<1>4. UploadTypeOK
  BY <1>1, <1>2 DEF UploadInit, UploadTypeOK
<1>5. UploadIsWhole /\ \A u \in Uploads : Sending(u)
  BY <1>1 DEF UploadIsWhole, Sending
<1> QED
  BY <1>3, <1>4, <1>5 DEF UploadInv

LEMMA UploadKept ==
    ASSUME UploadInv, [UploadNext]_uploadVars
    PROVE  UploadInv'
<1>1. CASE UNCHANGED uploadVars
  <2>1. UNCHANGED <<sending, uploadEnd, read, partNumber, parts, object>>
    BY <1>1 DEF uploadVars
  <2>2. (UploadTypeOK /\ UploadIsWhole /\ parts \in [Uploads -> Parts])'
    BY <2>1 DEF UploadInv, UploadTypeOK, UploadIsWhole
  <2>3. ASSUME NEW u \in Uploads
        PROVE  Sending(u)'
    <3>1. (\E from \in Offsets(u) : Covered(u, from)) => (\E from \in Offsets(u) : Covered(u, from))'
      BY <2>1 DEF Offsets, Covered
    <3> QED
      BY <2>1, <3>1 DEF UploadInv, Sending
  <2> QED
    BY <2>2, <2>3 DEF UploadInv
<1>2. ASSUME NEW u \in Uploads, UploadStep(u)
      PROVE  UploadInv'
  BY <1>2, MovesKeep, SendPartKeeps, PartFailsKeeps, FinalizeKeeps DEF UploadStep
<1> QED
  BY <1>1, <1>2 DEF UploadNext

\* UploadIsWhole (src/src/upload.rs): a session becomes the whole file or
\* nothing.
THEOREM ObjectsAreWhole == UploadSpec => []UploadIsWhole
<1>1. UploadInv => UploadIsWhole
  BY DEF UploadInv
<1>2. UploadInv /\ [UploadNext]_uploadVars => UploadInv'
  BY UploadKept
<1> QED
  BY <1>1, <1>2, InitUpload, PTL DEF UploadSpec
-----------------------------------------------------------------------------
(***************************************************************************)
(* load-fixtures.                                                          *)
(***************************************************************************)

\* Fixtures are taken in their order, each is reported or loaded, and only a
\* summary that names none as not loaded is a success.
Taken(l) ==
    /\ \A f \in rest[l], g \in Lines : f <= g => g \in rest[l]
    /\ loaded[l] \cup notLoaded[l] = Lines \ rest[l]
    /\ stage[l] = "idle" => rest[l] = Lines
    /\ stage[l] \in {"dropping", "creating", "loading"} => rest[l] # {}
    /\ ended[l] # "none" => stage[l] = "ended"
    /\ ended[l] = "ok" => rest[l] = {} /\ notLoaded[l] = {}

\* Its database is dropped already, and not loaded yet.
Remade(l, d) == stage[l] \in {"creating", "loading"} /\ d = DbOf(NextFixture(l))

\* The last fixture an invocation took for a database is what the database
\* holds, unless it is reported or the database is being remade.
Filled(l) ==
    /\ \A d \in Databases : \A f \in DoneFor(l, d) :
          \/ \E g \in DoneFor(l, d) : ~(g <= f)
          \/ f \in notLoaded[l]
          \/ db[d].exists /\ db[d].rows = {<<l, f>>}
          \/ Remade(l, d)
    /\ stage[l] = "loading" => db[DbOf(NextFixture(l))].rows = {}
FixturesInv ==
    /\ FixturesTypeOK
    /\ \A l \in Loaders : Taken(l)
    /\ latest \notin shared => Running \subseteq {latest} /\ Filled(latest)

\* There is a next fixture, and it is the first that is left.
LEMMA NextIsFirst ==
    ASSUME FixturesTypeOK, NEW l \in Loaders, rest[l] # {}
    PROVE  /\ NextFixture(l) \in rest[l] /\ NextFixture(l) \in Lines
           /\ \A g \in rest[l] : NextFixture(l) <= g
           /\ DbOf(NextFixture(l)) \in Databases
<1>1. rest[l] \in SUBSET Lines /\ Lines \in SUBSET Nat
  BY FixturesAssumption DEF FixturesTypeOK
<1>2. \E f \in rest[l] : \A g \in rest[l] : f <= g
  BY <1>1, LeastNumber
<1>3. NextFixture(l) \in rest[l] /\ \A g \in rest[l] : NextFixture(l) <= g
  BY <1>2 DEF NextFixture
<1> QED
  BY <1>1, <1>3, FixturesAssumption

\* Of the fixtures taken there is a last one.
LEMMA LastTaken ==
    ASSUME NEW T \in SUBSET Lines, T # {}
    PROVE  \E f \in T : \A g \in T : g <= f
<1> DEFINE N == Len(Fixtures)
           Gaps == {N - f : f \in T}
<1>1. N \in Nat /\ Lines = 1..N
  BY FixturesAssumption
<1> HIDE DEF N
<1>2. Gaps \in SUBSET Nat /\ Gaps # {}
  <2>1. \A f \in T : N - f \in Nat
    BY <1>1
  <2> QED
    BY <2>1
<1> HIDE DEF Gaps
<1>3. PICK k \in Gaps : \A m \in Gaps : k <= m
  BY <1>2, LeastNumber
<1>4. PICK f \in T : k = N - f
  BY <1>3 DEF Gaps
<1>5. \A g \in T : N - f <= N - g
  BY <1>3, <1>4 DEF Gaps
<1>6. T \in SUBSET Int
  BY <1>1
<1>7. \A g \in T : g <= f
  BY <1>1, <1>5, <1>6
<1> QED
  BY <1>7

\* The last fixture of a database is in it, or in the report.
LEMMA AccountedByInv == FixturesInv => Accounted
<1> SUFFICES ASSUME FixturesInv, NEW l \in Loaders \ shared, stage[l] = "ended", latest = l
             PROVE  /\ \A d \in Databases : DoneFor(l, d) # {} =>
                          LET last == CHOOSE f \in DoneFor(l, d) : \A g \in DoneFor(l, d) : g <= f
                          IN  \/ last \in notLoaded[l]
                              \/ db[d].exists /\ db[d].rows = {<<l, last>>}
                    /\ ended[l] = "ok" => rest[l] = {} /\ loaded[l] = Lines
  BY DEF Accounted
<1>1. Taken(l) /\ Filled(l)
  BY DEF FixturesInv
<1>2. ASSUME NEW d \in Databases, DoneFor(l, d) # {}
      PROVE  LET last == CHOOSE f \in DoneFor(l, d) : \A g \in DoneFor(l, d) : g <= f
             IN  \/ last \in notLoaded[l]
                 \/ db[d].exists /\ db[d].rows = {<<l, last>>}
  <2> DEFINE last == CHOOSE f \in DoneFor(l, d) : \A g \in DoneFor(l, d) : g <= f
  <2>1. DoneFor(l, d) \in SUBSET Lines
    BY DEF DoneFor
  <2>2. \E f \in DoneFor(l, d) : \A g \in DoneFor(l, d) : g <= f
    BY <1>2, <2>1, LastTaken
  <2>3. last \in DoneFor(l, d) /\ \A g \in DoneFor(l, d) : g <= last
    BY <2>2
  <2> HIDE DEF last
  <2>4. ~Remade(l, d)
    BY DEF Remade
  <2>5. \/ last \in notLoaded[l]
        \/ db[d].exists /\ db[d].rows = {<<l, last>>}
    BY <1>1, <2>3, <2>4 DEF Filled
  <2> QED
    BY <2>5 DEF last
<1>3. ended[l] = "ok" => rest[l] = {} /\ loaded[l] = Lines
  BY <1>1 DEF Taken
<1> QED
  BY <1>2, <1>3

-----------------------------------------------------------------------------

\* What FixturesInv says of one invocation, for the lemmas below.
LEMMA FixturesTyped ==
    ASSUME FixturesInv
    PROVE  /\ stage \in [Loaders -> Stages] /\ ended \in [Loaders -> {"none", "ok", "error"}]
           /\ rest \in [Loaders -> SUBSET Lines] /\ loaded \in [Loaders -> SUBSET Lines]
           /\ notLoaded \in [Loaders -> SUBSET Lines]
           /\ \A l \in Loaders : Taken(l)
           /\ latest \in Loaders
BY DEF FixturesInv, FixturesTypeOK

\* The next fixture is done with, and reported or loaded.
LEMMA TakenNext ==
    ASSUME FixturesInv, NEW l \in Loaders, rest[l] # {},
           loaded'[l] \cup notLoaded'[l] = loaded[l] \cup notLoaded[l] \cup {NextFixture(l)},
           rest'[l] = rest[l] \ {NextFixture(l)},
           stage'[l] = "next", ended'[l] = ended[l], stage[l] # "ended"
    PROVE  Taken(l)'
<1>1. /\ NextFixture(l) \in rest[l] /\ NextFixture(l) \in Lines
      /\ \A g \in rest[l] : NextFixture(l) <= g
  BY NextIsFirst DEF FixturesInv
<1>2. Taken(l) /\ rest[l] \in SUBSET Lines
  BY FixturesTyped
<1>3. ended'[l] = "none"
  BY <1>2 DEF Taken, FixturesInv, FixturesTypeOK
<1>4. loaded'[l] \cup notLoaded'[l] = Lines \ rest'[l]
  BY <1>1, <1>2 DEF Taken
<1>5. ASSUME NEW f \in rest'[l], NEW g \in Lines, f <= g
      PROVE  g \in rest'[l]
  <2>1. f \in rest[l] /\ f # NextFixture(l) /\ NextFixture(l) <= f
    BY <1>1, <1>5
  <2>2. g \in rest[l]
    BY <1>2, <1>5, <2>1 DEF Taken
  <2>3. f \in Nat /\ g \in Nat /\ NextFixture(l) \in Nat
    BY <1>1, <1>2, <2>1, FixturesAssumption
  <2>4. g # NextFixture(l)
    BY <1>5, <2>1, <2>3
  <2> QED
    BY <2>2, <2>4
<1>6. ended'[l] # "ok" /\ stage'[l] = "next"
  BY <1>3
<1> QED
  BY <1>3, <1>4, <1>5, <1>6 DEF Taken

\* Then it is the last of its database's.
LEMMA LastDone ==
    ASSUME FixturesInv, NEW l \in Loaders, rest[l] # {},
           NEW f, f = NextFixture(l), rest'[l] = rest[l] \ {f}
    PROVE  /\ f \in Lines /\ DbOf(f) \in Databases
           /\ DoneFor(l, DbOf(f))' = DoneFor(l, DbOf(f)) \cup {f}
           /\ \A g \in DoneFor(l, DbOf(f)) : ~(f <= g)
           /\ \A d \in Databases : d # DbOf(f) => DoneFor(l, d)' = DoneFor(l, d)
<1>1. f \in rest[l] /\ f \in Lines /\ DbOf(f) \in Databases
  BY NextIsFirst DEF FixturesInv
<1>2. Taken(l)
  BY FixturesTyped
<1>3. \A g \in DoneFor(l, DbOf(f)) : ~(f <= g)
  BY <1>1, <1>2 DEF Taken, DoneFor
<1>4. Lines \ rest'[l] = (Lines \ rest[l]) \cup {f}
  BY <1>1
<1>5. \A d : DoneFor(l, d)' = {g \in (Lines \ rest[l]) \cup {f} : DbOf(g) = d}
  BY <1>4 DEF DoneFor
<1>6. DoneFor(l, DbOf(f))' = DoneFor(l, DbOf(f)) \cup {f}
  BY <1>5 DEF DoneFor
<1>7. \A d \in Databases : d # DbOf(f) => DoneFor(l, d)' = DoneFor(l, d)
  BY <1>5 DEF DoneFor
<1> QED
  BY <1>1, <1>3, <1>6, <1>7

\* A step of one invocation, alone or not.
LEMMA FixturesStepOfOne ==
    ASSUME FixturesInv, FixturesTypeOK', NEW l \in Loaders, Taken(l)',
           stage[l] \notin {"idle", "ended"}, UNCHANGED <<shared, latest>>,
           latest = l /\ Filled(l) => Filled(l)',
           \A m \in Loaders : m # l =>
              /\ stage'[m] = stage[m] /\ ended'[m] = ended[m] /\ rest'[m] = rest[m]
              /\ loaded'[m] = loaded[m] /\ notLoaded'[m] = notLoaded[m]
    PROVE  FixturesInv'
<1>1. \A m \in Loaders : Taken(m)'
  <2> TAKE m \in Loaders
  <2>1. m # l => Taken(m)'
    BY DEF FixturesInv, Taken
  <2> QED
    BY <2>1
<1>2. ASSUME latest' \notin shared'
      PROVE  Running' \subseteq {latest'} /\ Filled(latest)'
  <2>1. Running \subseteq {latest} /\ Filled(latest)
    BY <1>2 DEF FixturesInv
  <2>2. l = latest
    BY <2>1 DEF Running
  <2>3. Running' \subseteq {latest'}
    BY <2>1, <2>2 DEF Running
  <2>4. Filled(l)'
    BY <2>1, <2>2
  <2>5. Filled(latest)' <=> Filled(l)'
    BY <2>2 DEF Filled, DoneFor, Remade, NextFixture
  <2> QED
    BY <2>3, <2>4, <2>5
<1> QED
  BY <1>1, <1>2 DEF FixturesInv

\* An invocation goes to another stage,
LEMMA EnterTypes ==
    ASSUME FixturesInv, NEW l \in Loaders, NEW s \in Stages, Enter(l, s)
    PROVE  /\ stage' \in [Loaders -> Stages] /\ ended' \in [Loaders -> {"none", "ok", "error"}]
           /\ stage'[l] = s /\ ended'[l] = ended[l]
           /\ \A m \in Loaders : m # l => stage'[m] = stage[m] /\ ended'[m] = ended[m]
BY FixturesTyped DEF Enter

\* and ends.
LEMMA FinishTypes ==
    ASSUME FixturesInv, NEW l \in Loaders, NEW how \in {"ok", "error"}, Finish(l, how)
    PROVE  /\ stage' \in [Loaders -> Stages] /\ ended' \in [Loaders -> {"none", "ok", "error"}]
           /\ stage'[l] = "ended" /\ ended'[l] = how
           /\ \A m \in Loaders : m # l => stage'[m] = stage[m] /\ ended'[m] = ended[m]
BY FixturesTyped DEF Finish, Stages

\* A database, as it is found or as it is made anew.
Bases == [exists : BOOLEAN, rows : SUBSET (Loaders \X Lines)]
LEMMA BaseTypes ==
    ASSUME FixturesInv
    PROVE  /\ db \in [Databases -> Bases]
           /\ Untouched \in Bases /\ Dropped \in Bases
<1>1. TRUE \in BOOLEAN /\ FALSE \in BOOLEAN /\ {} \in SUBSET (Loaders \X Lines)
  OBVIOUS
<1>2. \A b \in BOOLEAN : \A r \in SUBSET (Loaders \X Lines) : [exists |-> b, rows |-> r] \in Bases
  BY Zenon DEF Bases
<1> QED
  BY <1>1, <1>2, Zenon DEF Untouched, Dropped, Bases, FixturesInv, FixturesTypeOK

\* What leaves the databases and what is taken as they are.
LEMMA QuietKeeps ==
    ASSUME FixturesInv, NEW l \in Loaders,
           ClusterFails(l) \/ Prepared(l) \/ Summarise(l)
    PROVE  FixturesInv'
<1>1. /\ stage[l] = "next" /\ UNCHANGED <<rest, loaded, notLoaded, db, shared, latest, chatty>>
  BY DEF ClusterFails, Prepared, Summarise
<1>2. Taken(l)
  BY FixturesTyped
<1>3. CASE Prepared(l)
  <2>1. Enter(l, "dropping") /\ rest[l] # {} /\ "dropping" \in Stages
    BY <1>3 DEF Prepared, Stages
  <2>2. /\ stage' \in [Loaders -> Stages] /\ ended' \in [Loaders -> {"none", "ok", "error"}]
        /\ stage'[l] = "dropping" /\ ended'[l] = ended[l]
        /\ \A m \in Loaders : m # l => stage'[m] = stage[m] /\ ended'[m] = ended[m]
    BY <2>1, EnterTypes
  <2>3. FixturesTypeOK'
    BY <1>1, <2>2 DEF FixturesInv, FixturesTypeOK
  <2>4. Taken(l)'
    BY <1>1, <1>2, <2>1, <2>2 DEF Taken
  <2>5. Filled(l) => Filled(l)'
    BY <1>1, <2>2 DEF Filled, DoneFor, Remade
  <2> QED
    BY <1>1, <2>2, <2>3, <2>4, <2>5, FixturesStepOfOne
<1>4. ASSUME NEW how \in {"ok", "error"}, Finish(l, how),
             how = "ok" => rest[l] = {} /\ notLoaded[l] = {}
      PROVE  FixturesInv'
  <2>2. /\ stage' \in [Loaders -> Stages] /\ ended' \in [Loaders -> {"none", "ok", "error"}]
        /\ stage'[l] = "ended" /\ ended'[l] = how
        /\ \A m \in Loaders : m # l => stage'[m] = stage[m] /\ ended'[m] = ended[m]
    BY <1>4, FinishTypes
  <2>3. FixturesTypeOK'
    BY <1>1, <2>2 DEF FixturesInv, FixturesTypeOK
  <2>4. Taken(l)'
    BY <1>1, <1>2, <1>4, <2>2 DEF Taken
  <2>5. Filled(l) => Filled(l)'
    BY <1>1, <2>2 DEF Filled, DoneFor, Remade
  <2> QED
    BY <1>1, <2>2, <2>3, <2>4, <2>5, FixturesStepOfOne
<1>5. CASE ClusterFails(l)
  BY <1>4, <1>5 DEF ClusterFails
<1>6. CASE Summarise(l)
  BY <1>4, <1>6 DEF Summarise
<1> QED
  BY <1>3, <1>5, <1>6
\* A fixture that cannot be loaded is reported, and the next one taken.
LEMMA FixtureFailsKeeps ==
    ASSUME FixturesInv, NEW l \in Loaders, FixtureFails(l)
    PROVE  FixturesInv'
<1>f. PICK f : f = NextFixture(l)
  OBVIOUS
<1>1. /\ stage[l] \in {"next", "dropping", "creating", "loading"} /\ rest[l] # {}
      /\ notLoaded' = [notLoaded EXCEPT ![l] = @ \cup {f}]
      /\ rest' = [rest EXCEPT ![l] = @ \ {f}]
      /\ Enter(l, "next") /\ UNCHANGED <<loaded, db, shared, latest, chatty>>
  BY <1>f DEF FixtureFails, Reports
<1>2. f \in Lines /\ "next" \in Stages
  BY <1>f, <1>1, NextIsFirst DEF FixturesInv, Stages
<1>3. /\ stage' \in [Loaders -> Stages] /\ ended' \in [Loaders -> {"none", "ok", "error"}]
      /\ stage'[l] = "next" /\ ended'[l] = ended[l]
      /\ \A m \in Loaders : m # l => stage'[m] = stage[m] /\ ended'[m] = ended[m]
  BY <1>1, <1>2, EnterTypes
<1>4. /\ rest' \in [Loaders -> SUBSET Lines] /\ notLoaded' \in [Loaders -> SUBSET Lines]
      /\ rest'[l] = rest[l] \ {f} /\ notLoaded'[l] = notLoaded[l] \cup {f}
      /\ \A m \in Loaders : m # l => rest'[m] = rest[m] /\ notLoaded'[m] = notLoaded[m]
  BY <1>1, <1>2, FixturesTyped
<1>5. FixturesTypeOK'
  BY <1>1, <1>3, <1>4 DEF FixturesInv, FixturesTypeOK
<1>6. Taken(l)'
  <2>1. loaded'[l] \cup notLoaded'[l] = loaded[l] \cup notLoaded[l] \cup {f}
    BY <1>1, <1>4
  <2>2. stage[l] # "ended"
    BY <1>1
  <2> QED
    BY <1>f, <1>1, <1>3, <1>4, <2>1, <2>2, TakenNext
<1>7. ASSUME Filled(l)
      PROVE  Filled(l)'
  <2>1. /\ f \in Lines /\ DbOf(f) \in Databases
        /\ DoneFor(l, DbOf(f))' = DoneFor(l, DbOf(f)) \cup {f}
        /\ \A g \in DoneFor(l, DbOf(f)) : ~(f <= g)
        /\ \A d \in Databases : d # DbOf(f) => DoneFor(l, d)' = DoneFor(l, d)
    BY <1>1, <1>4, <1>f, LastDone
  <2>2. ASSUME NEW d \in Databases, NEW x \in DoneFor(l, d)'
        PROVE  \/ \E g \in DoneFor(l, d)' : ~(g <= x)
               \/ x \in notLoaded'[l]
               \/ db'[d].exists /\ db'[d].rows = {<<l, x>>}
    <3>1. CASE d = DbOf(f)
      <4>1. CASE x = f
        BY <1>4, <4>1
      <4>2. CASE x # f
        <5>1. x \in DoneFor(l, DbOf(f)) /\ f \in DoneFor(l, DbOf(f))'
          BY <2>1, <2>2, <3>1, <4>2
        <5>2. ~(f <= x)
          BY <2>1, <5>1
        <5> QED
          BY <3>1, <5>1, <5>2
      <4> QED
        BY <4>1, <4>2
    <3>2. CASE d # DbOf(f)
      <4>1. ~Remade(l, d)
        BY <1>f, <3>2 DEF Remade
      <4> QED
        BY <1>1, <1>4, <1>7, <2>1, <2>2, <3>2, <4>1 DEF Filled
    <3> QED
      BY <3>1, <3>2
  <2> QED
    BY <1>3, <2>2 DEF Filled
<1> QED
  BY <1>1, <1>3, <1>4, <1>5, <1>6, <1>7, FixturesStepOfOne

\* The database is dropped: the fixture it held was another's.
LEMMA DropDbKeeps ==
    ASSUME FixturesInv, NEW l \in Loaders, DropDb(l)
    PROVE  FixturesInv'
<1>1. /\ stage[l] = "dropping" /\ db' = [db EXCEPT ![DbOf(NextFixture(l))] = Dropped]
      /\ Enter(l, "creating") /\ UNCHANGED <<rest, loaded, notLoaded, shared, latest, chatty>>
      /\ "creating" \in Stages
  BY DEF DropDb, Stages
<1>2. /\ stage' \in [Loaders -> Stages] /\ ended' \in [Loaders -> {"none", "ok", "error"}]
      /\ stage'[l] = "creating" /\ ended'[l] = ended[l]
      /\ \A m \in Loaders : m # l => stage'[m] = stage[m] /\ ended'[m] = ended[m]
  BY <1>1, EnterTypes
<1>3. db' \in [Databases -> Bases]
  BY <1>1, BaseTypes
<1>4. FixturesTypeOK'
  BY <1>1, <1>2, <1>3, Zenon DEF FixturesInv, FixturesTypeOK, Bases
<1>5. Taken(l) /\ rest[l] # {}
  BY <1>1, FixturesTyped DEF Taken
<1>6. Taken(l)'
  BY <1>1, <1>2, <1>5 DEF Taken
<1>7. ASSUME Filled(l)
      PROVE  Filled(l)'
  <2>1. NextFixture(l)' = NextFixture(l)
    BY <1>1 DEF NextFixture
  <2>2. \A d \in Databases : d # DbOf(NextFixture(l)) => db'[d] = db[d] /\ ~Remade(l, d)
    BY <1>1, BaseTypes DEF Remade
  <2>3. \A d \in Databases : d = DbOf(NextFixture(l)) => Remade(l, d)'
    BY <1>2, <2>1 DEF Remade, DbOf
  <2>4. \A d : DoneFor(l, d)' = DoneFor(l, d)
    BY <1>1 DEF DoneFor
  <2>5. ASSUME NEW d \in Databases, NEW x \in DoneFor(l, d)'
        PROVE  \/ \E g \in DoneFor(l, d)' : ~(g <= x)
               \/ x \in notLoaded'[l]
               \/ db'[d].exists /\ db'[d].rows = {<<l, x>>}
               \/ Remade(l, d)'
    <3>1. CASE d = DbOf(NextFixture(l))
      BY <2>3, <3>1
    <3>2. CASE d # DbOf(NextFixture(l))
      BY <1>1, <1>7, <2>2, <2>4, <2>5, <3>2 DEF Filled
    <3> QED
      BY <3>1, <3>2
  <2>6. stage'[l] # "loading"
    BY <1>2
  <2> QED
    BY <2>5, <2>6 DEF Filled
<1> QED
  BY <1>1, <1>2, <1>4, <1>6, <1>7, FixturesStepOfOne

\* It is made anew, empty.
LEMMA CreateDbKeeps ==
    ASSUME FixturesInv, NEW l \in Loaders, CreateDb(l)
    PROVE  FixturesInv'
<1>1. /\ stage[l] = "creating" /\ db' = [db EXCEPT ![DbOf(NextFixture(l))] = Untouched]
      /\ Enter(l, "loading") /\ UNCHANGED <<rest, loaded, notLoaded, shared, latest, chatty>>
      /\ "loading" \in Stages
  BY DEF CreateDb, Stages
<1>2. /\ stage' \in [Loaders -> Stages] /\ ended' \in [Loaders -> {"none", "ok", "error"}]
      /\ stage'[l] = "loading" /\ ended'[l] = ended[l]
      /\ \A m \in Loaders : m # l => stage'[m] = stage[m] /\ ended'[m] = ended[m]
  BY <1>1, EnterTypes
<1>3. db' \in [Databases -> Bases]
  BY <1>1, BaseTypes
<1>4. FixturesTypeOK'
  BY <1>1, <1>2, <1>3, Zenon DEF FixturesInv, FixturesTypeOK, Bases
<1>5. Taken(l) /\ rest[l] # {}
  BY <1>1, FixturesTyped DEF Taken
<1>6. Taken(l)'
  BY <1>1, <1>2, <1>5 DEF Taken
<1>7. ASSUME Filled(l)
      PROVE  Filled(l)'
  <2>1. NextFixture(l)' = NextFixture(l)
    BY <1>1 DEF NextFixture
  <2>2. \A d \in Databases : d # DbOf(NextFixture(l)) => db'[d] = db[d] /\ ~Remade(l, d)
    BY <1>1, BaseTypes DEF Remade
  <2>3. \A d \in Databases : d = DbOf(NextFixture(l)) => Remade(l, d)'
    BY <1>2, <2>1 DEF Remade, DbOf
  <2>4. \A d : DoneFor(l, d)' = DoneFor(l, d)
    BY <1>1 DEF DoneFor
  <2>5. db'[DbOf(NextFixture(l)')].rows = {}
    <3>1. DbOf(NextFixture(l)) \in Databases
      BY <1>5, NextIsFirst DEF FixturesInv
    <3>2. db'[DbOf(NextFixture(l))] = Untouched
      BY <1>1, <3>1, BaseTypes
    <3> QED
      BY <2>1, <3>2 DEF Untouched
  <2>6. ASSUME NEW d \in Databases, NEW x \in DoneFor(l, d)'
        PROVE  \/ \E g \in DoneFor(l, d)' : ~(g <= x)
               \/ x \in notLoaded'[l]
               \/ db'[d].exists /\ db'[d].rows = {<<l, x>>}
               \/ Remade(l, d)'
    <3>1. CASE d = DbOf(NextFixture(l))
      BY <2>3, <3>1
    <3>2. CASE d # DbOf(NextFixture(l))
      BY <1>1, <1>7, <2>2, <2>4, <2>6, <3>2 DEF Filled
    <3> QED
      BY <3>1, <3>2
  <2> QED
    BY <2>5, <2>6 DEF Filled, DbOf
<1> QED
  BY <1>1, <1>2, <1>4, <1>6, <1>7, FixturesStepOfOne

\* The fixture is loaded into it.
LEMMA LoadSqlKeeps ==
    ASSUME FixturesInv, NEW l \in Loaders, LoadSql(l)
    PROVE  FixturesInv'
<1>f. PICK f : f = NextFixture(l)
  OBVIOUS
<1>d. PICK d0 : d0 = DbOf(f)
  OBVIOUS
<1>1. /\ stage[l] = "loading" /\ db[d0].exists
      /\ db' = [db EXCEPT ![d0].rows = @ \cup {<<l, f>>}]
      /\ loaded' = [loaded EXCEPT ![l] = @ \cup {f}]
      /\ rest' = [rest EXCEPT ![l] = @ \ {f}]
      /\ Enter(l, "next") /\ UNCHANGED <<notLoaded, shared, latest, chatty>>
  BY <1>f, <1>d DEF LoadSql
<1>2. Taken(l) /\ rest[l] # {} /\ "next" \in Stages
  BY <1>1, FixturesTyped DEF Taken, Stages
<1>3. f \in Lines /\ d0 \in Databases
  BY <1>f, <1>d, <1>2, NextIsFirst DEF FixturesInv
<1>4. /\ stage' \in [Loaders -> Stages] /\ ended' \in [Loaders -> {"none", "ok", "error"}]
      /\ stage'[l] = "next" /\ ended'[l] = ended[l]
      /\ \A m \in Loaders : m # l => stage'[m] = stage[m] /\ ended'[m] = ended[m]
  BY <1>1, <1>2, EnterTypes
<1>5. /\ db' \in [Databases -> Bases]
      /\ \A d \in Databases : d # d0 => db'[d] = db[d]
      /\ db'[d0].exists /\ db'[d0].rows = db[d0].rows \cup {<<l, f>>}
  <2>1. db \in [Databases -> Bases]
    BY BaseTypes
  <2>2. db[d0] \in Bases
    BY <1>3, <2>1
  <2>3. db[d0].rows \in SUBSET (Loaders \X Lines) /\ db[d0].exists \in BOOLEAN
    BY <2>2 DEF Bases
  <2>4. db[d0].rows \cup {<<l, f>>} \in SUBSET (Loaders \X Lines)
    BY <1>3, <2>3
  <2> DEFINE new == [db[d0] EXCEPT !.rows = @ \cup {<<l, f>>}]
  <2>5. db' = [db EXCEPT ![d0] = new]
    BY <1>1
  <2>6. new \in Bases /\ new.exists = db[d0].exists /\ new.rows = db[d0].rows \cup {<<l, f>>}
    BY <2>2, <2>4 DEF Bases
  <2> HIDE DEF new
  <2>7. db'[d0] = new
    BY <1>3, <2>1, <2>5
  <2>8. db' \in [Databases -> Bases] /\ \A d \in Databases : d # d0 => db'[d] = db[d]
    BY <1>3, <2>1, <2>5, <2>6
  <2> QED
    BY <1>1, <2>6, <2>7, <2>8
<1>6. /\ rest' \in [Loaders -> SUBSET Lines] /\ loaded' \in [Loaders -> SUBSET Lines]
      /\ rest'[l] = rest[l] \ {f} /\ loaded'[l] = loaded[l] \cup {f}
      /\ \A m \in Loaders : m # l => rest'[m] = rest[m] /\ loaded'[m] = loaded[m]
  BY <1>1, <1>3, FixturesTyped
<1>7. FixturesTypeOK'
  BY <1>1, <1>4, <1>5, <1>6, Zenon DEF FixturesInv, FixturesTypeOK, Bases
<1>8. Taken(l)'
  <2>1. loaded'[l] \cup notLoaded'[l] = loaded[l] \cup notLoaded[l] \cup {f}
    BY <1>1, <1>6
  <2>2. stage[l] # "ended"
    BY <1>1
  <2> QED
    BY <1>f, <1>2, <1>4, <1>6, <2>1, <2>2, TakenNext
<1>9. ASSUME Filled(l)
      PROVE  Filled(l)'
  <2>1. /\ DoneFor(l, d0)' = DoneFor(l, d0) \cup {f}
        /\ \A g \in DoneFor(l, d0) : ~(f <= g)
        /\ \A d \in Databases : d # d0 => DoneFor(l, d)' = DoneFor(l, d)
    BY <1>2, <1>6, <1>f, <1>d, LastDone
  <2>2. db[d0].rows = {}
    BY <1>f, <1>d, <1>1, <1>9 DEF Filled
  <2>3. ASSUME NEW d \in Databases, NEW x \in DoneFor(l, d)'
        PROVE  \/ \E g \in DoneFor(l, d)' : ~(g <= x)
               \/ x \in notLoaded'[l]
               \/ db'[d].exists /\ db'[d].rows = {<<l, x>>}
    <3>1. CASE d = d0
      <4>1. CASE x = f
        BY <1>5, <2>2, <3>1, <4>1
      <4>2. CASE x # f
        <5>1. x \in DoneFor(l, d0) /\ f \in DoneFor(l, d0)'
          BY <2>1, <2>3, <3>1, <4>2
        <5>2. ~(f <= x)
          BY <2>1, <5>1
        <5> QED
          BY <3>1, <5>1, <5>2
      <4> QED
        BY <4>1, <4>2
    <3>2. CASE d # d0
      <4>1. ~Remade(l, d)
        BY <1>f, <1>d, <3>2 DEF Remade
      <4> QED
        BY <1>1, <1>5, <1>9, <2>1, <2>3, <3>2, <4>1 DEF Filled
    <3> QED
      BY <3>1, <3>2
  <2> QED
    BY <1>4, <2>3 DEF Filled
<1> QED
  BY <1>1, <1>4, <1>6, <1>7, <1>8, <1>9, FixturesStepOfOne

\* An invocation that starts while another runs shares with it.
LEMMA StartLoadingKeeps ==
    ASSUME FixturesInv, NEW l \in Loaders, StartLoading(l)
    PROVE  FixturesInv'
<1>1. /\ stage[l] = "idle" /\ latest' = l
      /\ shared' = IF Running = {} THEN shared ELSE shared \cup Running \cup {l}
      /\ UNCHANGED <<rest, loaded, notLoaded, db, chatty>>
  BY DEF StartLoading
<1>2. /\ stage' \in [Loaders -> Stages] /\ ended' \in [Loaders -> {"none", "ok", "error"}]
      /\ stage'[l] \in {"next", "ended"}
      /\ \A m \in Loaders : m # l => stage'[m] = stage[m] /\ ended'[m] = ended[m]
      /\ ended'[l] # "none" => stage'[l] = "ended"
      /\ ended'[l] = "ok" => Lines = {}
  <2>1. ended[l] = "none"
    BY <1>1, FixturesTyped DEF Taken
  <2>2. CASE Enter(l, "next")
    BY <2>1, <2>2, EnterTypes DEF Stages
  <2>3. CASE Finish(l, "ok") /\ Lines = {}
    BY <2>3, FinishTypes
  <2>4. CASE Finish(l, "error")
    BY <2>4, FinishTypes
  <2> QED
    BY <2>2, <2>3, <2>4 DEF StartLoading
<1>3. Running \subseteq Loaders
  BY DEF Running
<1>4. shared' \subseteq Loaders
  BY <1>1, <1>3 DEF FixturesInv, FixturesTypeOK
<1>5. FixturesTypeOK'
  BY <1>1, <1>2, <1>4 DEF FixturesInv, FixturesTypeOK
<1>6. Taken(l) /\ rest[l] = Lines
  BY <1>1, FixturesTyped DEF Taken
<1>7. ASSUME NEW m \in Loaders
      PROVE  Taken(m)'
  <2>1. CASE m = l
    <3>1. ended'[l] = "ok" => rest'[l] = {} /\ notLoaded'[l] = {}
      BY <1>1, <1>2, <1>6 DEF Taken
    <3> QED
      BY <1>1, <1>2, <1>6, <2>1, <3>1 DEF Taken
  <2>2. CASE m # l
    BY <1>1, <1>2, <2>2 DEF FixturesInv, Taken
  <2> QED
    BY <2>1, <2>2
<1>8. ASSUME l \notin shared'
      PROVE  Running' \subseteq {l} /\ Filled(l)'
  <2>1. Running = {}
    BY <1>1, <1>8
  <2>2. Running' \subseteq {l}
    BY <1>2, <2>1 DEF Running
  <2>3. \A d : DoneFor(l, d)' = {}
    BY <1>1, <1>6 DEF DoneFor
  <2>4. stage'[l] # "loading"
    BY <1>2
  <2> QED
    BY <2>2, <2>3, <2>4 DEF Filled
<1>9. Filled(latest)' <=> Filled(l)'
  BY <1>1 DEF Filled, DoneFor, Remade, NextFixture
<1> QED
  BY <1>1, <1>5, <1>7, <1>8, <1>9 DEF FixturesInv

LEMMA InitFixtures == FixturesInit => FixturesInv
<1> SUFFICES ASSUME FixturesInit
             PROVE  FixturesInv
  OBVIOUS
<1>1. /\ \A l \in Loaders : /\ stage[l] = "idle" /\ ended[l] = "none" /\ rest[l] = Lines
                            /\ loaded[l] = {} /\ notLoaded[l] = {}
      /\ latest \in Loaders /\ shared = {} /\ chatty \in SUBSET Lines
  BY DEF FixturesInit
<1>2. Untouched \in Bases
  <2>1. TRUE \in BOOLEAN /\ {} \in SUBSET (Loaders \X Lines)
    OBVIOUS
  <2>2. \A b \in BOOLEAN : \A r \in SUBSET (Loaders \X Lines) : [exists |-> b, rows |-> r] \in Bases
    BY Zenon DEF Bases
  <2> QED
    BY <2>1, <2>2, Zenon DEF Untouched
<1>3. db \in [Databases -> Bases]
  BY <1>2 DEF FixturesInit
<1>4. /\ stage \in [Loaders -> Stages] /\ ended \in [Loaders -> {"none", "ok", "error"}]
      /\ rest \in [Loaders -> SUBSET Lines] /\ loaded \in [Loaders -> SUBSET Lines]
      /\ notLoaded \in [Loaders -> SUBSET Lines]
  BY DEF FixturesInit, Stages
<1>5. FixturesTypeOK
  BY <1>1, <1>3, <1>4, Zenon DEF FixturesTypeOK, Bases
<1>6. \A l \in Loaders : Taken(l)
  BY <1>1 DEF Taken
<1>7. Running = {} /\ Filled(latest)
  BY <1>1 DEF Running, Filled, DoneFor
<1> QED
  BY <1>5, <1>6, <1>7 DEF FixturesInv

LEMMA FixturesKept ==
    ASSUME FixturesInv, [FixturesNext]_fixVars
    PROVE  FixturesInv'
<1>1. CASE UNCHANGED fixVars
  <2>1. UNCHANGED <<stage, ended, rest, loaded, notLoaded, db, shared, latest, chatty>>
    BY <1>1 DEF fixVars
  <2>2. FixturesTypeOK'
    BY <2>1 DEF FixturesInv, FixturesTypeOK
  <2>3. \A l \in Loaders : Taken(l)'
    BY <2>1 DEF FixturesInv, Taken
  <2>4. Running' = Running /\ (Filled(latest) => Filled(latest)')
    BY <2>1 DEF Running, Filled, DoneFor, Remade, NextFixture
  <2> QED
    BY <2>1, <2>2, <2>3, <2>4 DEF FixturesInv
<1>2. ASSUME NEW l \in Loaders, LoaderStep(l)
      PROVE  FixturesInv'
  BY <1>2, StartLoadingKeeps, QuietKeeps, FixtureFailsKeeps, DropDbKeeps, CreateDbKeeps,
     LoadSqlKeeps DEF LoaderStep
<1> QED
  BY <1>1, <1>2 DEF FixturesNext

\* Accounted (src/src/load_fixtures.rs): a fixture is loaded or reported.
THEOREM NoFixtureForgotten == FixturesSpec => []Accounted
<1>1. FixturesInv => Accounted
  BY AccountedByInv
<1>2. FixturesInv /\ [FixturesNext]_fixVars => FixturesInv'
  BY FixturesKept
<1> QED
  BY <1>1, <1>2, InitFixtures, PTL DEF FixturesSpec

-----------------------------------------------------------------------------
(***************************************************************************)
(* rpc.                                                                    *)
(***************************************************************************)

\* The lines on the terminal, numbered as they were sent; one is harmed only
\* where a chunk ended in the middle of it.
PrintedLine == [line : Nat, unharmed : BOOLEAN]
PrintedInOrder(r) ==
    \A i \in DOMAIN printed[r] :
        printed[r][i].line = i /\ (printed[r][i].unharmed \/ i \in cut[r])

\* Only the last event ends a stream, "done" only after a success; what is
\* printed is as far as what arrived.
Streamed(r) ==
    /\ \A e \in DOMAIN sent[r] : e < Len(sent[r]) => sent[r][e] = "log"
    /\ script[r] \in {"none", "runs"} => \A e \in DOMAIN sent[r] : sent[r][e] = "log"
    /\ \A e \in DOMAIN sent[r] : sent[r][e] = "done" => script[r] = "succeeded"
    /\ received[r] <= 2 * Len(sent[r])
    /\ PrintedInOrder(r)
Asked(r) ==
    /\ asking[r] \in {"idle", "requested"} =>
          script[r] = "none" /\ received[r] = 0 /\ printed[r] = <<>>
    /\ asking[r] = "streaming" => Len(printed[r]) = received[r] \div 2
    /\ rpcEnd[r] # "none" => asking[r] = "ended"
    /\ rpcEnd[r] = "ok" =>
          script[r] = "succeeded" /\ Len(printed[r]) >= Len(sent[r]) - 1
RpcInv == RpcTypeOK /\ \A r \in RpcCalls : Streamed(r) /\ Asked(r)

\* A step of one invocation leaves the others as they are.
LEMMA RpcStepOfOne ==
    ASSUME RpcInv, RpcTypeOK', NEW r \in RpcCalls, Streamed(r)', Asked(r)',
           \A q \in RpcCalls : q # r =>
              /\ asking'[q] = asking[q] /\ rpcEnd'[q] = rpcEnd[q]
              /\ script'[q] = script[q] /\ sent'[q] = sent[q]
              /\ received'[q] = received[q] /\ cut'[q] = cut[q]
              /\ printed'[q] = printed[q]
    PROVE  RpcInv'
<1> SUFFICES ASSUME NEW q \in RpcCalls, q # r
             PROVE  Streamed(q)' /\ Asked(q)'
  BY DEF RpcInv
<1>1. RpcTypeOK /\ Streamed(q) /\ Asked(q)
  BY DEF RpcInv
<1>2. PrintedInOrder(q)'
  BY <1>1 DEF Streamed, PrintedInOrder
<1>3. Streamed(q)'
  BY <1>1, <1>2 DEF Streamed
<1>4. Asked(q)'
  BY <1>1 DEF Asked
<1> QED
  BY <1>3, <1>4

\* A sequence, continued up to length n.
LEMMA Continued ==
    ASSUME NEW S, NEW s \in Seq(S), NEW n \in Nat, Len(s) <= n,
           NEW t \in [1 .. n - Len(s) -> S]
    PROVE  /\ s \o t \in Seq(S) /\ Len(s \o t) = n
           /\ \A i \in 1..n :
                 (s \o t)[i] = IF i <= Len(s) THEN s[i] ELSE t[i - Len(s)]
<1>1. n - Len(s) \in Nat
  OBVIOUS
<1>2. t \in Seq(S) /\ Len(t) = n - Len(s)
  BY <1>1
<1> QED
  BY <1>2

\* The lines of a chunk go on where those before it ended.
LEMMA PrintedAfter ==
    ASSUME RpcTypeOK, NEW r \in RpcCalls, PrintedInOrder(r),
           NEW first \in Nat, NEW last \in Nat, first <= last,
           Len(printed[r]) = first, Prints(r, first, last)
    PROVE  /\ printed' \in [RpcCalls -> Seq(PrintedLine)]
           /\ \A q \in RpcCalls : q # r => printed'[q] = printed[q]
           /\ Len(printed'[r]) = last
           /\ \A i \in DOMAIN printed'[r] :
                 printed'[r][i].line = i /\ (printed'[r][i].unharmed \/ i \in cut[r])
<1> DEFINE Run(h) == [i \in 1 .. last - first |->
                         [line |-> first + i, unharmed |-> first + i \notin h]]
<1>1. PICK harmed \in SUBSET cut[r] : printed' = [printed EXCEPT ![r] = @ \o Run(harmed)]
  BY DEF Prints
<1>2. printed[r] \in Seq(PrintedLine)
  BY DEF RpcTypeOK, PrintedLine
<1>3. \A i \in 1 .. last - first : [line |-> first + i, unharmed |-> first + i \notin harmed] \in PrintedLine
  <2> TAKE i \in 1 .. last - first
  <2>1. (first + i \notin harmed) \in BOOLEAN /\ first + i \in Nat
    OBVIOUS
  <2> QED
    BY <2>1, Zenon DEF PrintedLine
<1>4. Run(harmed) \in [1 .. last - first -> PrintedLine]
  BY <1>3, Zenon
<1>5. ASSUME NEW i \in 1 .. last - first
      PROVE  /\ Run(harmed)[i].line = first + i
             /\ Run(harmed)[i].unharmed <=> first + i \notin harmed
  <2>1. Run(harmed)[i] = [line |-> first + i, unharmed |-> first + i \notin harmed]
    BY Zenon
  <2>2. \A b \in BOOLEAN : LET p == [line |-> first + i, unharmed |-> b]
                           IN  p.line = first + i /\ (p.unharmed <=> b)
    OBVIOUS
  <2>3. (first + i \notin harmed) \in BOOLEAN
    OBVIOUS
  <2> HIDE DEF Run
  <2> QED
    BY <2>1, <2>2, <2>3, Zenon
<1> HIDE DEF Run
<1>c. /\ printed[r] \o Run(harmed) \in Seq(PrintedLine)
      /\ Len(printed[r] \o Run(harmed)) = last
      /\ \A i \in 1..last : (printed[r] \o Run(harmed))[i] =
            IF i <= first THEN printed[r][i] ELSE Run(harmed)[i - first]
  BY <1>2, <1>4, Continued
<1>6. printed \in [RpcCalls -> Seq(PrintedLine)]
  BY DEF RpcTypeOK, PrintedLine
<1>7. /\ printed' \in [RpcCalls -> Seq(PrintedLine)]
      /\ \A q \in RpcCalls : q # r => printed'[q] = printed[q]
      /\ printed'[r] = printed[r] \o Run(harmed)
  BY <1>1, <1>c, <1>6
<1>8. ASSUME NEW i \in 1..last
      PROVE  printed'[r][i].line = i /\ (printed'[r][i].unharmed \/ i \in cut[r])
  <2>1. CASE i <= first
    BY <1>2, <1>c, <1>7, <2>1 DEF PrintedInOrder
  <2>2. CASE i > first
    <3>1. i - first \in 1 .. last - first
      BY <2>2
    <3> QED
      <4>1. printed'[r][i] = Run(harmed)[i - first] /\ first + (i - first) = i
        BY <1>c, <1>7, <2>2
      <4>2. harmed \subseteq cut[r]
        BY <1>1
      <4> QED
        BY <1>5, <3>1, <4>1, <4>2
  <2> QED
    BY <2>1, <2>2
<1> QED
  BY <1>c, <1>7, <1>8

\* The invocation and the executor, except for the stream.
LEMMA AskingKeeps ==
    ASSUME RpcInv, NEW r \in RpcCalls,
           \/ AskExecutor(r) \/ ExecutorAnswers(r) \/ StreamCloses(r) \/ StreamEnds(r)
    PROVE  RpcInv'
<1> USE DEF Exits
<1>0. RpcTypeOK /\ Streamed(r) /\ Asked(r)
  BY DEF RpcInv
<1>1. RpcTypeOK'
  BY <1>0 DEF RpcTypeOK, AskExecutor, ExecutorAnswers, StreamCloses, StreamEnds
<1>2. /\ UNCHANGED <<sent, received, cut, printed>>
      /\ \A q \in RpcCalls : q # r =>
            asking'[q] = asking[q] /\ rpcEnd'[q] = rpcEnd[q] /\ script'[q] = script[q]
      /\ \/ script'[r] = script[r]
         \/ /\ asking[r] = "requested" /\ asking'[r] = "streaming"
            /\ script'[r] = "runs" /\ rpcEnd'[r] = rpcEnd[r]
      /\ \/ asking'[r] = asking[r] /\ rpcEnd'[r] = rpcEnd[r]
         \/ asking[r] = "idle" /\ asking'[r] = "requested" /\ rpcEnd'[r] = rpcEnd[r]
         \/ asking[r] = "requested" /\ asking'[r] = "streaming" /\ rpcEnd'[r] = rpcEnd[r]
         \/ asking'[r] = "ended" /\ rpcEnd'[r] = "error"
  BY <1>0 DEF RpcTypeOK, AskExecutor, ExecutorAnswers, StreamCloses, StreamEnds
<1>3. Streamed(r)'
  BY <1>0, <1>2 DEF Streamed, PrintedInOrder, Asked
<1>4. Asked(r)'
  <2>1. printed[r] = <<>> => Len(printed[r]) = 0
    OBVIOUS
  <2>2. rpcEnd[r] = "ok" => asking[r] = "ended"
    BY <1>0 DEF Asked
  <2> QED
    BY <1>0, <1>2, <2>1, <2>2 DEF Asked
<1> QED
  BY <1>1, <1>2, <1>3, <1>4, RpcStepOfOne

\* An event more in the stream.
LEMMA EventsKeep ==
    ASSUME RpcInv, NEW r \in RpcCalls, ScriptPrints(r) \/ RpcScriptEnds(r)
    PROVE  RpcInv'
<1> USE DEF Put
<1>0. RpcTypeOK /\ Streamed(r) /\ Asked(r)
  BY DEF RpcInv
<1>1. /\ UNCHANGED <<asking, rpcEnd, received, cut, printed, open>>
      /\ script[r] = "runs"
      /\ script' \in [RpcCalls -> {"none", "runs", "succeeded", "failed"}]
      /\ \A q \in RpcCalls : q # r => script'[q] = script[q]
      /\ script'[r] # "none"
  <2>1. CASE ScriptPrints(r)
    BY <1>0, <2>1 DEF RpcTypeOK, ScriptPrints
  <2>2. CASE RpcScriptEnds(r)
    BY <1>0, <2>2 DEF RpcTypeOK, RpcScriptEnds
  <2> QED
    BY <2>1, <2>2
<1>2. PICK more \in {<<>>, <<"log">>, <<"done">>, <<"doneBadly">>, <<"error">>} :
          /\ sent' = [sent EXCEPT ![r] = @ \o more]
          /\ more = <<"log">> => script'[r] = "runs"
          /\ more # <<"log">> => script'[r] \in {"succeeded", "failed"}
          /\ more = <<"done">> => script'[r] = "succeeded"
  <2>1. \A e \in EventTypes : Append(sent[r], e) = sent[r] \o <<e>>
    BY <1>0 DEF RpcTypeOK
  <2>2. sent = [sent EXCEPT ![r] = @ \o <<>>]
    BY <1>0 DEF RpcTypeOK
  <2>3. CASE ScriptPrints(r)
    BY <2>1, <2>3 DEF ScriptPrints, EventTypes
  <2>4. CASE RpcScriptEnds(r)
    BY <1>0, <2>1, <2>2, <2>4 DEF RpcScriptEnds, Tells, EventTypes, RpcTypeOK
  <2> QED
    BY <2>3, <2>4
<1>3. /\ more \in Seq(EventTypes) /\ Len(more) \in 0..1
      /\ more = <<"log">> => more[1] = "log"
      /\ Len(more) = 1 /\ more[1] = "done" => more = <<"done">>
  <2>1. CASE more = <<>>
    BY <2>1
  <2>2. CASE more = <<"log">>
    BY <2>2 DEF EventTypes
  <2>3. CASE more = <<"done">>
    BY <2>3 DEF EventTypes
  <2>4. CASE more = <<"error">>
    BY <2>4 DEF EventTypes
  <2>5. CASE more = <<"doneBadly">>
    BY <2>5 DEF EventTypes
  <2> QED
    BY <1>2, <2>1, <2>2, <2>3, <2>4, <2>5
<1>4. /\ sent' \in [RpcCalls -> Seq(EventTypes)]
      /\ \A q \in RpcCalls : q # r => sent'[q] = sent[q]
      /\ sent'[r] = sent[r] \o more
  BY <1>0, <1>2, <1>3 DEF RpcTypeOK
<1>5. /\ Len(sent'[r]) = Len(sent[r]) + Len(more)
      /\ DOMAIN sent[r] = 1..Len(sent[r]) /\ DOMAIN sent'[r] = 1..Len(sent'[r])
      /\ \A e \in DOMAIN sent'[r] :
            sent'[r][e] = IF e <= Len(sent[r]) THEN sent[r][e] ELSE more[e - Len(sent[r])]
  <2>1. sent[r] \in Seq(EventTypes)
    BY <1>0 DEF RpcTypeOK
  <2> HIDE DEF EventTypes
  <2> QED
    BY <1>3, <1>4, <2>1
<1>6. RpcTypeOK'
  BY <1>0, <1>1, <1>4 DEF RpcTypeOK
<1>7. \A e \in DOMAIN sent[r] : sent[r][e] = "log"
  BY <1>0, <1>1 DEF Streamed
<1>8. Streamed(r)'
  <2>1. \A e \in DOMAIN sent'[r] :
           \/ e <= Len(sent[r]) /\ sent'[r][e] = "log"
           \/ /\ e = Len(sent'[r]) /\ Len(more) = 1
              /\ sent'[r][e] = more[1]
    <3> TAKE e \in DOMAIN sent'[r]
    <3>1. Len(sent[r]) \in Nat /\ Len(more) \in 0..1
      BY <1>0, <1>3 DEF RpcTypeOK
    <3>2. CASE e <= Len(sent[r])
      BY <1>5, <1>7, <3>2
    <3>3. CASE e > Len(sent[r])
      <4>1. Len(more) = 1 /\ e = Len(sent[r]) + 1
        <5>1. e \in Nat /\ e <= Len(sent[r]) + Len(more)
          BY <1>5, <3>1
        <5>2. \A a, b \in Nat : \A k \in 0..1 : b <= a + k /\ b > a => k = 1 /\ b = a + 1
          OBVIOUS
        <5> QED
          BY <3>1, <3>3, <5>1, <5>2
      <4>2. e - Len(sent[r]) = 1 /\ ~(e <= Len(sent[r])) /\ e = Len(sent'[r])
        BY <1>5, <3>1, <4>1
      <4> QED
        BY <1>5, <4>1, <4>2
    <3> QED
      BY <1>5, <3>1, <3>2, <3>3
  <2>2. received'[r] <= 2 * Len(sent'[r])
    BY <1>0, <1>1, <1>3, <1>5 DEF Streamed, RpcTypeOK
  <2>3. PrintedInOrder(r)'
    BY <1>0, <1>1 DEF Streamed, PrintedInOrder
  <2>4. \A e \in DOMAIN sent'[r] : e < Len(sent'[r]) => sent'[r][e] = "log"
    BY <2>1, <1>5
  <2>5. more # <<"log">> \/ \A e \in DOMAIN sent'[r] : sent'[r][e] = "log"
    BY <2>1, <1>3
  <2>6. script'[r] = "runs" => more = <<"log">>
    BY <1>2
  <2>7. \A e \in DOMAIN sent'[r] : sent'[r][e] = "done" => script'[r] = "succeeded"
    BY <1>2, <1>3, <1>7, <2>1
  <2> QED
    BY <1>1, <2>2, <2>3, <2>4, <2>5, <2>6, <2>7 DEF Streamed
<1>9. Asked(r)'
  BY <1>0, <1>1 DEF Asked
<1> QED
  BY <1>1, <1>4, <1>6, <1>8, <1>9, RpcStepOfOne

\* One chunk of the stream.
LEMMA ChunkKeeps ==
    ASSUME RpcInv, NEW r \in RpcCalls, Chunked(r)
    PROVE  RpcInv'
<1> USE DEF Exits
<1>0. RpcTypeOK /\ Streamed(r) /\ Asked(r)
  BY DEF RpcInv
<1>1. PICK n \in received[r] + 1 .. 2 * Len(sent[r]) :
         Takes(r, n, received[r] \div 2, n \div 2, EventsIn(r, Terminal))
  BY DEF Chunked
<1> DEFINE first == received[r] \div 2
           whole == n \div 2
<1>2. /\ received[r] \in Nat /\ n \in Nat /\ n > received[r]
      /\ first \in Nat /\ whole \in Nat
      /\ Len(sent[r]) \in Nat /\ n <= 2 * Len(sent[r]) /\ whole <= Len(sent[r])
  BY <1>0 DEF RpcTypeOK
<1>3. PICK last \in first .. whole :
         /\ Prints(r, first, last)
         /\ \/ last = whole /\ UNCHANGED <<asking, rpcEnd>>
            \/ /\ last < whole /\ last + 1 \in EventsIn(r, Terminal)
               /\ Exits(r, IF sent[r][last + 1] = "done" THEN "ok" ELSE "error")
  BY <1>1 DEF Takes
<1> HIDE DEF first, whole
<1>4. /\ received' = [received EXCEPT ![r] = n]
      /\ cut' = [cut EXCEPT ![r] = @ \cup Breaks(n)]
      /\ UNCHANGED <<script, sent, open>> /\ asking[r] = "streaming"
  BY <1>1 DEF Takes, Chunked
<1>5. Len(printed[r]) = first /\ PrintedInOrder(r)
  BY <1>0, <1>4 DEF Asked, Streamed, first
<1>6. /\ printed' \in [RpcCalls -> Seq(PrintedLine)]
      /\ \A q \in RpcCalls : q # r => printed'[q] = printed[q]
      /\ Len(printed'[r]) = last
      /\ \A i \in DOMAIN printed'[r] :
            printed'[r][i].line = i /\ (printed'[r][i].unharmed \/ i \in cut[r])
  <2>1. last \in Nat /\ first <= last
    BY <1>2, <1>3
  <2> QED
    BY <1>0, <1>2, <1>3, <1>5, <2>1, PrintedAfter
<1>7. RpcTypeOK'
  <2>1. Breaks(n) \subseteq Nat
    BY <1>2 DEF Breaks
  <2>2. cut' \in [RpcCalls -> SUBSET Nat] /\ received' \in [RpcCalls -> Nat]
    BY <1>0, <1>2, <1>4, <2>1 DEF RpcTypeOK
  <2>3. /\ asking' \in [RpcCalls -> {"idle", "requested", "streaming", "ended"}]
        /\ rpcEnd' \in [RpcCalls -> {"none", "ok", "error"}]
    BY <1>0, <1>3 DEF RpcTypeOK
  <2> QED
    BY <1>0, <1>4, <1>6, <2>2, <2>3 DEF RpcTypeOK, PrintedLine
<1>8. Streamed(r)'
  <2>1. cut[r] \subseteq cut'[r] /\ received'[r] = n
    BY <1>0, <1>4 DEF RpcTypeOK
  <2>2. PrintedInOrder(r)'
    BY <1>6, <2>1 DEF PrintedInOrder
  <2> QED
    BY <1>0, <1>2, <1>4, <2>1, <2>2 DEF Streamed
<1>9. Asked(r)'
  <2>1. received'[r] = n /\ whole = n \div 2
    BY <1>0, <1>4 DEF RpcTypeOK, whole
  <2>2. CASE last = whole /\ UNCHANGED <<asking, rpcEnd>>
    BY <1>0, <1>4, <1>6, <2>1, <2>2 DEF Asked
  <2>3. CASE /\ last < whole /\ last + 1 \in EventsIn(r, Terminal)
             /\ Exits(r, IF sent[r][last + 1] = "done" THEN "ok" ELSE "error")
    <3>1. asking'[r] = "ended" /\ rpcEnd'[r] = IF sent[r][last + 1] = "done" THEN "ok" ELSE "error"
      BY <1>0, <2>3 DEF RpcTypeOK
    <3>2. /\ last + 1 \in DOMAIN sent[r] /\ sent[r][last + 1] # "log"
          /\ last \in Nat
      BY <1>2, <1>3, <2>3 DEF EventsIn, Terminal
    <3>3. last + 1 = Len(sent[r])
      BY <1>0, <1>2, <3>2 DEF Streamed, RpcTypeOK
    <3> QED
      BY <1>0, <1>4, <1>6, <3>1, <3>2, <3>3 DEF Asked, Streamed
  <2> QED
    BY <1>3, <2>2, <2>3
<1>10. \A q \in RpcCalls : q # r =>
          /\ asking'[q] = asking[q] /\ rpcEnd'[q] = rpcEnd[q]
          /\ received'[q] = received[q] /\ cut'[q] = cut[q]
  BY <1>0, <1>3, <1>4 DEF RpcTypeOK
<1> QED
  BY <1>4, <1>6, <1>7, <1>8, <1>9, <1>10, RpcStepOfOne

LEMMA RpcKept == RpcInv /\ [RpcNext]_rpcVars => RpcInv'
<1> SUFFICES ASSUME RpcInv, [RpcNext]_rpcVars
             PROVE  RpcInv'
  OBVIOUS
<1>1. CASE UNCHANGED rpcVars
  BY <1>1 DEF rpcVars, RpcInv, RpcTypeOK, Streamed, Asked, PrintedInOrder
<1> QED
  BY <1>1, AskingKeeps, EventsKeep, ChunkKeeps DEF RpcNext, RpcClient, Executor

LEMMA InitRpc == RpcInit => RpcInv
<1> SUFFICES ASSUME RpcInit PROVE RpcInv
  OBVIOUS
<1>1. RpcTypeOK
  BY DEF RpcInit, RpcTypeOK
<1>2. ASSUME NEW r \in RpcCalls
      PROVE  Streamed(r) /\ Asked(r)
  BY DEF RpcInit, Streamed, Asked, PrintedInOrder
<1> QED
  BY <1>1, <1>2 DEF RpcInv

LEMMA FaithfulByInv == RpcInv => RpcIsFaithful
BY DEF RpcInv, Streamed, Asked, PrintedInOrder, RpcIsFaithful

\* For any number of invocations and log lines, however the stream is cut into
\* chunks: what rpc prints is what the executor sent, in order, and it exits
\* with success only after the script's success and all of its output.
THEOREM PrintsWhatWasSent == RpcSpec => []RpcIsFaithful
BY InitRpc, RpcKept, FaithfulByInv, PTL DEF RpcSpec

-----------------------------------------------------------------------------
(***************************************************************************)
(* The program.                                                            *)
(***************************************************************************)

\* A step of the program is a step of one of its components, or none.
LEMMA StepOfEach ==
    ASSUME [ProgramNext]_programVars
    PROVE  /\ [Next]_allVars /\ [HandlerStep]_deviceVars
           /\ [HeartStep \/ Network]_heartVars
           /\ [WorkspaceNext]_wsVars /\ [FixturesNext]_fixVars
           /\ [UploadNext]_uploadVars /\ [RpcNext]_rpcVars
           /\ [InstallersNext]_installVars
<1>1. PlatformStep => WorkspaceNext
  BY DEF PlatformStep, WorkspaceNext
<1>2. [Next]_allVars
  BY DEF ProgramNext, programVars
<1> QED
  BY <1>1, <1>2, DeviceStepOfEach DEF ProgramNext, programVars, commandVars

\* The program runs its commands as each is specified on its own: what it
\* adds (benches, the component it picks) takes no step from them and gives
\* them none.
THEOREM EachAsSpecified ==
    ProgramSpec => /\ DeviceSpec /\ HeartSpec /\ WorkspaceSpec /\ FixturesSpec
                   /\ UploadSpec /\ RpcSpec /\ InstallersSpec
<1>1. ProgramInit => /\ DeviceInit /\ HeartInit /\ WorkspaceInit /\ FixturesInit
                     /\ UploadInit /\ RpcInit /\ InstallersInit
  BY DEF ProgramInit, DeviceIdles, Init
<1>2. [ProgramNext]_programVars =>
          /\ [HandlerStep]_deviceVars /\ [HeartStep \/ Network]_heartVars
          /\ [WorkspaceNext]_wsVars /\ [FixturesNext]_fixVars
          /\ [UploadNext]_uploadVars /\ [RpcNext]_rpcVars
          /\ [InstallersNext]_installVars
  BY StepOfEach
<1> QED
  BY <1>1, <1>2, PTL DEF ProgramSpec, DeviceSpec, HeartSpec, WorkspaceSpec,
     FixturesSpec, UploadSpec, RpcSpec, InstallersSpec

ProgramInv ==
    /\ HandlersInv /\ HeartInv /\ WorkspaceInv /\ FixturesInv /\ UploadInv
    /\ RpcInv /\ InstallInv

\* The invariants of the parts, together, are one of the program.
LEMMA ProgramAlways == ProgramSpec => []ProgramInv
<1>1. ProgramInit => ProgramInv
  <2>1. ProgramInit => /\ DeviceInit /\ HeartInit /\ WorkspaceInit /\ FixturesInit
                       /\ UploadInit /\ RpcInit /\ InstallersInit
    BY DEF ProgramInit, DeviceIdles, Init
  <2> QED
    BY <2>1, InitBoth, InitWorkspace, InitFixtures, InitUpload, InitRpc, InitInstall
       DEF ProgramInv
<1>2. ProgramInv /\ [ProgramNext]_programVars => ProgramInv'
  <2> SUFFICES ASSUME ProgramInv, [ProgramNext]_programVars
               PROVE  ProgramInv'
    OBVIOUS
  <2>1. /\ [Next]_allVars /\ [WorkspaceNext]_wsVars /\ [FixturesNext]_fixVars
        /\ [UploadNext]_uploadVars /\ [RpcNext]_rpcVars
        /\ [InstallersNext]_installVars
    BY StepOfEach
  <2>2. HandlersInv' /\ HeartInv'
    BY <2>1, StepBoth DEF ProgramInv
  <2>3. WorkspaceInv' /\ FixturesInv'
    BY <2>1, WorkspaceKept, FixturesKept DEF ProgramInv
  <2>4. UploadInv' /\ RpcInv' /\ InstallInv'
    BY <2>1, UploadKept, RpcKept, InstallKept DEF ProgramInv
  <2> QED
    BY <2>2, <2>3, <2>4 DEF ProgramInv
<1> QED
  BY <1>1, <1>2, PTL DEF ProgramSpec

\* The state of the whole program stays well formed, whichever of its
\* commands runs.
THEOREM ProgramTypes == ProgramSpec => []ProgramTypeOK
<1>1. ProgramInv => ProgramTypeOK
  <2> SUFFICES ASSUME ProgramInv
               PROVE  ProgramTypeOK
    OBVIOUS
  <2>1. TypeOK
    BY DEF ProgramInv, HandlersInv, HeartInv, TypeOK
  <2>2. WorkspaceTypeOK
    BY WorkspaceTyped DEF ProgramInv
  <2>3. FixturesTypeOK /\ UploadTypeOK /\ RpcTypeOK /\ InstallersTypeOK
    BY DEF ProgramInv, FixturesInv, UploadInv, RpcInv, InstallInv
  <2> QED
    BY <2>1, <2>2, <2>3 DEF ProgramTypeOK
<1> QED
  BY <1>1, ProgramAlways, PTL

\* In the program each safety property of its parts holds: of the device
\* client, of the commands that share platform/'s results, of load-fixtures,
\* upload, rpc and the installer.
THEOREM EverySafety ==
    ProgramSpec => [](/\ OneCertificate /\ JammedByLoadOnly /\ StaleCallsBounded
                      /\ RolloutIsWhole /\ OnceMeansOnce /\ InstallsThePlanned
                      /\ Accounted /\ UploadIsWhole /\ RpcIsFaithful /\ InstalledWorks)
<1>1. ProgramInv => OneCertificate /\ JammedByLoadOnly /\ StaleCallsBounded
  BY JammedByInv DEF ProgramInv, HandlersInv, HeartInv
<1> QED
  BY <1>1, ProgramAlways, EachAsSpecified, WholeRollout, RunOnce, PlannedOnly,
     NoFixtureForgotten, ObjectsAreWhole, PrintsWhatWasSent, InstallFits, PTL
=============================================================================
