------------------------ MODULE QueryClient_proofs -------------------------
(***************************************************************************)
(* Theorems about QueryClient: however the network cuts, delays or loses   *)
(* what the server sends, and however often the status is refreshed.       *)
(*                                                                         *)
(* AnswersAreOwn is not inductive: what a command may take for its answer  *)
(* is decided by what is left in the buffer and on the wire.  SessionInv   *)
(* says what that is, for the two together: cutting the stream moves       *)
(* pieces from one to the other and leaves their concatenation alone.      *)
(***************************************************************************)
EXTENDS QueryClient, SequenceTheorems, WellFoundedInduction, TLAPS

USE FaultsAssumption

Stream == buffer \o wire

\* `t` is the whole answer to command `c`, for login possibly behind the last
\* piece of the banner.
IsAnswer(t, c, ok) ==
  \E h \in {0, 1} :
    /\ Len(t) = h + 4
    /\ t[h + 1] = Piece("error", ok) /\ t[h + 2] = Piece("id", ok)
    /\ t[h + 3] = Piece("value", ok) /\ t[h + 4] = Piece("end", ok)
    /\ h = 1 => t[1].part \in {"interface", "info"}
    /\ c = "serverinfo" => (ok <=> h = 1) /\ (h = 1 => t[1].part = "info")

\* Nothing of the answer has been sent yet.
IsLeftover(t, c) == t = <<>> \/ (c = "login" /\ t = <<Piece("interface", TRUE)>>)

ConnectInv ==
  pc = "connect" => /\ ~bannerSeen /\ inbox = <<>> /\ answers = <<>>
                    /\ Stream = <<>> \/ Stream = Banner

PendingInv ==
  (Pending /\ ~torn) =>
    /\ bannerSeen
    /\ \A i \in 1 .. Position(pc) - 1 : answers[i]
    /\ \/ /\ inbox = <<pc>> /\ Len(answers) = Position(pc) - 1
          /\ IsLeftover(Stream, pc)
       \/ /\ inbox = <<>> /\ Len(answers) = Position(pc)
          /\ IsAnswer(Stream, pc, answers[Position(pc)])

SavedInv ==
  (pc = "save" /\ outcome # "failed" /\ ~torn) =>
    outcome = "complete" /\ answers = <<TRUE, TRUE, TRUE>>

SessionInv == ConnectInv /\ PendingInv /\ SavedInv

Inv == TypeOK /\ SocketsAreClosed /\ SessionInv

-----------------------------------------------------------------------------
(* Commands and answers.                                                   *)

LEMMA Positions ==
  /\ CommandNames = {"login", "use", "serverinfo"}
  /\ Position("login") = 1 /\ Position("use") = 2 /\ Position("serverinfo") = 3
  /\ Commands[1] = "login" /\ Commands[2] = "use" /\ Commands[3] = "serverinfo"
<1>1. Commands[1] = "login" /\ Commands[2] = "use" /\ Commands[3] = "serverinfo"
  BY DEF Commands
<1>2. 1 .. 3 = {1, 2, 3}
  OBVIOUS
<1>3. CommandNames = {"login", "use", "serverinfo"}
  BY <1>1, <1>2 DEF CommandNames
<1>4. ASSUME NEW k \in 1 .. 3 PROVE Position(Commands[k]) = k
  <2>1. ASSUME NEW i \in 1 .. 3 PROVE Commands[i] = Commands[k] <=> i = k
    <3>1. i \in {1, 2, 3} /\ k \in {1, 2, 3}
      BY <1>2
    <3> QED BY <1>1, <3>1
  <2> QED BY <2>1 DEF Position
<1>5. Position("login") = 1 /\ Position("use") = 2 /\ Position("serverinfo") = 3
  BY <1>1, <1>4
<1> QED BY <1>1, <1>3, <1>5

LEMMA PieceIsPiece ==
  ASSUME NEW part \in {"hello", "welcome", "interface", "info", "error", "id", "value", "end"},
         NEW ok \in BOOLEAN
  PROVE  Piece(part, ok) \in Pieces /\ Piece(part, ok).part = part /\ Piece(part, ok).ok = ok
BY DEF Piece, Pieces

\* Tuples as sequences.
LEMMA Tuples ==
  ASSUME NEW a \in Pieces, NEW b \in Pieces, NEW c \in Pieces, NEW d \in Pieces
  PROVE  /\ <<>> \in Seq(Pieces)
         /\ <<a>> \in Seq(Pieces) /\ Len(<<a>>) = 1 /\ <<a>>[1] = a
         /\ <<a, b, c>> \in Seq(Pieces) /\ Len(<<a, b, c>>) = 3
         /\ <<a, b, c>>[1] = a /\ <<a, b, c>>[2] = b /\ <<a, b, c>>[3] = c
         /\ <<a, b, c, d>> \in Seq(Pieces) /\ Len(<<a, b, c, d>>) = 4
         /\ <<a, b, c, d>>[1] = a /\ <<a, b, c, d>>[2] = b
         /\ <<a, b, c, d>>[3] = c /\ <<a, b, c, d>>[4] = d
<1>1. <<>> \in Seq(Pieces) /\ <<a>> \in Seq(Pieces) /\ <<a, b, c>> \in Seq(Pieces)
  OBVIOUS
<1>2. <<a, b, c, d>> \in Seq(Pieces)
  OBVIOUS
<1>3. /\ Len(<<a>>) = 1 /\ <<a>>[1] = a /\ Len(<<a, b, c>>) = 3
      /\ <<a, b, c>>[1] = a /\ <<a, b, c>>[2] = b /\ <<a, b, c>>[3] = c
  OBVIOUS
<1>4. /\ Len(<<a, b, c, d>>) = 4 /\ <<a, b, c, d>>[1] = a /\ <<a, b, c, d>>[2] = b
      /\ <<a, b, c, d>>[3] = c /\ <<a, b, c, d>>[4] = d
  OBVIOUS
<1> QED BY <1>1, <1>2, <1>3, <1>4

LEMMA Concat ==
  ASSUME NEW x \in Seq(Pieces), NEW y \in Seq(Pieces)
  PROVE  /\ x \o y \in Seq(Pieces) /\ Len(x \o y) = Len(x) + Len(y)
         /\ \A i \in 1 .. Len(x) + Len(y) : (x \o y)[i] = IF i <= Len(x) THEN x[i] ELSE y[i - Len(x)]
BY ConcatProperties

LEMMA ConcatTwice ==
  ASSUME NEW x \in Seq(Pieces), NEW y \in Seq(Pieces), NEW z \in Seq(Pieces)
  PROVE  (x \o y) \o z = x \o (y \o z)
BY ConcatAssociative

LEMMA ConcatOne ==
  ASSUME NEW x \in Seq(Pieces), NEW y \in Seq(Pieces), Len(x) = 1, Len(y) = 4
  PROVE  /\ x \o y \in Seq(Pieces) /\ Len(x \o y) = 5 /\ (x \o y)[1] = x[1]
         /\ (x \o y)[2] = y[1] /\ (x \o y)[3] = y[2] /\ (x \o y)[4] = y[3] /\ (x \o y)[5] = y[4]
<1>1. /\ x \o y \in Seq(Pieces) /\ Len(x \o y) = Len(x) + Len(y)
      /\ \A i \in 1 .. Len(x) + Len(y) : (x \o y)[i] = IF i <= Len(x) THEN x[i] ELSE y[i - Len(x)]
  BY Concat
<1>2. Len(x \o y) = 5 /\ (x \o y)[1] = x[1]
  BY <1>1
<1>3. ASSUME NEW i \in 1 .. 4 PROVE (x \o y)[i + 1] = y[i]
  <2>1. i + 1 \in 1 .. Len(x) + Len(y) /\ ~(i + 1 <= Len(x)) /\ (i + 1) - Len(x) = i
    OBVIOUS
  <2> QED BY <1>1, <2>1
<1>4. /\ (x \o y)[1 + 1] = y[1] /\ (x \o y)[2 + 1] = y[2]
      /\ (x \o y)[3 + 1] = y[3] /\ (x \o y)[4 + 1] = y[4]
  <2>1. 1 \in 1 .. 4 /\ 2 \in 1 .. 4 /\ 3 \in 1 .. 4 /\ 4 \in 1 .. 4
    OBVIOUS
  <2> QED BY <1>3, <2>1, Zenon
<1>5. 1 + 1 = 2 /\ 2 + 1 = 3 /\ 3 + 1 = 4 /\ 4 + 1 = 5
  OBVIOUS
<1> QED BY <1>1, <1>2, <1>4, <1>5

LEMMA BannerPieces ==
  /\ Banner \in Seq(Pieces) /\ Len(Banner) = 3
  /\ Banner[1].part = "hello" /\ Banner[2].part = "welcome" /\ Banner[3] = Piece("interface", TRUE)
<1>1. /\ Piece("hello", TRUE) \in Pieces /\ Piece("welcome", TRUE) \in Pieces
      /\ Piece("interface", TRUE) \in Pieces
      /\ Piece("hello", TRUE).part = "hello" /\ Piece("welcome", TRUE).part = "welcome"
  BY PieceIsPiece
<1> QED BY <1>1, Tuples DEF Banner

\* What a reply appends makes an answer of what was left over.
LEMMA AnswerIsAnswer ==
  ASSUME NEW c \in CommandNames, NEW ok \in BOOLEAN, NEW t, IsLeftover(t, c)
  PROVE  Answer(c, ok) \in Seq(Pieces) /\ IsAnswer(t \o Answer(c, ok), c, ok)
<1> DEFINE tail == <<Piece("error", ok), Piece("id", ok), Piece("value", ok), Piece("end", ok)>>
           info == <<Piece("info", TRUE)>>
           last == <<Piece("interface", TRUE)>>
<1>1. /\ Piece("error", ok) \in Pieces /\ Piece("id", ok) \in Pieces /\ Piece("value", ok) \in Pieces
      /\ Piece("end", ok) \in Pieces /\ Piece("info", TRUE) \in Pieces
      /\ Piece("interface", TRUE) \in Pieces
      /\ Piece("info", TRUE).part = "info" /\ Piece("interface", TRUE).part = "interface"
  BY PieceIsPiece
<1>2. /\ tail \in Seq(Pieces) /\ Len(tail) = 4 /\ tail[1] = Piece("error", ok)
      /\ tail[2] = Piece("id", ok) /\ tail[3] = Piece("value", ok) /\ tail[4] = Piece("end", ok)
      /\ info \in Seq(Pieces) /\ Len(info) = 1 /\ info[1] = Piece("info", TRUE)
      /\ last \in Seq(Pieces) /\ Len(last) = 1 /\ last[1] = Piece("interface", TRUE)
      /\ <<>> \in Seq(Pieces)
  BY <1>1, Tuples
<1>3. Answer(c, ok) = IF c = "serverinfo" /\ ok THEN info \o tail ELSE <<>> \o tail
  BY DEF Answer
<1> HIDE DEF tail, info, last
<1>4. ASSUME NEW e \in {info, last}
      PROVE  /\ e \o tail \in Seq(Pieces) /\ Len(e \o tail) = 5 /\ (e \o tail)[1] = e[1]
             /\ (e \o tail)[2] = tail[1] /\ (e \o tail)[3] = tail[2]
             /\ (e \o tail)[4] = tail[3] /\ (e \o tail)[5] = tail[4]
  BY <1>2, ConcatOne
<1>differ. /\ (info \o tail)[1].part = "info" /\ (last \o tail)[1].part = "interface"
       /\ info \o tail # tail /\ last \o tail # tail /\ info \o tail # last \o tail
  <2>1. Len(info \o tail) = 5 /\ (info \o tail)[1] = info[1]
    BY <1>4
  <2>2. Len(last \o tail) = 5 /\ (last \o tail)[1] = last[1]
    BY <1>4
  <2>3. (info \o tail)[1].part = "info" /\ (last \o tail)[1].part = "interface"
    BY <1>1, <1>2, <2>1, <2>2
  <2>4. Len(tail) = 4
    BY <1>2
  <2>5. info \o tail # tail /\ last \o tail # tail
    <3>1. Len(info \o tail) # Len(tail) /\ Len(last \o tail) # Len(tail)
      BY <2>1, <2>2, <2>4
    <3> QED BY <3>1, Zenon
  <2>6. info \o tail # last \o tail
    <3>1. (info \o tail)[1].part # (last \o tail)[1].part
      BY <2>3
    <3> QED BY <3>1, Zenon
  <2> QED BY <2>3, <2>5, <2>6
<1>5. <<>> \o tail = tail /\ <<>> \o (info \o tail) = info \o tail
  BY <1>2, <1>4, ConcatEmptySeq
<1>6. Answer(c, ok) \in Seq(Pieces)
  BY <1>2, <1>3, <1>4, <1>5
<1>7. t \o Answer(c, ok) \in {tail, info \o tail, last \o tail}
  BY <1>3, <1>5 DEF IsLeftover, last
<1>8. /\ c = "serverinfo" /\ ok => t \o Answer(c, ok) = info \o tail
      /\ c = "serverinfo" /\ ~ok => t \o Answer(c, ok) = tail
      /\ t \o Answer(c, ok) = info \o tail => c = "serverinfo" /\ ok
  <2>1. c = "serverinfo" => t = <<>>
    BY DEF IsLeftover
  <2>2. t \o Answer(c, ok) = info \o tail => c = "serverinfo" /\ ok
    <3>1. info \o tail # tail /\ info \o tail # last \o tail
      BY <1>differ
    <3> QED BY <1>3, <1>5, <3>1 DEF IsLeftover, last
  <2> QED BY <1>3, <1>5, <2>1, <2>2
<1>9. IsAnswer(t \o Answer(c, ok), c, ok)
  <2>1. CASE t \o Answer(c, ok) = tail
    <3>1. c = "serverinfo" => ~ok
      BY <1>2, <1>4, <1>8, <2>1
    <3> QED BY <1>2, <2>1, <3>1 DEF IsAnswer
  <2>2. CASE t \o Answer(c, ok) = info \o tail
    <3>1. c = "serverinfo" /\ ok
      BY <1>8, <2>2
    <3>2. /\ Len(info \o tail) = 1 + 4 /\ (info \o tail)[1].part = "info"
          /\ (info \o tail)[1 + 1] = tail[1] /\ (info \o tail)[1 + 2] = tail[2]
          /\ (info \o tail)[1 + 3] = tail[3] /\ (info \o tail)[1 + 4] = tail[4]
      <4>1. 1 + 1 = 2 /\ 1 + 2 = 3 /\ 1 + 3 = 4 /\ 1 + 4 = 5
        OBVIOUS
      <4> QED BY <1>4, <1>differ, <4>1
    <3> QED BY <1>2, <1>4, <2>2, <3>1, <3>2 DEF IsAnswer
  <2>3. CASE t \o Answer(c, ok) = last \o tail
    <3>1. c # "serverinfo"
      <4>1. last \o tail # tail /\ last \o tail # info \o tail
        BY <1>differ
      <4> QED BY <1>8, <2>3, <4>1
    <3>2. /\ Len(last \o tail) = 1 + 4 /\ (last \o tail)[1].part = "interface"
          /\ (last \o tail)[1 + 1] = tail[1] /\ (last \o tail)[1 + 2] = tail[2]
          /\ (last \o tail)[1 + 3] = tail[3] /\ (last \o tail)[1 + 4] = tail[4]
      <4>1. 1 + 1 = 2 /\ 1 + 2 = 3 /\ 1 + 3 = 4 /\ 1 + 4 = 5
        OBVIOUS
      <4> QED BY <1>4, <1>differ, <4>1
    <3> QED BY <1>2, <1>4, <2>3, <3>1, <3>2 DEF IsAnswer
  <2> QED BY <1>7, <2>1, <2>2, <2>3
<1> QED BY <1>6, <1>9

-----------------------------------------------------------------------------
(* Chunks.                                                                 *)

\* A chunk cuts the stream in two, and loses nothing.
LEMMA Chunk ==
  ASSUME NEW b \in Seq(Pieces), NEW w \in Seq(Pieces), NEW n \in 1 .. Len(w)
  PROVE  /\ b \o SubSeq(w, 1, n) \in Seq(Pieces)
         /\ SubSeq(w, n + 1, Len(w)) \in Seq(Pieces)
         /\ (b \o SubSeq(w, 1, n)) \o SubSeq(w, n + 1, Len(w)) = b \o w
         /\ Len(b \o SubSeq(w, 1, n)) \in 1 .. Len(b \o w)
<1> DEFINE front == SubSeq(w, 1, n)
           back  == SubSeq(w, n + 1, Len(w))
<1>1. Len(w) \in Nat /\ Len(b) \in Nat /\ n \in Nat /\ \A i \in 1 .. Len(w) : w[i] \in Pieces
  BY LenProperties, ElementOfSeq
<1>2. front \in Seq(Pieces) /\ Len(front) = n /\ back \in Seq(Pieces)
  BY <1>1, SubSeqProperties
<1>3. front \o back = w
  <2>1. /\ 1 \in 1 .. Len(w) + 1 /\ n \in 1 - 1 .. Len(w) /\ Len(w) \in n .. Len(w)
    BY <1>1
  <2>2. SubSeq(w, 1, n) \o SubSeq(w, n + 1, Len(w)) = SubSeq(w, 1, Len(w))
    BY <2>1, ConcatAdjacentSubSeq
  <2> QED BY <2>2, SubSeqFull
<1> HIDE DEF front, back
<1>4. (b \o front) \o back = b \o w
  BY <1>2, <1>3, ConcatTwice
<1>5. b \o front \in Seq(Pieces) /\ Len(b \o front) = Len(b) + n /\ Len(b \o w) = Len(b) + Len(w)
  BY <1>2, ConcatProperties
<1>6. Len(b \o front) \in 1 .. Len(b \o w)
  BY <1>1, <1>5
<1> QED BY <1>2, <1>4, <1>5, <1>6 DEF front, back

\* What has arrived is a prefix of the stream.
LEMMA Prefix ==
  ASSUME NEW s \in Seq(Pieces), NEW r \in Seq(Pieces)
  PROVE  /\ Len(s) \in Nat /\ Len(r) \in Nat /\ Len(s \o r) = Len(s) + Len(r)
         /\ \A i \in 1 .. Len(s) : s[i] = (s \o r)[i]
         /\ \A i \in 1 .. Len(s) : s[i] \in Pieces
         /\ DOMAIN s = 1 .. Len(s)
         /\ Len(r) = 0 => r = <<>>
<1>1. /\ Len(s) \in Nat /\ Len(r) \in Nat /\ DOMAIN s = 1 .. Len(s)
      /\ \A i \in 1 .. Len(s) : s[i] \in Pieces
  BY LenProperties, ElementOfSeq
<1>2. /\ Len(s \o r) = Len(s) + Len(r)
      /\ \A i \in 1 .. Len(s) + Len(r) : (s \o r)[i] = IF i <= Len(s) THEN s[i] ELSE r[i - Len(s)]
  BY ConcatProperties
<1>3. Len(r) = 0 => r = <<>>
  BY EmptySeq
<1> QED BY <1>1, <1>2, <1>3

LEMMA FirstIs ==
  ASSUME NEW s, NEW part, NEW i \in DOMAIN s, s[i].part = part,
         \A j \in DOMAIN s : s[j].part = part => j = i, i \in Nat
  PROVE  First(s, part) = i
<1>1. {j \in DOMAIN s : s[j].part = part} = {i}
  OBVIOUS
<1> QED BY <1>1 DEF First

\* Of the lines that match, there is a first one.
LEMMA FirstExists ==
  ASSUME NEW s \in Seq(Pieces), NEW part
  PROVE  First(s, part) \in 0 .. Len(s)
<1> DEFINE at == {i \in DOMAIN s : s[i].part = part}
           before == OpToRel(<, Nat)
<1>1. Len(s) \in Nat /\ DOMAIN s = 1 .. Len(s)
  BY LenProperties
<1>2. at \subseteq 1 .. Len(s) /\ at \subseteq Nat
  BY <1>1
<1>3. CASE at = {}
  BY <1>1, <1>3 DEF First
<1>4. CASE at # {}
  <2>1. IsWellFoundedOn(before, Nat)
    BY NatLessThanWellFounded
  <2>2. \A i, j \in Nat : i < j => <<i, j>> \in before
    BY DEF OpToRel
  <2> HIDE DEF at, before
  <2>3. PICK i \in at : \A j \in at : ~(<<j, i>> \in before)
    BY <1>2, <1>4, <2>1, WFMin
  <2>4. \A j \in at : ~(j < i)
    BY <1>2, <2>2, <2>3
  <2>5. \A j \in at : i <= j
    <3>1. \A j \in at : j \in Nat /\ i \in Nat
      BY <1>2, <2>3
    <3> QED BY <2>4, <3>1
  <2>6. (CHOOSE k \in at : \A j \in at : k <= j) \in at
    BY <2>3, <2>5
  <2>7. First(s, part) \in at
    BY <1>4, <2>6 DEF First, at
  <2>8. First(s, part) \in 1 .. Len(s)
    BY <1>2, <2>7
  <2> QED BY <1>1, <2>8
<1> QED BY <1>3, <1>4

\* A command takes an answer whose line is whole: then it takes all there is, and
\* nothing stays behind for the next one.
LEMMA WholeAnswer ==
  ASSUME NEW s \in Seq(Pieces), NEW r \in Seq(Pieces), NEW c \in CommandNames, NEW ok \in BOOLEAN,
         IsAnswer(s \o r, c, ok), Len(s) # 0,
         First(s, "error") # 0, s[LineEnd(s)].part = "end"
  PROVE  /\ r = <<>> /\ Rest(s) = <<>>
         /\ ErrorId(s) = "zero" <=> ok
         /\ c = "serverinfo" => (HasInfo(s) <=> ok)
<1> DEFINE t == s \o r
<1>1. /\ Len(s) \in Nat /\ Len(r) \in Nat /\ Len(t) = Len(s) + Len(r)
      /\ \A i \in 1 .. Len(s) : s[i] = t[i]
      /\ DOMAIN s = 1 .. Len(s)
      /\ Len(r) = 0 => r = <<>>
  BY Prefix
<1>2. IsAnswer(t, c, ok)
  OBVIOUS
<1> HIDE DEF t
<1>3. PICK h \in {0, 1} :
        /\ Len(t) = h + 4
        /\ t[h + 1] = Piece("error", ok) /\ t[h + 2] = Piece("id", ok)
        /\ t[h + 3] = Piece("value", ok) /\ t[h + 4] = Piece("end", ok)
        /\ h = 1 => t[1].part \in {"interface", "info"}
        /\ c = "serverinfo" => (ok <=> h = 1) /\ (h = 1 => t[1].part = "info")
  BY <1>2 DEF IsAnswer
<1>4. /\ t[h + 1].part = "error" /\ t[h + 2].part = "id" /\ t[h + 3].part = "value"
      /\ t[h + 4].part = "end" /\ t[h + 3].ok = ok
  BY <1>3, PieceIsPiece
<1>5. \A i \in 1 .. h + 4 : /\ t[i].part = "error" => i = h + 1
                            /\ t[i].part = "end" => i = h + 4
  <2> TAKE i \in 1 .. h + 4
  <2>1. i \in {h + 1, h + 2, h + 3, h + 4} \/ (h = 1 /\ i = 1)
    OBVIOUS
  <2> QED BY <1>3, <1>4, <2>1
<1>6. First(s, "error") = h + 1 /\ h + 1 \in 1 .. Len(s)
  <2>1. \A j \in DOMAIN s : s[j].part = "error" => j = h + 1
    BY <1>1, <1>3, <1>5
  <2>2. h + 1 \in DOMAIN s /\ s[h + 1].part = "error"
    <3>1. {j \in DOMAIN s : s[j].part = "error"} # {}
      BY DEF First
    <3> QED BY <2>1, <3>1
  <2> QED BY <1>1, <2>1, <2>2, FirstIs
<1>7. LineEnd(s) = Len(s) /\ Len(s) \in 1 .. h + 4
  BY <1>1, <1>3, <1>6 DEF LineEnd
<1>8. Len(s) = h + 4
  BY <1>1, <1>5, <1>7
<1>9. r = <<>>
  BY <1>1, <1>3, <1>8
<1>10. Rest(s) = <<>>
  BY <1>7, SubSeqEmpty DEF Rest
<1>11. ErrorId(s) = "zero" <=> ok
  <2>1. /\ Len(s) # h + 1 /\ Len(s) # (h + 1) + 1 /\ s[(h + 1) + 2] = t[h + 3]
    BY <1>1, <1>8
  <2> QED BY <1>4, <1>6, <2>1 DEF ErrorId
<1>12. ASSUME c = "serverinfo" PROVE HasInfo(s) <=> ok
  <2>1. s[1] = t[1]
    BY <1>1, <1>8
  <2>2. ok => t[1].part = "info"
    BY <1>3, <1>12
  <2>3. ~ok => t[1].part = "error"
    BY <1>3, <1>4, <1>12
  <2> QED BY <2>1, <2>2, <2>3 DEF HasInfo
<1> QED BY <1>9, <1>10, <1>11, <1>12

-----------------------------------------------------------------------------
(* The steps.                                                              *)

LEMMA NoPieces ==
  <<>> \in Seq(Pieces) /\ <<>> \in Seq(CommandNames) /\ <<>> \in Seq(BOOLEAN)
BY EmptySeq

LEMMA InitInv == Init => Inv
<1> SUFFICES ASSUME Init PROVE Inv
  OBVIOUS
<1>1. TypeOK
  BY NoPieces DEF Init, TypeOK
<1>2. ~Pending
  BY Positions DEF Init, Pending
<1> QED BY <1>1, <1>2 DEF Init, Inv, SocketsAreClosed, SessionInv, ConnectInv, PendingInv, SavedInv

LEMMA RefreshInv == ASSUME Inv, Refresh PROVE Inv'
<1>1. TypeOK'
  BY NoPieces DEF Inv, TypeOK, Refresh
<1>2. /\ pc' \in {"connect", "save"}
      /\ pc' = "save" => socket' = "none" /\ outcome' = "failed"
      /\ ~bannerSeen' /\ inbox' = <<>> /\ answers' = <<>> /\ buffer' = <<>> /\ wire' = <<>>
  BY DEF Refresh
<1>3. Stream' = <<>>
  <2>1. <<>> \o <<>> = <<>>
    BY ConcatEmptySeq, EmptySeq
  <2> QED BY <1>2, <2>1 DEF Stream
<1>4. ~Pending'
  BY <1>2, Positions DEF Pending
<1> QED BY <1>1, <1>2, <1>3, <1>4 DEF Inv, SocketsAreClosed, SessionInv, ConnectInv, PendingInv, SavedInv

\* The service goes on, or the server is removed: the session is over, or not touched.
LEMMA ServiceInv == ASSUME Inv, SaveStatus \/ RemoveServer \/ UNCHANGED vars PROVE Inv'
<1>1. UNCHANGED <<connection, outcome>> /\ (pc' = pc \/ (pc' = "idle" /\ pc = "save"))
  BY DEF SaveStatus, RemoveServer, vars
<1>2. row' \in {"deleted", "unknown", "reachable", "unreachable"}
  BY DEF SaveStatus, RemoveServer, vars, StatusToServerUpdate, Inv, TypeOK
<1>3. TypeOK'
  BY <1>1, <1>2 DEF Inv, TypeOK, connection
<1>4. Stream' = Stream
  BY <1>1 DEF Stream, connection
<1>5. CASE pc' = pc
  BY <1>1, <1>3, <1>4, <1>5 DEF Inv, SocketsAreClosed, SessionInv, ConnectInv, PendingInv, SavedInv,
     Pending, connection
<1>6. CASE pc' = "idle" /\ pc = "save"
  <2>1. ~Pending'
    BY <1>6, Positions DEF Pending
  <2> QED BY <1>1, <1>3, <1>6, <2>1
          DEF Inv, SocketsAreClosed, SessionInv, ConnectInv, PendingInv, SavedInv, connection
<1> QED BY <1>1, <1>5, <1>6

LEMMA GreetInv == ASSUME Inv, Greet PROVE Inv'
<1>1. /\ pc = "connect" /\ wire' = Banner /\ buffer = <<>>
      /\ UNCHANGED <<row, pc, socket, bannerSeen, buffer, inbox, answers, torn, outcome>>
  BY DEF Greet
<1>2. TypeOK'
  BY <1>1, BannerPieces DEF Inv, TypeOK
<1>3. Stream' = Banner
  BY <1>1, BannerPieces, ConcatEmptySeq DEF Stream
<1>4. ~Pending'
  BY <1>1, Positions DEF Pending
<1> QED BY <1>1, <1>2, <1>3, <1>4
        DEF Inv, SocketsAreClosed, SessionInv, ConnectInv, PendingInv, SavedInv

\* The server answers the pending command.
LEMMA ReplyInv == ASSUME Inv, Reply PROVE Inv'
<1>1. PICK ok \in BOOLEAN :
        /\ wire' = wire \o Answer(Head(inbox), ok)
        /\ answers' = Append(answers, ok)
  BY DEF Reply
<1>2. /\ socket = "open" /\ inbox # <<>> /\ inbox' = Tail(inbox)
      /\ UNCHANGED <<row, pc, socket, bannerSeen, buffer, torn, outcome>>
  BY DEF Reply
<1>3. /\ inbox \in Seq(CommandNames) /\ answers \in Seq(BOOLEAN) /\ wire \in Seq(Pieces)
      /\ buffer \in Seq(Pieces)
  BY DEF Inv, TypeOK
<1>4. Head(inbox) \in CommandNames /\ inbox' \in Seq(CommandNames)
  BY <1>2, <1>3, HeadTailProperties
<1>5. Answer(Head(inbox), ok) \in Seq(Pieces)
  <2>1. IsLeftover(<<>>, Head(inbox))
    BY DEF IsLeftover
  <2> QED BY <1>4, <2>1, AnswerIsAnswer
<1>6. TypeOK'
  <2>1. wire' \in Seq(Pieces) /\ answers' \in Seq(BOOLEAN)
    BY <1>1, <1>3, <1>5, Concat, AppendProperties
  <2> QED BY <1>2, <1>4, <2>1 DEF Inv, TypeOK
<1>7. pc \notin {"connect", "idle", "save"}
  BY <1>2 DEF Inv, SessionInv, ConnectInv, SocketsAreClosed
<1>8. ASSUME Pending, ~torn PROVE PendingInv'
  <2>1. /\ bannerSeen /\ \A i \in 1 .. Position(pc) - 1 : answers[i]
        /\ inbox = <<pc>> /\ Len(answers) = Position(pc) - 1 /\ IsLeftover(Stream, pc)
    BY <1>2, <1>8 DEF Inv, SessionInv, PendingInv
  <2>2. pc \in CommandNames /\ Head(inbox) = pc /\ Tail(inbox) = <<>>
    BY <1>8, <2>1 DEF Pending
  <2>3. Position(pc) \in {1, 2, 3}
    BY <2>2, Positions
  <2>4. /\ Len(answers') = Position(pc) /\ answers'[Position(pc)] = ok
        /\ \A i \in 1 .. Position(pc) - 1 : answers'[i] = answers[i]
    BY <1>1, <1>3, <2>1, <2>3, AppendProperties
  <2>5. Stream' = Stream \o Answer(pc, ok)
    BY <1>1, <1>2, <1>3, <1>5, <2>2, ConcatTwice DEF Stream
  <2>6. IsAnswer(Stream', pc, ok)
    BY <2>1, <2>2, <2>5, AnswerIsAnswer
  <2> QED BY <1>2, <2>1, <2>2, <2>4, <2>6 DEF PendingInv
<1>9. PendingInv'
  BY <1>2, <1>8 DEF PendingInv, Pending
<1> QED BY <1>2, <1>6, <1>7, <1>9 DEF Inv, SocketsAreClosed, SessionInv, ConnectInv, SavedInv

\* Every way a session fails.
LEMMA EndInv ==
  ASSUME Inv, ConnectTimeout \/ CommandTimeout \/ SocketError \/ PeerCloses
  PROVE  Inv'
<1>1. UNCHANGED <<row, bannerSeen, buffer, wire, inbox, answers, torn>> /\ socket' = "closed"
  BY DEF ConnectTimeout, CommandTimeout, SocketError, PeerCloses, Finish
<1>2. \/ pc' = "save" /\ outcome' = "failed"
      \/ UNCHANGED <<pc, outcome>>
  BY DEF ConnectTimeout, CommandTimeout, SocketError, PeerCloses, Finish
<1>3. TypeOK'
  BY <1>1, <1>2 DEF Inv, TypeOK
<1>4. Stream' = Stream
  BY <1>1 DEF Stream
<1>5. CASE pc' = "save" /\ outcome' = "failed"
  <2>1. ~Pending'
    BY <1>5, Positions DEF Pending
  <2> QED BY <1>1, <1>3, <1>5, <2>1
          DEF Inv, SocketsAreClosed, SessionInv, ConnectInv, PendingInv, SavedInv
<1>6. CASE UNCHANGED <<pc, outcome>>
  BY <1>1, <1>3, <1>4, <1>6
     DEF Inv, SocketsAreClosed, SessionInv, ConnectInv, PendingInv, SavedInv, Pending
<1> QED BY <1>2, <1>5, <1>6

\* A chunk arrives: before the end of the banner, in the middle of an answer, or
\* with the end of one.
LEMMA DataInv == ASSUME Inv, NEW n \in 1 .. Len(wire), Data(n) PROVE Inv'
<1> DEFINE s == buffer \o SubSeq(wire, 1, n)
           r == SubSeq(wire, n + 1, Len(wire))
<1>1. /\ socket = "open" /\ wire' = r /\ UNCHANGED <<row, answers>>
  BY DEF Data
<1>2. /\ buffer \in Seq(Pieces) /\ wire \in Seq(Pieces)
      /\ inbox \in Seq(CommandNames) /\ answers \in Seq(BOOLEAN)
  BY DEF Inv, TypeOK
<1>3. /\ s \in Seq(Pieces) /\ r \in Seq(Pieces) /\ s \o r = Stream /\ Len(s) # 0
  <2>1. /\ s \in Seq(Pieces) /\ r \in Seq(Pieces) /\ s \o r = Stream
        /\ Len(s) \in 1 .. Len(Stream)
    BY <1>2, Chunk DEF Stream
  <2> HIDE DEF s, r
  <2>2. Len(s) # 0
    BY <2>1
  <2> QED BY <2>1, <2>2
<1>4. \/ /\ ~bannerSeen /\ First(s, "welcome") = 0
         /\ buffer' = s /\ UNCHANGED <<pc, bannerSeen, inbox, socket, outcome, torn>>
      \/ /\ ~bannerSeen /\ First(s, "welcome") # 0
         /\ buffer' = <<>> /\ bannerSeen' = TRUE /\ Send("login") /\ UNCHANGED torn
      \/ /\ bannerSeen /\ First(s, "error") = 0
         /\ buffer' = s /\ UNCHANGED <<pc, bannerSeen, inbox, socket, outcome, torn>>
      \/ /\ bannerSeen /\ First(s, "error") # 0
         /\ buffer' = Rest(s) /\ torn' = (torn \/ s[LineEnd(s)].part # "end")
         /\ Settle(s) /\ UNCHANGED bannerSeen
  BY DEF Data
<1> HIDE DEF s, r
<1>5. pc = "connect" \/ Pending
  BY <1>1, Positions DEF Inv, TypeOK, SocketsAreClosed, Pending
\* Nothing is complete yet.
<1>6. CASE buffer' = s /\ UNCHANGED <<pc, bannerSeen, inbox, socket, outcome, torn>>
  <2>1. Stream' = Stream
    BY <1>1, <1>3, <1>6 DEF Stream
  <2>2. TypeOK'
    BY <1>1, <1>3, <1>6 DEF Inv, TypeOK
  <2> QED BY <1>1, <1>6, <2>1, <2>2
          DEF Inv, SocketsAreClosed, SessionInv, ConnectInv, PendingInv, SavedInv, Pending
\* The banner: what is left of it stays on the wire.
<1>7. CASE /\ ~bannerSeen /\ First(s, "welcome") # 0
           /\ buffer' = <<>> /\ bannerSeen' = TRUE /\ Send("login") /\ UNCHANGED torn
  <2>1. /\ pc' = "login" /\ inbox' = Append(inbox, "login") /\ UNCHANGED <<socket, outcome>>
    BY <1>7 DEF Send
  <2>2. TypeOK'
    <3>1. inbox' \in Seq(CommandNames)
      BY <1>2, <2>1, Positions, AppendProperties
    <3> QED BY <1>1, <1>3, <1>7, <2>1, <3>1, Positions, NoPieces DEF Inv, TypeOK
  <2>3. ASSUME ~torn
        PROVE  /\ inbox' = <<"login">> /\ answers' = <<>> /\ IsLeftover(Stream', "login")
    <3>1. pc = "connect"
      BY <1>5, <1>7, <2>3 DEF Inv, SessionInv, PendingInv
    <3>2. inbox = <<>> /\ answers = <<>> /\ (Stream = <<>> \/ Stream = Banner)
      BY <3>1 DEF Inv, SessionInv, ConnectInv
    <3>3. /\ Len(s) \in Nat /\ Len(r) \in Nat /\ Len(Stream) = Len(s) + Len(r)
          /\ \A i \in 1 .. Len(s) : s[i] = Stream[i]
          /\ DOMAIN s = 1 .. Len(s)
          /\ Len(r) = 0 => r = <<>>
      BY <1>3, Prefix
    <3>4. Stream = Banner /\ Len(Stream) = 3
      <4>1. Len(Stream) # 0
        BY <1>3, <3>3
      <4>2. Len(<<>>) = 0
        OBVIOUS
      <4> QED BY <3>2, <4>1, <4>2, BannerPieces
    <3>5. Len(s) >= 2
      <4>1. {i \in DOMAIN s : s[i].part = "welcome"} # {}
        BY <1>7 DEF First
      <4>2. PICK i \in 1 .. Len(s) : s[i].part = "welcome"
        BY <3>3, <4>1
      <4>3. s[1].part = "hello"
        BY <1>3, <3>3, <3>4, BannerPieces
      <4> QED BY <3>3, <4>2, <4>3
    <3>6. Stream' = r
      <4>1. <<>> \o r = r
        BY <1>3, ConcatEmptySeq
      <4> QED BY <1>1, <1>7, <4>1 DEF Stream
    <3>7. r = <<>> \/ r = <<Piece("interface", TRUE)>>
      <4>lengths. Len(s) \in Nat /\ Len(r) \in Nat /\ Len(s) + Len(r) = 3
        <5>1. Len(s) + Len(r) = Len(Stream)
          BY <3>3
        <5> QED BY <3>3, <3>4, <5>1
      <4>1. Len(r) \in {0, 1}
        BY <3>5, <4>lengths
      <4>2. CASE Len(r) = 1
        <5>1. Len(s) = 2
          <6>1. Len(s) = 3 - Len(r) /\ 3 - 1 = 2
            BY <4>lengths
          <6> QED BY <4>2, <6>1
        <5>2. (s \o r)[3] = r[1]
          <6>1. \A i \in 1 .. Len(s) + Len(r) :
                  (s \o r)[i] = IF i <= Len(s) THEN s[i] ELSE r[i - Len(s)]
            BY <1>3, Concat
          <6>2. 3 \in 1 .. Len(s) + Len(r) /\ ~(3 <= Len(s)) /\ 3 - Len(s) = 1
            BY <4>2, <5>1
          <6> QED BY <6>1, <6>2
        <5>3. r[1] = Piece("interface", TRUE)
          BY <1>3, <3>4, <5>2, BannerPieces
        <5>4. /\ <<Piece("interface", TRUE)>> \in Seq(Pieces)
              /\ Len(<<Piece("interface", TRUE)>>) = 1
              /\ <<Piece("interface", TRUE)>>[1] = Piece("interface", TRUE)
          <6>1. Piece("interface", TRUE) \in Pieces
            BY PieceIsPiece
          <6> QED BY <6>1, Tuples
        <5>5. \A i \in 1 .. Len(r) : r[i] = <<Piece("interface", TRUE)>>[i]
          <6>1. \A i \in 1 .. Len(r) : i = 1
            BY <4>2
          <6> QED BY <5>3, <5>4, <6>1
        <5> QED BY <1>3, <4>2, <5>4, <5>5, SeqEqual
      <4> QED BY <3>3, <4>1, <4>2
    <3>8. inbox' = <<"login">>
      BY <2>1, <3>2
    <3>9. IsLeftover(Stream', "login")
      BY <3>6, <3>7 DEF IsLeftover
    <3> QED BY <1>1, <3>2, <3>8, <3>9
  <2>4. PendingInv'
    <3>1. ASSUME ~torn PROVE Len(answers') = 0
      <4>1. Len(<<>>) = 0
        OBVIOUS
      <4> QED BY <2>3, <3>1, <4>1
    <3>2. Position("login") = 1 /\ 1 .. 1 - 1 = {} /\ 1 - 1 = 0
      BY Positions
    <3> QED BY <1>7, <2>1, <2>3, <3>1, <3>2 DEF PendingInv
  <2> QED BY <1>1, <2>1, <2>2, <2>4
          DEF Inv, SocketsAreClosed, SessionInv, ConnectInv, SavedInv
\* The end of an answer: the next command, or the end of the session.
<1>8. CASE /\ bannerSeen /\ First(s, "error") # 0
           /\ buffer' = Rest(s) /\ torn' = (torn \/ s[LineEnd(s)].part # "end")
           /\ Settle(s) /\ UNCHANGED bannerSeen
  <2>1. pc \in CommandNames /\ Position(pc) \in {1, 2, 3}
    BY <1>5, <1>8, Positions DEF Inv, SessionInv, ConnectInv, Pending
  <2>2. \/ /\ ErrorId(s) # "zero" /\ Finish("failed")
        \/ /\ ErrorId(s) = "zero" /\ pc = "serverinfo"
           /\ Finish(IF HasInfo(s) THEN "complete" ELSE "empty")
        \/ /\ ErrorId(s) = "zero" /\ pc # "serverinfo"
           /\ Send(Commands[Position(pc) + 1])
    BY <1>8 DEF Settle
  <2>3. Rest(s) \in Seq(Pieces) /\ torn' \in BOOLEAN
    <3>1. Len(s) \in Nat /\ \A i \in 1 .. Len(s) : s[i] \in Pieces
      BY <1>3, LenProperties, ElementOfSeq
    <3>2. LineEnd(s) \in Nat
      <4>1. First(s, "error") \in Nat
        BY <1>3, FirstExists
      <4> QED BY <3>1, <4>1 DEF LineEnd
    <3>3. \A i \in LineEnd(s) + 1 .. Len(s) : s[i] \in Pieces
      BY <3>1, <3>2
    <3> QED BY <1>8, <3>1, <3>2, <3>3, SubSeqProperties DEF Rest, Inv, TypeOK
  <2>4. /\ pc' \in CommandNames \cup {"save"} /\ inbox' \in Seq(CommandNames)
        /\ socket' \in {"open", "closed"}
        /\ pc' = "save" => socket' = "closed"
        /\ outcome' \in {"none", "complete", "empty", "failed"}
    <3>1. CASE Finish("failed") \/ Finish(IF HasInfo(s) THEN "complete" ELSE "empty")
      BY <1>1, <1>2, <3>1 DEF Finish
    <3>2. CASE pc # "serverinfo" /\ Send(Commands[Position(pc) + 1])
      <4>1. Commands[Position(pc) + 1] \in {"use", "serverinfo"}
        BY <2>1, <3>2, Positions
      <4>2. inbox' \in Seq(CommandNames)
        BY <1>2, <3>2, <4>1, Positions, AppendProperties DEF Send
      <4> QED BY <1>1, <3>2, <4>1, <4>2, Positions DEF Send, Inv, TypeOK
    <3> QED BY <2>2, <3>1, <3>2
  <2>5. TypeOK'
    BY <1>1, <1>3, <1>8, <2>3, <2>4 DEF Inv, TypeOK
  <2>6. pc' # "connect" /\ pc' # "idle"
    BY <2>4, Positions
  <2>7. ASSUME ~torn' PROVE PendingInv' /\ SavedInv'
    <3>1. Pending /\ ~torn /\ s[LineEnd(s)].part = "end"
      BY <1>8, <2>1, <2>7 DEF Pending
    <3>2. /\ \A i \in 1 .. Position(pc) - 1 : answers[i]
          /\ \/ /\ inbox = <<pc>> /\ Len(answers) = Position(pc) - 1
                /\ IsLeftover(Stream, pc)
             \/ /\ inbox = <<>> /\ Len(answers) = Position(pc)
                /\ IsAnswer(Stream, pc, answers[Position(pc)])
      BY <3>1 DEF Inv, SessionInv, PendingInv
    <3>3. ~IsLeftover(Stream, pc)
      <4>1. SUFFICES ASSUME IsLeftover(Stream, pc) PROVE FALSE
        OBVIOUS
      <4>2. /\ Len(s) \in Nat /\ Len(r) \in Nat /\ Len(Stream) = Len(s) + Len(r)
            /\ \A i \in 1 .. Len(s) : s[i] = Stream[i]
            /\ DOMAIN s = 1 .. Len(s)
        BY <1>3, Prefix
      <4>3. Len(<<>>) = 0
        OBVIOUS
      <4>4. Stream = <<Piece("interface", TRUE)>>
        <5>1. Len(Stream) # 0
          BY <1>3, <4>2
        <5> QED BY <4>1, <4>3, <5>1 DEF IsLeftover
      <4>5. Len(Stream) = 1 /\ Stream[1].part = "interface"
        BY <4>4, PieceIsPiece, Tuples
      <4>6. \A i \in DOMAIN s : s[i].part = "interface"
        <5>1. \A i \in 1 .. Len(s) : i = 1
          <6>1. Len(s) <= 1 /\ Len(s) \in Nat
            <7>1. Len(s) + Len(r) = 1
              BY <4>2, <4>5
            <7> QED BY <4>2, <7>1
          <6> QED BY <6>1
        <5> QED BY <4>2, <4>5, <5>1
      <4>7. {i \in DOMAIN s : s[i].part = "error"} = {}
        BY <4>6
      <4> QED BY <1>8, <4>7 DEF First
    <3>4. /\ inbox = <<>> /\ Len(answers) = Position(pc)
          /\ IsAnswer(s \o r, pc, answers[Position(pc)]) /\ answers[Position(pc)] \in BOOLEAN
      <4>1. inbox = <<>> /\ Len(answers) = Position(pc)
        BY <3>2, <3>3
      <4>2. Position(pc) \in 1 .. Len(answers)
        BY <2>1, <4>1
      <4> QED BY <1>2, <1>3, <3>2, <3>3, <4>1, <4>2, ElementOfSeq
    <3>5. /\ r = <<>> /\ Rest(s) = <<>>
          /\ ErrorId(s) = "zero" <=> answers[Position(pc)]
          /\ pc = "serverinfo" => (HasInfo(s) <=> answers[Position(pc)])
      <4>1. PICK ok \in BOOLEAN : ok = answers[Position(pc)]
        BY <3>4
      <4>2. IsAnswer(s \o r, pc, ok)
        BY <3>4, <4>1
      <4>3. /\ r = <<>> /\ Rest(s) = <<>>
            /\ ErrorId(s) = "zero" <=> ok
            /\ pc = "serverinfo" => (HasInfo(s) <=> ok)
        BY <1>3, <1>8, <2>1, <3>1, <4>2, WholeAnswer
      <4> QED BY <4>1, <4>3
    <3>6. Stream' = <<>>
      <4>1. <<>> \o <<>> = <<>>
        BY ConcatEmptySeq, NoPieces
      <4> QED BY <1>1, <1>8, <3>5, <4>1 DEF Stream
    <3>7. CASE ErrorId(s) # "zero" /\ Finish("failed")
      BY <3>7, Positions DEF Finish, PendingInv, SavedInv, Pending
    <3>8. CASE /\ ErrorId(s) = "zero" /\ pc = "serverinfo"
               /\ Finish(IF HasInfo(s) THEN "complete" ELSE "empty")
      <4>1. pc' = "save" /\ outcome' = "complete"
        BY <3>5, <3>8 DEF Finish
      <4>2. Len(answers) = 3 /\ answers[1] /\ answers[2] /\ answers[3]
        <5>1. Position(pc) = 3 /\ 1 \in 1 .. 3 - 1 /\ 2 \in 1 .. 3 - 1
          BY <3>8, Positions
        <5> QED BY <3>2, <3>4, <3>5, <3>8, <5>1
      <4>3. answers = <<TRUE, TRUE, TRUE>>
        <5>1. \A i \in 1 .. 3 : answers[i] \in BOOLEAN
          BY <1>2, <4>2, ElementOfSeq
        <5>2. answers[1] = TRUE /\ answers[2] = TRUE /\ answers[3] = TRUE
          BY <4>2, <5>1
        <5>3. /\ <<TRUE, TRUE, TRUE>> \in Seq(BOOLEAN) /\ Len(<<TRUE, TRUE, TRUE>>) = 3
              /\ <<TRUE, TRUE, TRUE>>[1] = TRUE /\ <<TRUE, TRUE, TRUE>>[2] = TRUE
              /\ <<TRUE, TRUE, TRUE>>[3] = TRUE
          OBVIOUS
        <5>4. \A i \in 1 .. 3 : answers[i] = <<TRUE, TRUE, TRUE>>[i]
          <6>1. \A i \in 1 .. 3 : i \in {1, 2, 3}
            OBVIOUS
          <6> QED BY <5>2, <5>3, <6>1
        <5> QED BY <1>2, <4>2, <5>3, <5>4, SeqEqual
      <4> QED BY <1>1, <4>1, <4>3, Positions DEF PendingInv, SavedInv, Pending
    <3>9. CASE /\ ErrorId(s) = "zero" /\ pc # "serverinfo"
               /\ Send(Commands[Position(pc) + 1])
      <4>1. /\ pc' = Commands[Position(pc) + 1] /\ inbox' = Append(<<>>, pc')
        BY <3>4, <3>9 DEF Send
      <4>2. /\ pc' \in CommandNames /\ pc' # "save" /\ Position(pc') = Position(pc) + 1
        BY <2>1, <3>9, <4>1, Positions
      <4>3. inbox' = <<pc'>>
        BY <4>1
      <4>4. \A i \in 1 .. Position(pc) : answers[i]
        <5>1. \A i \in 1 .. Position(pc) : i \in 1 .. Position(pc) - 1 \/ i = Position(pc)
          BY <2>1
        <5> QED BY <3>2, <3>5, <3>9, <5>1
      <4>5. (Position(pc) + 1) - 1 = Position(pc)
        BY <2>1
      <4>6. Len(answers') = Position(pc') - 1 /\ \A i \in 1 .. Position(pc') - 1 : answers'[i]
        BY <1>1, <3>4, <4>2, <4>4, <4>5
      <4>7. IsLeftover(Stream', pc')
        BY <3>6 DEF IsLeftover
      <4> QED BY <1>8, <4>2, <4>3, <4>6, <4>7 DEF PendingInv, SavedInv
    <3> QED BY <2>2, <3>7, <3>8, <3>9
  <2>8. PendingInv' /\ SavedInv'
    BY <2>7 DEF PendingInv, SavedInv
  <2> QED BY <2>4, <2>5, <2>6, <2>8 DEF Inv, SocketsAreClosed, SessionInv, ConnectInv
<1> QED BY <1>4, <1>6, <1>7, <1>8

LEMMA StepInv == Inv /\ [Next]_vars => Inv'
<1> SUFFICES ASSUME Inv, [Next]_vars PROVE Inv'
  OBVIOUS
<1>1. CASE Refresh
  BY <1>1, RefreshInv
<1>2. CASE SaveStatus \/ RemoveServer \/ UNCHANGED vars
  BY <1>2, ServiceInv
<1>3. CASE Greet
  BY <1>3, GreetInv
<1>4. CASE Reply
  BY <1>4, ReplyInv
<1>5. CASE \E n \in 1 .. Len(wire) : Data(n)
  BY <1>5, DataInv
<1>6. CASE ConnectTimeout \/ CommandTimeout \/ SocketError \/ PeerCloses
  BY <1>6, EndInv
<1> QED BY <1>1, <1>2, <1>3, <1>4, <1>5, <1>6 DEF Next

LEMMA Invariance == Spec => []Inv
BY InitInv, StepInv, PTL DEF Spec

-----------------------------------------------------------------------------
(* The theorems.                                                           *)

\* The variables keep their types: parsing takes pieces of the stream apart and
\* never reads behind its end (ts3/client.ts, ts3/protocol.ts).
THEOREM TypeCorrect == Spec => []TypeOK
<1>1. Inv => TypeOK
  BY DEF Inv
<1> QED BY <1>1, Invariance, PTL

\* For every cut of banner and answers that does not fall inside an error line, a
\* command is pending because all before it were accepted, and a server counts as
\* reachable only by its own three answers (client.ts:36, 106).
THEOREM AnswersCorrect == Spec => []AnswersAreOwn
<1>1. Inv => AnswersAreOwn
  <2> SUFFICES ASSUME Inv, ~torn PROVE
        /\ Pending => /\ Len(answers) + Len(inbox) = Position(pc)
                      /\ \A i \in 1 .. Position(pc) - 1 : answers[i]
        /\ (pc = "save" /\ outcome # "failed") => outcome = "complete" /\ answers = <<TRUE, TRUE, TRUE>>
    BY DEF AnswersAreOwn
  <2>1. Len(<<pc>>) = 1 /\ Len(<<>>) = 0
    OBVIOUS
  <2>2. Pending => Position(pc) \in {1, 2, 3}
    BY Positions DEF Pending
  <2>3. ASSUME Pending PROVE /\ Len(answers) + Len(inbox) = Position(pc)
                             /\ \A i \in 1 .. Position(pc) - 1 : answers[i]
    <3>1. \A i \in 1 .. Position(pc) - 1 : answers[i]
      BY <2>3 DEF Inv, SessionInv, PendingInv
    <3>2. \/ inbox = <<pc>> /\ Len(answers) = Position(pc) - 1
          \/ inbox = <<>> /\ Len(answers) = Position(pc)
      BY <2>3 DEF Inv, SessionInv, PendingInv
    <3>3. CASE inbox = <<pc>> /\ Len(answers) = Position(pc) - 1
      <4>1. Len(inbox) = 1 /\ (Position(pc) - 1) + 1 = Position(pc)
        BY <2>1, <2>2, <2>3, <3>3
      <4> QED BY <3>1, <3>3, <4>1
    <3>4. CASE inbox = <<>> /\ Len(answers) = Position(pc)
      <4>1. Len(inbox) = 0 /\ Position(pc) + 0 = Position(pc)
        BY <2>1, <2>2, <2>3, <3>4
      <4> QED BY <3>1, <3>4, <4>1
    <3> QED BY <3>1, <3>2, <3>3, <3>4
  <2> QED BY <2>3 DEF Inv, SessionInv, SavedInv
<1> QED BY <1>1, Invariance, PTL

\* No refresh leaves its socket open, whichever timer, error or close ends it
\* (client.ts:53, 73).
THEOREM SocketSafety == Spec => []SocketsAreClosed
<1>1. Inv => SocketsAreClosed
  BY DEF Inv
<1> QED BY <1>1, Invariance, PTL

\* No step brings a removed server back, however late the status of a refresh is
\* written (servers.ts:109).
THEOREM RemovedSafety == Spec => RemovedStaysRemoved
<1>1. [Next]_vars => [row = "deleted" => row' = "deleted"]_vars
  BY DEF Next, Refresh, SaveStatus, RemoveServer, Greet, Reply, Data, ConnectTimeout, CommandTimeout,
         SocketError, PeerCloses, vars
<1> QED BY <1>1, PTL DEF Spec, RemovedStaysRemoved

-----------------------------------------------------------------------------
(* A refresh keeps the contract.                                           *)

Phase     == IF pc = "idle" THEN "idle"
             ELSE IF torn THEN "torn"
             ELSE IF pc = "save" THEN outcome ELSE pc
Given     == IF torn THEN <<>> ELSE answers
Connected == socket = "open"

View == <<row, Phase, Given, Connected>>

LEMMA ContractInit == Init => Contract!Init
BY DEF Init, Contract!Init

\* Steps that an observer does not see.
LEMMA Unseen ==
  ASSUME UNCHANGED <<row, pc, torn, answers, outcome, socket>>
  PROVE  UNCHANGED View
BY DEF View, Phase, Given, Connected

\* Within a torn session nothing is promised but its end.
LEMMA TornSession ==
  ASSUME torn, torn', pc # "idle", pc' # "idle", socket' = "open" => socket = "open",
         UNCHANGED row
  PROVE  [Contract!Next]_View
<1> USE DEF View, Phase, Given, Connected
<1>1. CASE socket = "open" /\ socket' # "open"
  <2>1. Contract!TornStep
    BY <1>1 DEF Contract!TornStep
  <2> QED BY <2>1 DEF Contract!Next
<1>2. CASE ~(socket = "open" /\ socket' # "open")
  BY <1>2
<1> QED BY <1>1, <1>2

LEMMA RefreshContract == ASSUME Refresh PROVE Contract!Begin
BY DEF Refresh, Contract!Begin

LEMMA ServiceContract ==
  ASSUME Inv, SaveStatus \/ RemoveServer
  PROVE  Contract!Save \/ Contract!Remove
<1>1. CASE SaveStatus
  <2>1. socket # "open" /\ (outcome # "failed" /\ ~torn => outcome = "complete")
    BY <1>1 DEF Inv, SocketsAreClosed, SessionInv, SavedInv, SaveStatus
  <2> QED BY <1>1, <2>1
          DEF SaveStatus, StatusToServerUpdate, connection, Contract!Save, Contract!Report
<1>2. CASE RemoveServer
  BY <1>2 DEF RemoveServer, connection, Contract!Remove
<1> QED BY <1>1, <1>2

\* The server answers the command that is asked.
LEMMA ReplyContract == ASSUME Inv, Reply PROVE [Contract!Next]_View
<1>1. /\ socket = "open" /\ inbox # <<>>
      /\ UNCHANGED <<row, pc, socket, torn, outcome>>
      /\ pc # "idle" /\ pc # "save"
  BY DEF Reply, Inv, SocketsAreClosed
<1>2. CASE torn
  BY <1>1, <1>2, TornSession
<1>3. CASE ~torn
  <2>1. Pending /\ Position(pc) \in {1, 2, 3} /\ pc = Contract!Commands[Position(pc)]
    BY <1>1, Positions DEF Inv, TypeOK, SessionInv, ConnectInv, Pending, Contract!Commands
  <2>2. Len(answers) = Position(pc) - 1
    BY <1>1, <1>3, <2>1 DEF Inv, SessionInv, PendingInv
  <2>3. PICK i \in 1 .. 3, ok \in BOOLEAN : i = Position(pc) /\ answers' = Append(answers, ok)
    <3>1. Position(pc) \in 1 .. 3
      BY <2>1
    <3> QED BY <3>1 DEF Reply
  <2>4. Contract!Answer(i, ok)
    BY <1>1, <1>3, <2>1, <2>2, <2>3, Positions DEF Contract!Answer, Contract!Commands
  <2> QED BY <2>4 DEF Contract!Next
<1> QED BY <1>2, <1>3

\* The end of a session by a timer, an error or a close.
LEMMA EndContract ==
  ASSUME Inv, ConnectTimeout \/ CommandTimeout \/ SocketError \/ PeerCloses
  PROVE  [Contract!Next]_View
<1>1. UNCHANGED <<row, answers, torn>> /\ pc # "idle" /\ pc # "save"
  BY Positions
     DEF ConnectTimeout, CommandTimeout, SocketError, PeerCloses, Pending, Inv, SocketsAreClosed
<1>2. CASE Finish("failed") /\ (pc = "connect" \/ Pending)
  <2>1. CASE torn
    BY <1>1, <1>2, <2>1, TornSession DEF Finish
  <2>2. CASE ~torn
    <3>1. Contract!Fail
      BY <1>1, <1>2, <2>2, Positions DEF Finish, Pending, Contract!Fail, Contract!InSession
    <3> QED BY <3>1 DEF Contract!Next
  <2> QED BY <2>1, <2>2
<1>3. CASE ~Pending /\ PeerCloses
  <2>1. pc = "connect" /\ socket = "open" /\ socket' = "closed" /\ UNCHANGED <<pc, outcome>>
    BY <1>1, <1>3 DEF PeerCloses, Inv, TypeOK, Pending
  <2>2. CASE torn
    BY <1>1, <2>1, <2>2, TornSession
  <2>3. CASE ~torn
    <3>1. Contract!Disconnect
      BY <1>1, <2>1, <2>3 DEF Contract!Disconnect
    <3> QED BY <3>1 DEF Contract!Next
  <2> QED BY <2>2, <2>3
<1> QED BY <1>2, <1>3 DEF ConnectTimeout, CommandTimeout, SocketError, PeerCloses

\* A chunk moves the session on only with the whole answer that was accepted.
LEMMA DataContract ==
  ASSUME Inv, Inv', NEW n \in 1 .. Len(wire), Data(n)
  PROVE  [Contract!Next]_View
<1> DEFINE s == buffer \o SubSeq(wire, 1, n)
<1>1. /\ socket = "open" /\ UNCHANGED <<row, answers>>
      /\ pc # "idle" /\ pc # "save" /\ pc \in {"connect"} \cup CommandNames
      /\ answers \in Seq(BOOLEAN)
  BY DEF Data, Inv, TypeOK, SocketsAreClosed
<1>2. CASE UNCHANGED <<pc, socket, outcome, torn>>
  BY <1>1, <1>2, Unseen
<1>3. CASE ~bannerSeen /\ Send("login") /\ UNCHANGED torn
  <2>1. CASE torn
    BY <1>1, <1>3, <2>1, TornSession DEF Send
  <2>2. CASE ~torn
    <3>1. pc = "connect" /\ pc' = "login" /\ socket' = socket
      BY <1>1, <1>3, <2>2 DEF Inv, SessionInv, PendingInv, Pending, Send
    <3>2. Contract!Login
      BY <1>1, <1>3, <2>2, <3>1 DEF Contract!Login
    <3> QED BY <3>2 DEF Contract!Next
  <2> QED BY <2>1, <2>2
<1>4. CASE bannerSeen /\ Settle(s) /\ torn' = (torn \/ s[LineEnd(s)].part # "end")
  <2>1. Pending /\ Position(pc) \in {1, 2, 3}
    BY <1>1, <1>4, Positions DEF Inv, SessionInv, ConnectInv, Pending
  <2>2. \/ Finish("failed")
        \/ pc = "serverinfo" /\ Finish(IF HasInfo(s) THEN "complete" ELSE "empty")
        \/ pc # "serverinfo" /\ Send(Commands[Position(pc) + 1])
    BY <1>4 DEF Settle
  <2>3. /\ pc' # "idle" /\ (socket' = "open" => socket = "open")
        /\ pc' = "save" => socket' = "closed"
    BY <1>1, <2>1, <2>2, Positions DEF Finish, Send, Pending
  <2>4. CASE torn
    <3>1. torn'
      <4> HIDE DEF s
      <4> QED BY <1>4, <2>4
    <3>2. pc # "idle" /\ pc' # "idle" /\ (socket' = "open" => socket = "open") /\ UNCHANGED row
      BY <1>1, <2>3
    <3> HIDE DEF s
    <3> QED BY <2>4, <3>1, <3>2, TornSession
  <2>5. CASE ~torn /\ torn'
    <3>1. Contract!Tear
      <4>1. pc \in {"login", "use", "serverinfo"} /\ pc' # "idle" /\ row' = row
            /\ (socket' = "open" => socket = "open")
        BY <1>1, <2>1, <2>3, Positions DEF Pending
      <4> HIDE DEF s
      <4> QED BY <2>5, <4>1 DEF Contract!Tear
    <3> QED BY <3>1 DEF Contract!Next
  <2>6. CASE ~torn /\ ~torn'
    <3>1. CASE Finish("failed")
      <4>1. Contract!Fail
        BY <1>1, <2>1, <2>6, <3>1, Positions DEF Finish, Pending, Contract!Fail, Contract!InSession
      <4> QED BY <4>1 DEF Contract!Next
    <3>2. CASE /\ pc = "serverinfo" /\ outcome' # "failed"
               /\ Finish(IF HasInfo(s) THEN "complete" ELSE "empty")
      <4>1. pc' = "save" /\ socket' = "closed"
        BY <3>2 DEF Finish
      <4>2. outcome' = "complete" /\ answers = <<TRUE, TRUE, TRUE>>
        BY <1>1, <2>6, <3>2, <4>1 DEF Inv, SessionInv, SavedInv
      <4>3. Len(answers) = 3 /\ \A k \in 1 .. 3 : answers[k]
        <5>1. \A k \in 1 .. 3 : k \in {1, 2, 3}
          OBVIOUS
        <5> QED BY <4>2, <5>1
      <4>4. Contract!Complete
        BY <1>1, <2>6, <3>2, <4>1, <4>2, <4>3
           DEF Contract!Complete, Contract!Accepted, Contract!Commands
      <4> QED BY <4>4 DEF Contract!Next
    <3>3. CASE pc # "serverinfo" /\ Send(Commands[Position(pc) + 1])
      <4>1. PICK i \in 1 .. 2 : i = Position(pc)
        BY <2>1, <3>3, Positions DEF Pending
      <4>2. /\ pc = Contract!Commands[i] /\ pc' = Contract!Commands[i + 1]
            /\ pc' \in CommandNames /\ Position(pc') = i + 1
            /\ inbox' = Append(inbox, pc') /\ UNCHANGED <<socket, outcome>>
        BY <2>1, <3>3, <4>1, Positions DEF Send, Pending, Contract!Commands
      <4>3. inbox' # <<>>
        <5>1. inbox \in Seq(CommandNames)
          BY DEF Inv, TypeOK
        <5>2. Len(inbox') = Len(inbox) + 1 /\ Len(inbox) \in Nat
          BY <4>2, <5>1, AppendProperties, LenProperties
        <5> QED BY <5>2
      <4>4. Len(answers) = (i + 1) - 1 /\ \A k \in 1 .. (i + 1) - 1 : answers[k]
        BY <1>1, <2>6, <4>2, <4>3 DEF Inv, SessionInv, PendingInv, Pending
      <4>5. (i + 1) - 1 = i
        OBVIOUS
      <4>6. Len(answers) = i /\ \A k \in 1 .. i : answers[k]
        BY <4>4, <4>5
      <4>7. Contract!Ask(i)
        BY <1>1, <2>6, <4>2, <4>6, Positions DEF Contract!Ask, Contract!Accepted
      <4> QED BY <4>7 DEF Contract!Next
    <3> QED BY <2>2, <3>1, <3>2, <3>3 DEF Finish
  <2> QED BY <2>4, <2>5, <2>6
<1> QED BY <1>2, <1>3, <1>4 DEF Data

LEMMA ContractStep == Inv /\ [Next]_vars => [Contract!Next]_View
<1> SUFFICES ASSUME Inv, [Next]_vars PROVE [Contract!Next]_View
  OBVIOUS
<1>1. CASE Refresh
  BY <1>1, RefreshContract DEF Contract!Next
<1>2. CASE SaveStatus \/ RemoveServer
  BY <1>2, ServiceContract DEF Contract!Next
<1>3. CASE Greet \/ UNCHANGED vars
  BY <1>3, Unseen DEF Greet, vars, connection
<1>4. CASE Reply
  BY <1>4, ReplyContract
<1>5. CASE \E n \in 1 .. Len(wire) : Data(n)
  BY <1>5, StepInv, DataContract
<1>6. CASE ConnectTimeout \/ CommandTimeout \/ SocketError \/ PeerCloses
  BY <1>6, EndContract
<1> QED BY <1>1, <1>2, <1>3, <1>4, <1>5, <1>6 DEF Next

\* The socket client and its parser, with every way to cut, delay or lose what the
\* server sends, implement question and answer in turn.
THEOREM ClientImplementsRefresh == Spec => ImplementsContract
<1>1. Spec => Contract!Init /\ [][Contract!Next]_View
  BY ContractInit, ContractStep, Invariance, PTL DEF Spec
<1> QED BY <1>1, PTL DEF ImplementsContract, Contract!Spec, Contract!vars, View, Phase, Given, Connected

=============================================================================
