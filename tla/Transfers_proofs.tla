-------------------------- MODULE Transfers_proofs --------------------------
(***************************************************************************)
(* PiecesAreOfOneObject and StoredAsSent, for all bytes, bodies, chunks,     *)
(* limits, ranges and versions.                                              *)
(*                                                                          *)
(* Downloads.  What a client has put together stays of the object whose ETag *)
(* it keeps, since a range is served of the row that was looked up, after    *)
(* its ETag was compared (Asking), and rows only get more (Stored).  What a  *)
(* range asks for is in ParsedRange.                                         *)
(*                                                                          *)
(* Uploads.  Two arguments say that what the decoder has written is the body *)
(* so far.  Where chunks keep their places (Framed), the decoder is at some  *)
(* place in a stream whose content is the body, or is shorter than it if a   *)
(* chunk was lost.  Where a stream is signed (ChunksSigned), every chunk     *)
(* that was read fits the signature that follows that of the chunk before,   *)
(* and only the body's next chunk does.  At the end (Whole) the file is the  *)
(* body, or its length or its trailer differs, which verify sees.  That any  *)
(* arrival begins so (SendIsSound) rests on what FlattenSeq makes of the     *)
(* pieces (Flattened).                                                       *)
(***************************************************************************)
EXTENDS Transfers, WellFoundedInduction, TLAPS

\* A sequence, of anything.
IsSeq(s) == \E S : s \in Seq(S)

\* Uploads write sequences, and objects are some of them.
Writing == /\ "pc" \in DOMAIN up
           /\ up.pc \in {"copy", "verify"} => "file" \in DOMAIN up /\ IsSeq(up.file)

Stored == IsSeq(objects) /\ \A i \in 1..Len(objects) : IsSeq(objects[i])

\* The client's question, and the row that is to answer it.
Asking ==
  /\ DOMAIN down = {"pc", "etag", "got", "range", "if", "row", "status", "first", "sent"}
  /\ down.pc \in {"lookup", "serve", "answered"} => down.range \in Ranges
  /\ down.pc \in {"serve", "answered"} => down.row \in 1..Len(objects)
  /\ down.pc \in {"lookup", "serve"} =>
       /\ down.if \in {"none", "if-range", "if-match", "if-none-match"}
       /\ (down.if = "none") = (down.etag = None)
       /\ down.if = "if-none-match" => down.range.form = "none"

\* The two halves of the property.
Got == \A i \in DOMAIN down.got : i < Len(down.etag) /\ down.got[i] = down.etag[i + 1]

Answers(bytes) ==
  /\ down.status = 200 => down.sent = bytes
  /\ down.status = 416 => Asked(down.range, Len(bytes)) = {}
  /\ down.status = 206 =>
       /\ Asked(down.range, Len(bytes)) = down.first..(down.first + Len(down.sent) - 1)
       /\ \A i \in DOMAIN down.sent : down.sent[i] = bytes[down.first + i]

Answered == down.pc = "answered" => Answers(objects[down.row])

DownInv == Writing /\ Stored /\ Asking /\ Got /\ Answered

-----------------------------------------------------------------------------
(* Sequences of anything. *)

LEMMA SeqFacts ==
  ASSUME NEW s, IsSeq(s)
  PROVE  Len(s) \in Nat /\ DOMAIN s = 1..Len(s)
  BY DEF IsSeq

LEMMA MoreBytes ==
  ASSUME NEW s, IsSeq(s), NEW n \in Int, n >= 1
  PROVE  IsSeq(s \o Taken(n))
<1>1. PICK S : s \in Seq(S)
  BY DEF IsSeq
<1> DEFINE T == S \cup {up.wire[i].byte : i \in 1..n}
           t == Taken(n)
<1>2. t \in Seq(T)
  <2>1. n \in Nat
    OBVIOUS
  <2> QED BY <2>1 DEF Taken
<1>3. s \in Seq(T)
  BY <1>1
<1> HIDE DEF T, t
<1>4. s \o t \in Seq(T)
  BY <1>2, <1>3
<1> QED BY <1>4 DEF IsSeq, t

LEMMA OneMore ==
  ASSUME NEW s, IsSeq(s), NEW e
  PROVE  /\ IsSeq(Append(s, e)) /\ Len(Append(s, e)) = Len(s) + 1
         /\ Append(s, e)[Len(s) + 1] = e
         /\ \A i \in 1..Len(s) : Append(s, e)[i] = s[i]
<1>1. PICK S : s \in Seq(S)
  BY DEF IsSeq
<1> DEFINE T == S \cup {e}
<1>2. s \in Seq(T) /\ e \in T
  BY <1>1
<1> HIDE DEF T
<1>3. /\ Append(s, e) \in Seq(T) /\ Len(Append(s, e)) = Len(s) + 1
      /\ Append(s, e)[Len(s) + 1] = e
      /\ \A i \in 1..Len(s) : Append(s, e)[i] = s[i]
  BY <1>2
<1> QED BY <1>3 DEF IsSeq

LEMMA Middle ==
  ASSUME NEW s, IsSeq(s), NEW m \in Nat, NEW n \in Nat, 1 <= m, m <= n, n <= Len(s)
  PROVE  /\ Len(SubSeq(s, m, n)) = n - m + 1
         /\ DOMAIN SubSeq(s, m, n) = 1..(n - m + 1)
         /\ \A i \in 1..(n - m + 1) : SubSeq(s, m, n)[i] = s[m + i - 1]
<1>1. PICK S : s \in Seq(S)
  BY DEF IsSeq
<1> QED BY <1>1

-----------------------------------------------------------------------------
(* Ranges. *)

LEMMA Least == ASSUME NEW x \in Int, NEW y \in Int PROVE Min({x, y}) = IF x <= y THEN x ELSE y
  BY DEF Min

\* What a Range header asks for, and what parseRange makes of it.
LEMMA ParsedRange ==
  ASSUME NEW r \in Ranges, NEW size \in Nat
  PROVE  LET p == ParseRange(r, size)
         IN /\ p.ok => /\ p.first \in Nat /\ p.last \in Nat /\ p.first <= p.last /\ p.last < size
                       /\ Asked(r, size) = p.first..p.last
            /\ ~p.ok /\ p.first = -1 => Asked(r, size) = {}
<1> DEFINE p == ParseRange(r, size)
<1>0. MaxBytes \in Nat
  BY TransferAssumption
<1>1. CASE r.form = "suffix"
  <2>1. r.length \in Nat
    BY <1>0, <1>1 DEF Ranges, Numbers
  <2>2. \A i : i \in Asked(r, size) <=> i \in 0..(size - 1) /\ i >= size - r.length
    BY <1>1 DEF Asked
  <2>3. CASE r.length = 0 \/ size = 0
    <3>1. p = ByteRange(-1, 0, FALSE)
      BY <1>1, <2>3 DEF ParseRange
    <3>2. Asked(r, size) = {}
      BY <2>1, <2>2, <2>3
    <3> HIDE DEF p
    <3>3. p.ok = FALSE
      BY <3>1 DEF ByteRange
    <3> QED BY <3>2, <3>3 DEF p
  <2>4. CASE ~(r.length = 0 \/ size = 0)
    <3>1. p = ByteRange(size - Min({r.length, size}), size - 1, TRUE)
      BY <1>1, <2>4 DEF ParseRange
    <3>2. Min({r.length, size}) = IF r.length <= size THEN r.length ELSE size
      BY <2>1, Least
    <3> HIDE DEF p
    <3>3. p.ok = TRUE /\ p.first = size - Min({r.length, size}) /\ p.last = size - 1
      BY <3>1 DEF ByteRange
    <3>4. p.first \in Nat /\ p.last \in Nat /\ p.first <= p.last /\ p.last < size
      BY <2>1, <2>4, <3>2, <3>3
    <3>5. Asked(r, size) = p.first..p.last
      <4>1. \A i : i \in Asked(r, size) <=> i \in p.first..p.last
        BY <2>1, <2>2, <3>2, <3>3, <3>4
      <4> QED BY <4>1
    <3> QED BY <3>3, <3>4, <3>5 DEF p
  <2> QED BY <2>3, <2>4
<1>2. CASE r.form \in {"from", "span"}
  <2>1. r.first \in Nat /\ (r.form = "span" => r.last \in Nat)
    BY <1>0, <1>2 DEF Ranges, Numbers
  <2>2. \A i : i \in Asked(r, size) <=> /\ i \in 0..(size - 1) /\ i >= r.first
                                        /\ r.form = "span" => i <= r.last
    BY <1>2 DEF Asked
  <2>3. CASE r.form = "span" /\ r.last < r.first
    <3>1. p = ByteRange(0, 0, FALSE)
      BY <2>3 DEF ParseRange
    <3> HIDE DEF p
    <3>2. p.ok = FALSE /\ p.first = 0
      BY <3>1 DEF ByteRange
    <3> QED BY <3>2 DEF p
  <2>4. CASE ~(r.form = "span" /\ r.last < r.first) /\ r.first >= size
    <3>1. p = ByteRange(-1, 0, FALSE)
      BY <1>2, <2>4 DEF ParseRange
    <3>2. Asked(r, size) = {}
      BY <2>1, <2>2, <2>4
    <3> HIDE DEF p
    <3>3. p.ok = FALSE
      BY <3>1 DEF ByteRange
    <3> QED BY <3>2, <3>3 DEF p
  <2>5. CASE ~(r.form = "span" /\ r.last < r.first) /\ ~(r.first >= size)
    <3> DEFINE e == IF r.form = "from" THEN size - 1 ELSE Min({r.last, size - 1})
    <3>1. p = ByteRange(r.first, e, TRUE)
      BY <1>2, <2>5 DEF ParseRange
    <3>2. e = IF r.form = "from" \/ size - 1 < r.last THEN size - 1 ELSE r.last
      BY <1>2, <2>1, Least
    <3> HIDE DEF p, e
    <3>3. p.ok = TRUE /\ p.first = r.first /\ p.last = e
      BY <3>1 DEF ByteRange
    <3>4. p.first \in Nat /\ p.last \in Nat /\ p.first <= p.last /\ p.last < size
      BY <1>2, <2>1, <2>5, <3>2, <3>3
    <3>5. Asked(r, size) = p.first..p.last
      <4>1. \A i : i \in Asked(r, size) <=> i \in p.first..p.last
        BY <1>2, <2>1, <2>2, <2>5, <3>2, <3>3, <3>4
      <4> QED BY <4>1
    <3> QED BY <3>3, <3>4, <3>5 DEF p
  <2> QED BY <2>3, <2>4, <2>5
<1>3. CASE r.form \notin {"suffix", "from", "span"}
  <2>1. p = ByteRange(0, 0, FALSE)
    BY <1>3 DEF ParseRange
  <2> HIDE DEF p
  <2>2. p.ok = FALSE /\ p.first = 0
    BY <2>1 DEF ByteRange
  <2> QED BY <2>2 DEF p
<1> QED BY <1>1, <1>2, <1>3

-----------------------------------------------------------------------------
(* Uploads. *)

LEMMA Written ==
  ASSUME Writing, Upload
  PROVE  /\ Writing'
         /\ objects' = objects \/ \E b : IsSeq(b) /\ objects' = Append(objects, b)
<1>0. IsSeq(<<>>)
  BY <<>> \in Seq({}) DEF IsSeq
<1>1. CASE Refuse /\ UNCHANGED objects
  BY <1>1 DEF Writing, Refuse
<1>2. CASE Send
  <2>1. PICK mode, body, has, chunks, a :
          up' = [pc |-> IF Declared(mode, has, body, a) > MaxSize THEN "refused" ELSE "copy",
                 mode |-> mode, has |-> has, body |-> body, chunks |-> chunks, harm |-> a.harm,
                 wire |-> a.wire, end |-> a.end, declared |-> Declared(mode, has, body, a),
                 file |-> <<>>, remaining |-> 0, hash |-> <<>>, sig |-> None, prev |-> <<>>,
                 trailer |-> None, final |-> FALSE]
    <3>1. PICK mode \in {"plain", "unsigned", "signed"}, body \in Bodies :
            \E has \in Headers(mode), chunks \in IF mode = "plain" THEN {<<>>} ELSE Chunkings(body) :
            \E a \in Arrivals(Pieces(mode, has, body, chunks)) :
              LET declared == Declared(mode, has, body, a)
              IN up' = [pc |-> IF declared > MaxSize THEN "refused" ELSE "copy",
                        mode |-> mode, has |-> has, body |-> body, chunks |-> chunks, harm |-> a.harm,
                        wire |-> a.wire, end |-> a.end, declared |-> declared, file |-> <<>>,
                        remaining |-> 0, hash |-> <<>>, sig |-> None, prev |-> <<>>,
                        trailer |-> None, final |-> FALSE]
      BY <1>2, Zenon DEF Send
    <3> QED BY <3>1, Zenon
  <2>2. objects' = objects
    BY <1>2 DEF Send
  <2> QED BY <1>0, <2>1, <2>2 DEF Writing
<1>3. CASE EndCopy
  BY <1>3 DEF EndCopy, Writing, Refuse
<1>4. CASE ReadPlain
  <2>1. PICK n \in 1..Min({Left, Len(up.wire)}) : up' = [up EXCEPT !.wire = Rest(n), !.file = @ \o Taken(n)]
    BY <1>4 DEF ReadPlain
  <2>2. n \in Int /\ n >= 1 /\ objects' = objects /\ up.pc = "copy"
    BY <1>4 DEF ReadPlain, Copying
  <2>3. IsSeq(up.file \o Taken(n))
    BY <2>2, MoreBytes DEF Writing
  <2> QED BY <2>1, <2>2, <2>3 DEF Writing
<1>5. CASE ReadHeader
  <2>1. up.pc = "copy" /\ objects' = objects
    BY <1>5 DEF ReadHeader, Copying
  <2>2. \/ Refuse
        \/ up' = [up EXCEPT !.wire = Rest(1), !.remaining = up.wire[1].size, !.sig = up.wire[1].sig,
                            !.hash = <<>>]
    BY <1>5, Zenon DEF ReadHeader
  <2> QED BY <1>1, <2>1, <2>2 DEF Writing
<1>6. CASE ReadData
  <2>1. up.pc = "copy" /\ objects' = objects
    BY <1>6 DEF ReadData, Copying
  <2>2. \/ Refuse
        \/ \E n \in Int : /\ n >= 1
                          /\ \/ \E w, r, h : up' = [up EXCEPT !.wire = w, !.file = @ \o Taken(n),
                                                              !.remaining = r, !.hash = h]
                             \/ \E w, r, v : up' = [up EXCEPT !.wire = w, !.file = @ \o Taken(n),
                                                              !.remaining = r, !.prev = v]
    <3>1. CASE Ready = 0 /\ Refuse
      BY <3>1
    <3>2. ASSUME NEW n \in 1..Min({up.remaining, Left, Ready}),
                 IF n < up.remaining
                   THEN up' = [up EXCEPT !.wire = Rest(n), !.file = @ \o Taken(n),
                                         !.remaining = @ - n, !.hash = up.hash \o Taken(n)]
                 ELSE IF ChunkEnds(Rest(n), up.hash \o Taken(n))
                   THEN up' = [up EXCEPT !.wire = Tail(Rest(n)), !.file = @ \o Taken(n),
                                         !.remaining = 0, !.prev = up.sig]
                 ELSE Refuse
          PROVE  \/ Refuse
                 \/ \E w, r, h : up' = [up EXCEPT !.wire = w, !.file = @ \o Taken(n),
                                                  !.remaining = r, !.hash = h]
                 \/ \E w, r, v : up' = [up EXCEPT !.wire = w, !.file = @ \o Taken(n),
                                                  !.remaining = r, !.prev = v]
      BY <3>2
    <3>3. \A n \in 1..Min({up.remaining, Left, Ready}) : n \in Int /\ n >= 1
      OBVIOUS
    <3> QED BY <1>6, <3>1, <3>2, <3>3 DEF ReadData
  <2>3. ASSUME NEW n \in Int, n >= 1, NEW w, NEW r, NEW h,
               \/ up' = [up EXCEPT !.wire = w, !.file = @ \o Taken(n), !.remaining = r, !.hash = h]
               \/ up' = [up EXCEPT !.wire = w, !.file = @ \o Taken(n), !.remaining = r, !.prev = h]
        PROVE  Writing'
    <3>1. IsSeq(up.file \o Taken(n))
      BY <2>1, <2>3, MoreBytes DEF Writing
    <3> QED BY <2>1, <2>3, <3>1 DEF Writing
  <2>4. ASSUME NEW n \in Int, n >= 1, NEW w, NEW r, NEW h,
               up' = [up EXCEPT !.wire = w, !.file = @ \o Taken(n), !.remaining = r, !.prev = h]
        PROVE  Writing'
    BY <2>3, <2>4, Zenon
  <2>5. ASSUME NEW n \in Int, n >= 1, NEW w, NEW r, NEW h,
               up' = [up EXCEPT !.wire = w, !.file = @ \o Taken(n), !.remaining = r, !.hash = h]
        PROVE  Writing'
    BY <2>3, <2>5, Zenon
  <2>6. CASE Refuse
    BY <1>1, <2>1, <2>6
  <2>7. Writing'
    BY <2>2, <2>4, <2>5, <2>6, Zenon
  <2> QED BY <2>1, <2>7
<1>7. CASE ReadTrailers
  <2>1. up.pc = "copy" /\ objects' = objects
    BY <1>7 DEF ReadTrailers, Copying
  <2>2. \/ Refuse
        \/ \E t : up' = [up EXCEPT !.pc = "verify", !.final = TRUE, !.wire = <<>>, !.trailer = t]
    BY <1>7 DEF ReadTrailers
  <2> QED BY <1>1, <2>1, <2>2 DEF Writing
<1>8. CASE Commit
  <2>1. up.pc = "verify" /\ IsSeq(up.file)
    BY <1>8 DEF Commit, Writing
  <2>2. \/ Refuse /\ UNCHANGED objects
        \/ up' = [up EXCEPT !.pc = "stored"] /\ objects' = Append(objects, up.file)
    BY <1>8 DEF Commit
  <2> QED BY <1>1, <2>1, <2>2 DEF Writing
<1>9. CASE Answer
  BY <1>9 DEF Answer, Writing, NoUpload
<1> QED BY <1>2, <1>3, <1>4, <1>5, <1>6, <1>7, <1>8, <1>9 DEF Upload

\* A version more: what has been looked up is what it was.
LEMMA Added ==
  ASSUME DownInv, Writing', UNCHANGED down, NEW b, IsSeq(b), objects' = Append(objects, b)
  PROVE  DownInv'
<1>1. /\ IsSeq(objects') /\ Len(objects') = Len(objects) + 1 /\ objects'[Len(objects) + 1] = b
      /\ \A i \in 1..Len(objects) : objects'[i] = objects[i]
  BY OneMore DEF DownInv, Stored
<1>2. Len(objects) \in Nat
  BY SeqFacts DEF DownInv, Stored
<1>3. Stored'
  BY <1>1, <1>2 DEF DownInv, Stored
<1>4. Asking'
  BY <1>1, <1>2 DEF DownInv, Asking
<1>5. Answered'
  BY <1>1 DEF DownInv, Asking, Answered, Answers
<1> QED BY <1>3, <1>4, <1>5 DEF DownInv, Got

-----------------------------------------------------------------------------
(* Downloads. *)

\* What a reply leaves with the client.
LEMMA Replied ==
  ASSUME DownInv, UNCHANGED <<objects, up>>, down.pc = "serve",
         NEW bytes, bytes = objects[down.row],
         NEW status, NEW first \in Nat, NEW body, IsSeq(body), Reply(status, first, body),
         first + Len(body) <= Len(bytes), \A i \in 1..Len(body) : body[i] = bytes[first + i],
         \/ status = 200 /\ body = bytes
         \/ /\ status = 206 /\ Asked(down.range, Len(bytes)) = first..(first + Len(body) - 1)
            /\ down.etag # None => down.etag = bytes
  PROVE  DownInv'
<1> DEFINE piece(n) == [i \in first..(first + n - 1) |-> body[i - first + 1]]
           fresh == status = 200 \/ down.etag = None
<1>0. PICK n \in 0..Len(body) :
        down' = [down EXCEPT !.pc = "answered",
                             !.etag = IF fresh THEN objects[down.row] ELSE @,
                             !.got  = IF fresh THEN piece(n) ELSE Joined(piece(n), @),
                             !.status = status, !.first = first, !.sent = body]
  BY Zenon DEF Reply
<1> HIDE DEF piece
<1> DEFINE e == IF fresh THEN objects[down.row] ELSE down.etag
           g == IF fresh THEN piece(n) ELSE Joined(piece(n), down.got)
<1>1. down' = [down EXCEPT !.pc = "answered", !.etag = e, !.got = g,
                           !.status = status, !.first = first, !.sent = body]
  BY <1>0, Zenon
<1>e. /\ fresh => e = bytes /\ g = piece(n)
      /\ ~fresh => e = down.etag /\ g = Joined(piece(n), down.got)
  OBVIOUS
<1> HIDE DEF e, g
<1>2. DOMAIN down = {"pc", "etag", "got", "range", "if", "row", "status", "first", "sent"}
  BY DEF DownInv, Asking
<1>3. Len(body) \in Nat /\ DOMAIN body = 1..Len(body) /\ n \in Nat
  BY SeqFacts
<1>4. /\ DOMAIN down' = DOMAIN down /\ down'.pc = "answered" /\ down'.range = down.range /\ down'.row = down.row
      /\ down'.status = status /\ down'.first = first /\ down'.sent = body
      /\ fresh => down'.etag = bytes /\ down'.got = piece(n)
      /\ ~fresh => down'.etag = down.etag /\ down'.got = Joined(piece(n), down.got)
  BY <1>1, <1>2, <1>e
<1>5. \A i \in DOMAIN piece(n) : i < Len(bytes) /\ piece(n)[i] = bytes[i + 1]
  <2> SUFFICES ASSUME NEW i \in first..(first + n - 1)
               PROVE  i < Len(bytes) /\ body[i - first + 1] = bytes[i + 1]
    BY DEF piece
  <2>0. Len(bytes) \in Nat
    BY SeqFacts DEF DownInv, Asking, Stored
  <2>1. PICK j \in 1..Len(body) : j = i - first + 1
    BY <1>3
  <2>2. i < Len(bytes) /\ first + j = i + 1 /\ body[j] = bytes[first + j]
    BY <1>3, <2>0, <2>1
  <2> QED BY <2>1, <2>2
<1>6. Got'
  <2>1. CASE fresh
    BY <1>4, <1>5, <2>1 DEF Got
  <2>2. CASE ~fresh
    <3>1. down'.etag = bytes /\ down.etag = bytes
      BY <1>4, <2>2
    <3>2. \A i \in DOMAIN down.got : i < Len(bytes) /\ down.got[i] = bytes[i + 1]
      BY <3>1 DEF DownInv, Got
    <3> QED BY <1>4, <1>5, <2>2, <3>1, <3>2 DEF Got, Joined
  <2> QED BY <2>1, <2>2
<1>7. Answered'
  <2>1. \A i \in DOMAIN body : body[i] = bytes[first + i]
    BY <1>3
  <2> QED BY <1>4, <2>1 DEF Answered, Answers
<1>8. Asking'
  BY <1>2, <1>4 DEF DownInv, Asking
<1> QED BY <1>6, <1>7, <1>8 DEF DownInv, Writing, Stored

\* An answer without the object leaves the client what it has.
LEMMA Declined ==
  ASSUME DownInv, UNCHANGED <<objects, up>>, down.pc = "serve",
         NEW status, Decline(status),
         status \notin {200, 206},
         status = 416 => Asked(down.range, Len(objects[down.row])) = {}
  PROVE  DownInv'
<1>1. DOMAIN down = {"pc", "etag", "got", "range", "if", "row", "status", "first", "sent"}
  BY DEF DownInv, Asking
<1>2. /\ DOMAIN down' = DOMAIN down /\ down'.pc = "answered" /\ down'.range = down.range /\ down'.row = down.row
      /\ down'.status = status /\ down'.etag = down.etag /\ down'.got = down.got
  BY <1>1 DEF Decline
<1>3. Asking' /\ Got' /\ Answered'
  BY <1>1, <1>2 DEF DownInv, Asking, Got, Answered, Answers
<1> QED BY <1>3 DEF DownInv, Writing, Stored

LEMMA Served ==
  ASSUME DownInv, Serve PROVE DownInv'
<1> DEFINE bytes == objects[down.row]
           p     == ParseRange(down.range, Len(bytes))
<1>1. /\ down.pc = "serve" /\ UNCHANGED <<objects, up>>
      /\ IF Precondition(bytes) # 200 THEN Decline(Precondition(bytes))
         ELSE IF ~ Partial(bytes) THEN Reply(200, 0, bytes)
         ELSE IF p.ok THEN Reply(206, p.first, SubSeq(bytes, p.first + 1, p.last + 1))
         ELSE IF p.first = -1 THEN Decline(416) ELSE Reply(200, 0, bytes)
  BY DEF Serve
<1>2. IsSeq(bytes) /\ Len(bytes) \in Nat /\ down.range \in Ranges
  BY <1>1, SeqFacts DEF DownInv, Stored, Asking
<1>3. /\ p.ok => /\ p.first \in Nat /\ p.last \in Nat /\ p.first <= p.last /\ p.last < Len(bytes)
                 /\ Asked(down.range, Len(bytes)) = p.first..p.last
      /\ ~p.ok /\ p.first = -1 => Asked(down.range, Len(bytes)) = {}
  BY <1>2, ParsedRange, Zenon
<1> HIDE DEF p, bytes
<1>4. CASE Precondition(bytes) # 200
  <2>1. Precondition(bytes) \in {412, 304}
    BY <1>4 DEF Precondition
  <2> QED BY <1>1, <1>4, <2>1, Declined DEF bytes
<1>5. CASE Reply(200, 0, bytes)
  <2>1. 0 + Len(bytes) <= Len(bytes) /\ \A i \in 1..Len(bytes) : bytes[i] = bytes[0 + i]
    BY <1>2
  <2> QED BY <1>1, <1>2, <1>5, <2>1, Replied DEF bytes
<1>6. CASE /\ Precondition(bytes) = 200 /\ Partial(bytes) /\ p.ok
           /\ Reply(206, p.first, SubSeq(bytes, p.first + 1, p.last + 1))
  <2> DEFINE body == SubSeq(bytes, p.first + 1, p.last + 1)
  <2>1. /\ Len(body) = p.last - p.first + 1
        /\ \A i \in 1..Len(body) : body[i] = bytes[p.first + i]
    <3>1. /\ p.first + 1 \in Nat /\ p.last + 1 \in Nat /\ 1 <= p.first + 1 /\ p.first + 1 <= p.last + 1
          /\ p.last + 1 <= Len(bytes) /\ (p.last + 1) - (p.first + 1) + 1 = p.last - p.first + 1
      BY <1>2, <1>3, <1>6
    <3>2. /\ Len(body) = p.last - p.first + 1
          /\ \A i \in 1..(p.last - p.first + 1) : body[i] = bytes[(p.first + 1) + i - 1]
      BY <1>2, <3>1, Middle
    <3> HIDE DEF body
    <3> QED BY <1>3, <1>6, <3>2
  <2>2. IsSeq(body)
    <3>1. PICK S : bytes \in Seq(S)
      BY <1>2 DEF IsSeq
    <3>2. body \in Seq(S)
      BY <1>2, <1>3, <1>6, <3>1
    <3> QED BY <3>2 DEF IsSeq
  <2> HIDE DEF body
  <2>3. /\ p.first + Len(body) <= Len(bytes) /\ p.first \in Nat
        /\ Asked(down.range, Len(bytes)) = p.first..(p.first + Len(body) - 1)
    <3>1. p.first + Len(body) - 1 = p.last /\ p.first + Len(body) <= Len(bytes)
      BY <1>2, <1>3, <1>6, <2>1
    <3> QED BY <1>3, <1>6, <3>1
  <2>4. down.etag # None => down.etag = bytes
    <3> SUFFICES ASSUME down.etag # None PROVE down.etag = bytes
      OBVIOUS
    <3>1. /\ down.if \in {"if-range", "if-match", "if-none-match"}
          /\ down.if = "if-none-match" => down.range.form = "none"
      BY <1>1 DEF DownInv, Asking
    <3>2. down.range.form # "none" /\ (down.if = "if-range" => down.etag = bytes)
      BY <1>6 DEF Partial
    <3>3. down.if = "if-match" => down.etag = bytes
      BY <1>6 DEF Precondition
    <3> QED BY <3>1, <3>2, <3>3
  <2>5. Reply(206, p.first, body)
    BY <1>6 DEF body
  <2>6. bytes = objects[down.row]
    BY DEF bytes
  <2> DEFINE first == p.first
  <2>7. /\ first \in Nat /\ Reply(206, first, body) /\ first + Len(body) <= Len(bytes)
        /\ \A i \in 1..Len(body) : body[i] = bytes[first + i]
        /\ 206 = 206 /\ Asked(down.range, Len(bytes)) = first..(first + Len(body) - 1)
        /\ down.etag # None => down.etag = bytes
    BY <2>1, <2>3, <2>4, <2>5, Zenon
  <2> HIDE DEF first
  <2>8. down.pc = "serve" /\ UNCHANGED <<objects, up>>
    BY <1>1
  <2> QED BY <2>2, <2>6, <2>7, <2>8, Replied
<1>7. CASE ~p.ok /\ p.first = -1 /\ Decline(416)
  BY <1>1, <1>3, <1>7, Declined DEF bytes
<1> QED BY <1>1, <1>4, <1>5, <1>6, <1>7

LEMMA Downloaded ==
  ASSUME DownInv, Download PROVE DownInv'
<1>0. /\ DOMAIN down = {"pc", "etag", "got", "range", "if", "row", "status", "first", "sent"}
      /\ UNCHANGED <<objects, up>>
  BY DEF DownInv, Asking, Download, Ask, Lookup, Serve, Receive
<1>1. CASE Ask
  <2>1. PICK r \in Ranges, c \in {"none", "if-range", "if-match", "if-none-match"} :
          /\ (c = "none") = (down.etag = None)
          /\ c = "if-none-match" => r.form = "none"
          /\ down' = [down EXCEPT !.pc = "lookup", !.range = r, !.if = c]
    BY <1>1 DEF Ask
  <2> QED BY <1>0, <2>1 DEF DownInv, Writing, Stored, Asking, Got, Answered
<1>2. CASE Lookup
  <2>1. down.pc = "lookup" /\ objects # <<>> /\ down' = [down EXCEPT !.pc = "serve", !.row = Len(objects)]
    BY <1>2 DEF Lookup
  <2>2. Len(objects) \in 1..Len(objects)
    <3>1. PICK S : objects \in Seq(S)
      BY DEF DownInv, Stored, IsSeq
    <3> QED BY <2>1, <3>1
  <2> QED BY <1>0, <2>1, <2>2 DEF DownInv, Writing, Stored, Asking, Got, Answered
<1>3. CASE Serve
  BY <1>3, Served
<1>4. CASE Receive
  <2>1. down' = [NoDownload EXCEPT !.etag = down.etag, !.got = down.got]
    BY <1>4 DEF Receive
  <2> QED BY <1>0, <2>1 DEF DownInv, Writing, Stored, Asking, Got, Answered, NoDownload
<1> QED BY <1>1, <1>2, <1>3, <1>4 DEF Download

-----------------------------------------------------------------------------
LEMMA DownInvInit == Init => DownInv
<1>1. IsSeq(<<>>) /\ Len(<<>>) = 0
  BY <<>> \in Seq({}) DEF IsSeq
<1> QED BY <1>1 DEF Init, DownInv, Writing, Stored, Asking, Got, Answered, NoUpload, NoDownload

LEMMA DownInvNext == DownInv /\ [Next]_transferVars => DownInv'
<1> SUFFICES ASSUME DownInv, [Next]_transferVars PROVE DownInv'
  OBVIOUS
<1>1. CASE Upload
  <2>1. UNCHANGED down
    BY <1>1 DEF Upload, Send, ReadPlain, ReadHeader, ReadData, ReadTrailers, EndCopy, Commit, Answer
  <2>2. Writing' /\ (objects' = objects \/ \E b : IsSeq(b) /\ objects' = Append(objects, b))
    BY <1>1, Written DEF DownInv
  <2>3. CASE objects' = objects
    BY <2>1, <2>2, <2>3 DEF DownInv, Stored, Asking, Got, Answered, Answers
  <2> QED BY <2>1, <2>2, <2>3, Added
<1>2. CASE Download
  BY <1>2, Downloaded
<1>3. CASE Overwrite
  <2>1. PICK b \in Bodies : objects' = Append(objects, b)
    BY <1>3 DEF Overwrite
  <2>2. IsSeq(b)
    <3>1. PICK n \in 0..MaxLength : b \in [1..n -> Byte]
      BY DEF Bodies
    <3>2. n \in Nat
      BY TransferAssumption
    <3>3. b \in Seq(Byte)
      BY <3>1, <3>2
    <3> QED BY <3>3 DEF IsSeq
  <2>3. Writing' /\ UNCHANGED down
    BY <1>3 DEF Overwrite, DownInv, Writing
  <2> QED BY <2>1, <2>2, <2>3, Added
<1>4. CASE UNCHANGED transferVars
  BY <1>4 DEF transferVars, DownInv, Writing, Stored, Asking, Got, Answered, Answers
<1> QED BY <1>1, <1>2, <1>3, <1>4 DEF Next

\* Ranges (handler/object.go:391), If-Range (handler/object.go:218) and If-Match
\* (handler/s3_compat.go:282): whatever is written between the requests of a download, and
\* wherever its answers break off, a client that sends back the ETag it was given puts
\* together pieces of one object, and each answer has just the bytes that were asked for.
THEOREM PiecesStayOfOneObject == TransferSpec => []PiecesAreOfOneObject
<1>1. DownInv => PiecesAreOfOneObject
  BY DEF DownInv, Got, Answered, Answers, PiecesAreOfOneObject
<1> QED BY DownInvInit, DownInvNext, <1>1, PTL DEF TransferSpec

-----------------------------------------------------------------------------
(* FlattenSeq: the wire is the pieces of the body, one after another. *)

\* A set of numbers has a least one.
LEMMA LeastNumber ==
  ASSUME NEW T, T \subseteq Nat, T # {} PROVE \E x \in T : \A y \in T : x <= y
<1> DEFINE R == OpToRel(<, Nat)
<1>1. \E x \in T : \A y \in T : ~(<<y, x>> \in R)
  BY NatLessThanWellFounded, WFMin
<1>2. ASSUME NEW x \in Nat, NEW y \in Nat, <<y, x>> \notin R PROVE x <= y
  <2>1. ~(y < x)
    BY <1>2, Zenon DEF OpToRel
  <2> HIDE DEF R
  <2> QED BY <2>1
<1> HIDE DEF R
<1> QED BY <1>1, <1>2

\* What FlattenSeq computes for the first i of the sequences P.
Flattens(P, f, n) == \A i \in 1..n : f[i] = IF i = 1 THEN P[i] ELSE f[i - 1] \o P[i]

\* FlattenSeq is the last value of such a function.
LEMMA FlattenExists ==
  ASSUME NEW T, NEW P \in Seq(Seq(T))
  PROVE  \E f \in [1..Len(P) -> Seq(T)] : Flattens(P, f, Len(P))
<1> DEFINE Bad == {n \in 0..Len(P) : ~\E f \in [1..n -> Seq(T)] : Flattens(P, f, n)}
<1> SUFFICES ASSUME Bad # {} PROVE FALSE
  OBVIOUS
<1>1. PICK n \in Bad : \A m \in Bad : n <= m
  <2>1. Bad \subseteq Nat
    OBVIOUS
  <2> HIDE DEF Bad
  <2> QED BY <2>1, LeastNumber
<1>2. n \in 0..Len(P) /\ ~\E f \in [1..n -> Seq(T)] : Flattens(P, f, n)
  OBVIOUS
<1>3. CASE n = 0
  <2> DEFINE f == [i \in 1..0 |-> <<>>]
  <2>1. f \in [1..0 -> Seq(T)] /\ Flattens(P, f, 0)
    BY DEF Flattens
  <2> QED BY <1>2, <1>3, <2>1
<1>4. CASE n # 0
  <2>1. n - 1 \in 0..Len(P) /\ ~(n <= n - 1)
    BY <1>2, <1>4
  <2>2. PICK g \in [1..(n - 1) -> Seq(T)] : Flattens(P, g, n - 1)
    BY <1>1, <2>1
  <2> DEFINE e == IF n = 1 THEN P[n] ELSE g[n - 1] \o P[n]
             f == [i \in 1..n |-> IF i = n THEN e ELSE g[i]]
  <2>3. e \in Seq(T)
    <3>1. P[n] \in Seq(T)
      BY <1>2, <1>4
    <3>2. n # 1 => g[n - 1] \in Seq(T)
      BY <1>2, <1>4
    <3> QED BY <3>1, <3>2
  <2> HIDE DEF e
  <2>4. f \in [1..n -> Seq(T)]
    BY <1>2, <2>3
  <2>5. ASSUME NEW i \in 1..n PROVE f[i] = IF i = 1 THEN P[i] ELSE f[i - 1] \o P[i]
    <3>1. CASE i = n
      <4>1. i # 1 => f[i - 1] = g[i - 1]
        BY <1>2
      <4> QED BY <3>1, <4>1 DEF e
    <3>2. CASE i # n
      <4>1. i \in 1..(n - 1)
        BY <1>2, <3>2
      <4>2. i # 1 => f[i - 1] = g[i - 1]
        BY <1>2, <4>1
      <4> QED BY <2>2, <3>2, <4>1, <4>2 DEF Flattens
    <3> QED BY <3>1, <3>2
  <2> HIDE DEF f
  <2>6. Flattens(P, f, n)
    BY <2>5 DEF Flattens
  <2> QED BY <1>2, <2>4, <2>6
<1> QED BY <1>3, <1>4

\* Where the sequences of P lie in F: the first s[i] elements are of the first i of them.
LiesIn(P, F, s, n) ==
  /\ s \in [0..n -> Nat] /\ s[0] = 0 /\ \A i \in 1..n : s[i] = s[i - 1] + Len(P[i])
  /\ Len(F) = s[n]
  /\ \A i \in 1..n : s[i] <= s[n] /\ \A k \in 1..Len(P[i]) : F[s[i - 1] + k] = P[i][k]

\* One sequence more.
LEMMA LiesMore ==
  ASSUME NEW T, NEW p \in Nat, NEW P, NEW F \in Seq(T), NEW r, LiesIn(P, F, r, p),
         \A i \in 1..p : Len(P[i]) \in Nat, P[p + 1] \in Seq(T)
  PROVE  \E s : LiesIn(P, F \o P[p + 1], s, p + 1)
<1> DEFINE e == P[p + 1]
           s == [i \in 0..(p + 1) |-> IF i = p + 1 THEN r[p] + Len(e) ELSE r[i]]
<1>0. e \in Seq(T) /\ e = P[p + 1]
  OBVIOUS
<1>n. Len(e) \in Nat
  BY <1>0
<1> HIDE DEF e
<1>1. /\ r \in [0..p -> Nat] /\ r[0] = 0 /\ \A i \in 1..p : r[i] = r[i - 1] + Len(P[i])
      /\ Len(F) = r[p]
      /\ \A i \in 1..p : r[i] <= r[p] /\ \A k \in 1..Len(P[i]) : F[r[i - 1] + k] = P[i][k]
  BY DEF LiesIn
<1>2. r[p] \in Nat /\ \A i \in 0..p : r[i] \in Nat
  BY <1>1
<1>3. s[p + 1] = r[p] + Len(e) /\ \A i \in 0..p : s[i] = r[i]
  BY <1>2
<1>4. s \in [0..(p + 1) -> Nat]
  BY <1>2, <1>n
<1> HIDE DEF s
<1>5. /\ Len(F \o e) = r[p] + Len(e)
      /\ \A i \in 1..r[p] : (F \o e)[i] = F[i]
      /\ \A k \in 1..Len(e) : (F \o e)[r[p] + k] = e[k]
  <2>1. Len(F) = r[p]
    BY <1>1
  <2>2. Len(F \o e) = Len(F) + Len(e)
    BY <1>0
  <2>3. \A i \in 1..Len(F) : (F \o e)[i] = F[i]
    BY <1>0
  <2>4. \A k \in 1..Len(e) : (F \o e)[Len(F) + k] = e[k]
    BY <1>0, <1>n, <2>1, <1>2
  <2> QED BY <2>1, <2>2, <2>3, <2>4
<1>6. \A i \in 1..(p + 1) : i = p + 1 \/ (i \in 1..p /\ i \in 0..p /\ i - 1 \in 0..p)
  OBVIOUS
<1>7. s[0] = 0 /\ s[(p + 1) - 1] = r[p] /\ p + 1 \in 1..(p + 1)
  BY <1>1, <1>3
<1>8. ASSUME NEW i \in 1..(p + 1)
      PROVE  /\ s[i] = s[i - 1] + Len(P[i]) /\ s[i] <= s[p + 1]
             /\ \A k \in 1..Len(P[i]) : (F \o e)[s[i - 1] + k] = P[i][k]
  <2>1. CASE i = p + 1
    <3>1. s[i - 1] = r[p] /\ s[i] = s[p + 1] /\ P[i] = e
      BY <1>0, <1>7, <2>1
    <3>2. s[i] = s[i - 1] + Len(P[i]) /\ s[i] <= s[p + 1]
      BY <1>2, <1>3, <1>n, <3>1
    <3>3. \A k \in 1..Len(P[i]) : (F \o e)[s[i - 1] + k] = P[i][k]
      BY <1>5, <3>1
    <3> QED BY <3>2, <3>3
  <2>2. CASE i \in 1..p
    <3>1. i \in 0..p /\ i - 1 \in 0..p
      BY <2>2
    <3>2. s[i] = r[i] /\ s[i - 1] = r[i - 1]
      BY <1>3, <3>1
    <3>3. r[i] = r[i - 1] + Len(P[i]) /\ r[i] <= r[p] /\ Len(P[i]) \in Nat
      BY <1>1, <2>2
    <3>4. r[i] \in Nat /\ r[i - 1] \in Nat
      BY <1>2, <3>1
    <3>5. \A k \in 1..Len(P[i]) : r[i - 1] + k \in 1..r[p]
      BY <1>2, <3>3, <3>4
    <3>6. \A k \in 1..Len(P[i]) : (F \o e)[r[i - 1] + k] = P[i][k]
      BY <1>1, <1>5, <2>2, <3>5
    <3>7. s[i] = s[i - 1] + Len(P[i]) /\ s[i] <= s[p + 1]
      BY <1>2, <1>3, <1>n, <3>2, <3>3, <3>4
    <3>8. \A k \in 1..Len(P[i]) : (F \o e)[s[i - 1] + k] = P[i][k]
      BY <3>2, <3>6
    <3> QED BY <3>7, <3>8
  <2> QED BY <1>6, <2>1, <2>2
<1>10. Len(F \o e) = s[p + 1] /\ s[0] = 0
  BY <1>3, <1>5, <1>7
<1>11. LiesIn(P, F \o e, s, p + 1)
  BY <1>4, <1>8, <1>10 DEF LiesIn
<1> QED BY <1>0, <1>11

\* So each of them lies in what FlattenSeq makes of them.
LEMMA FlattenLies ==
  ASSUME NEW T, NEW P \in Seq(Seq(T)), NEW f \in [1..Len(P) -> Seq(T)], Flattens(P, f, Len(P)),
         NEW n \in 1..Len(P)
  PROVE  \E s : LiesIn(P, f[n], s, n)
<1> DEFINE Bad == {m \in 1..Len(P) : ~\E s : LiesIn(P, f[m], s, m)}
<1> SUFFICES ASSUME Bad # {} PROVE FALSE
  OBVIOUS
<1>1. PICK m \in Bad : \A j \in Bad : m <= j
  <2>1. Bad \subseteq Nat
    OBVIOUS
  <2> HIDE DEF Bad
  <2> QED BY <2>1, LeastNumber
<1>2. m \in 1..Len(P) /\ ~\E s : LiesIn(P, f[m], s, m)
  OBVIOUS
<1>f. f[m] = IF m = 1 THEN P[m] ELSE f[m - 1] \o P[m]
  BY <1>2 DEF Flattens
<1>3. ASSUME NEW i \in 1..Len(P) PROVE P[i] \in Seq(T) /\ f[i] \in Seq(T) /\ Len(P[i]) \in Nat
  <2>1. P[i] \in Seq(T)
    OBVIOUS
  <2>2. f[i] \in Seq(T)
    OBVIOUS
  <2> QED BY <2>1, <2>2
<1> DEFINE p == m - 1
           F == IF p = 0 THEN <<>> ELSE f[p]
<1>4. p \in Nat /\ m = p + 1 /\ (p # 0 => p \in 1..Len(P)) /\ \A i \in 1..p : i \in 1..Len(P)
  BY <1>2
<1>5. F \in Seq(T)
  BY <1>3, <1>4
<1>6. \E r : LiesIn(P, F, r, p)
  <2>1. CASE p = 0
    <3> DEFINE r == [i \in 0..0 |-> 0]
    <3>1. r \in [0..0 -> Nat] /\ r[0] = 0 /\ Len(<<>>) = 0 /\ 1..0 = {}
      OBVIOUS
    <3> HIDE DEF r
    <3>2. LiesIn(P, <<>>, r, 0)
      BY <3>1 DEF LiesIn
    <3> QED BY <2>1, <3>2
  <2>2. CASE p # 0
    <3>1. p \notin Bad
      <4> HIDE DEF Bad
      <4>1. ~(m <= p)
        BY <1>4
      <4> QED BY <1>1, <4>1
    <3> QED BY <1>4, <2>2, <3>1
  <2> QED BY <2>1, <2>2
<1>7. f[m] = F \o P[p + 1]
  <2>1. CASE p = 0
    <3>1. f[m] = P[m]
      BY <1>f, <1>4, <2>1
    <3>2. <<>> \o P[m] = P[m]
      BY <1>2, <1>3
    <3> QED BY <1>4, <2>1, <3>1, <3>2
  <2>2. CASE p # 0
    <3>1. m # 1
      BY <1>4, <2>2
    <3>2. f[m] = f[m - 1] \o P[m]
      BY <1>f, <3>1
    <3>3. F = f[m - 1] /\ p + 1 = m
      BY <1>4, <2>2
    <3> HIDE DEF p, F
    <3> QED BY <3>2, <3>3
  <2> QED BY <2>1, <2>2
<1>8. \A i \in 1..p : Len(P[i]) \in Nat
  BY <1>3, <1>4
<1>9. P[p + 1] \in Seq(T)
  BY <1>2, <1>3, <1>4
<1> HIDE DEF Bad, p, F
<1>10. \E s : LiesIn(P, F \o P[p + 1], s, p + 1)
  <2>1. PICK r : LiesIn(P, F, r, p)
    BY <1>6
  <2> QED BY <1>4, <1>5, <1>8, <1>9, <2>1, LiesMore
<1> QED BY <1>2, <1>4, <1>7, <1>10

\* Any sequences are parts of one.
LEMMA Concatenated ==
  ASSUME NEW T, NEW P \in Seq(Seq(T)) PROVE \E F \in Seq(T) : \E s : LiesIn(P, F, s, Len(P))
<1>1. CASE Len(P) = 0
  <2> DEFINE r == [i \in 0..0 |-> 0]
  <2>1. r \in [0..0 -> Nat] /\ r[0] = 0 /\ Len(<<>>) = 0 /\ 1..0 = {} /\ <<>> \in Seq(T)
    OBVIOUS
  <2> HIDE DEF r
  <2>2. LiesIn(P, <<>>, r, 0)
    BY <2>1 DEF LiesIn
  <2> QED BY <1>1, <2>1, <2>2
<1>2. CASE Len(P) # 0
  <2>1. PICK f \in [1..Len(P) -> Seq(T)] : Flattens(P, f, Len(P))
    BY FlattenExists
  <2>2. Len(P) \in 1..Len(P)
    BY <1>2
  <2>3. \E s : LiesIn(P, f[Len(P)], s, Len(P))
    BY <2>1, <2>2, FlattenLies
  <2>4. f[Len(P)] \in Seq(T)
    BY <2>1, <2>2
  <2> QED BY <2>3, <2>4
<1> QED BY <1>1, <1>2

\* FlattenSeq puts its sequences one after another.
LEMMA Flattened ==
  ASSUME NEW T, NEW P \in Seq(Seq(T)), Len(P) > 0
  PROVE  FlattenSeq(P) \in Seq(T) /\ \E s : LiesIn(P, FlattenSeq(P), s, Len(P))
<1> DEFINE f == CHOOSE f : f = [i \in 1..Len(P) |-> IF i = 1 THEN P[i] ELSE f[i - 1] \o P[i]]
<1>1. FlattenSeq(P) = f[Len(P)]
  BY DEF FlattenSeq
<1>2. PICK g \in [1..Len(P) -> Seq(T)] : Flattens(P, g, Len(P))
  BY FlattenExists
<1>3. g = [i \in 1..Len(P) |-> IF i = 1 THEN P[i] ELSE g[i - 1] \o P[i]]
  BY <1>2 DEF Flattens
<1>4. f = [i \in 1..Len(P) |-> IF i = 1 THEN P[i] ELSE f[i - 1] \o P[i]]
  BY <1>3
<1> HIDE DEF f
<1>5. Flattens(P, f, Len(P)) /\ DOMAIN f = 1..Len(P) /\ f = [i \in 1..Len(P) |-> f[i]]
  BY <1>4 DEF Flattens
<1>6. \A i \in 1..Len(P) : f[i] \in Seq(T)
  <2> DEFINE Bad == {n \in 1..Len(P) : f[n] \notin Seq(T)}
  <2> SUFFICES ASSUME Bad # {} PROVE FALSE
    OBVIOUS
  <2>1. PICK n \in Bad : \A m \in Bad : n <= m
    <3>1. Bad \subseteq Nat
      OBVIOUS
    <3> HIDE DEF Bad
    <3> QED BY <3>1, LeastNumber
  <2>2. n # 1 => n - 1 \in 1..Len(P) /\ ~(n <= n - 1)
    OBVIOUS
  <2>3. n # 1 => f[n - 1] \in Seq(T)
    BY <2>1, <2>2
  <2>0. n \in 1..Len(P) /\ f[n] \notin Seq(T)
    OBVIOUS
  <2>4. f[n] = IF n = 1 THEN P[n] ELSE f[n - 1] \o P[n]
    BY <1>5, <2>0 DEF Flattens
  <2>5. P[n] \in Seq(T)
    BY <2>0
  <2> HIDE DEF Bad
  <2> QED BY <2>0, <2>3, <2>4, <2>5
<1>7. f \in [1..Len(P) -> Seq(T)] /\ Len(P) \in 1..Len(P)
  BY <1>5, <1>6
<1> QED BY <1>1, <1>5, <1>7, FlattenLies

-----------------------------------------------------------------------------
(* What is true of an upload: the stream, and where the decoder is in it. *)

\* The fields of an upload.
Fields == {"pc", "mode", "has", "body", "chunks", "harm", "wire", "end", "declared", "file",
           "remaining", "hash", "sig", "prev", "trailer", "final"}

\* What may be on the wire: a plain body is data only.
Symbols(mode, has, body, chunks) ==
  {Data(b) : b \in Byte} \cup
  (IF mode = "plain" THEN {}
   ELSE {Line(t) : t \in {"crlf", "blank", "torn"}}
        \cup {Header(Len(chunks[i]), Signed(mode, SubSeq(chunks, 1, i))) : i \in 1..Len(chunks)}
        \cup {Header(0, Signed(mode, Append(chunks, <<>>)))}
        \cup (IF "trailer" \in has
                THEN {Checksum(body), TrailerSig(<<Append(chunks, <<>>), Checksum(body)>>)}
                ELSE {}))

\* The chunks are the body, in pieces.
ChunksOf(cs, body) ==
  /\ cs \in Seq(Seq(Byte)) /\ \A i \in 1..Len(cs) : Len(cs[i]) > 0
  /\ \E e : LiesIn(cs, body, e, Len(cs))

\* What the client sends and what arrives of it, which no step changes, and the types of the rest.
Context(u) ==
  /\ DOMAIN u = Fields
  /\ u.mode \in {"plain", "unsigned", "signed"}
  /\ u.mode = "plain" => "trailer" \notin u.has
  /\ u.body \in Seq(Byte)
  /\ u.mode # "plain" => ChunksOf(u.chunks, u.body)
  /\ u.harm \in {"none", "cut", "changed", "lost", "moved"}
  /\ u.end \in {"eof", "reset"} /\ (u.harm # "cut" => u.end = "eof")
  /\ u.harm = "none" => u.declared \in {-1, Len(u.body)}
  /\ u.mode # "plain" /\ "length" \in u.has => u.declared = Len(u.body)
  /\ u.wire \in Seq(Symbols(u.mode, u.has, u.body, u.chunks))
  /\ u.file \in Seq(Byte) /\ u.hash \in Seq(Byte) /\ u.remaining \in Nat

\* The chunks, and the empty one at the end.
NthOf(cs, x) == IF x <= Len(cs) THEN cs[x] ELSE <<>>

\* The first i chunks.
Chain(v, chunks, i) ==
  /\ v \in Seq(Seq(Byte)) /\ Len(v) = i
  /\ \A x \in 1..i : v[x] = NthOf(chunks, x)

\* The stream w has m chunks, which end at e in the content c and have the signatures g.
Layout(w, m, e, c, g) ==
  /\ m \in Nat /\ e \in [0..m -> Nat] /\ e[0] = 0 /\ e[m] = Len(c) /\ c \in Seq(Byte)
  /\ Len(w) \in Nat /\ e[m] + 2 * m + 1 <= Len(w)
  /\ \A j \in 1..m :
       /\ e[j - 1] < e[j] /\ e[j] <= e[m]
       /\ w[e[j - 1] + 2 * j - 1] = Header(e[j] - e[j - 1], g[j])
       /\ \A k \in 1..(e[j] - e[j - 1]) : w[e[j - 1] + 2 * j - 1 + k] = Data(c[e[j - 1] + k])
       /\ w[e[j] + 2 * j] = Line("crlf")
  /\ w[e[m] + 2 * m + 1] = Header(0, g[m + 1])

\* What is on the wire is what follows position p of w.
Reads(u, w, p) ==
  /\ p + Len(u.wire) <= Len(w)
  /\ \A x \in 1..Len(u.wire) : u.wire[x] = w[p + x] \/ u.wire[x] = Line("torn")
  /\ u.harm = "none" => p + Len(u.wire) = Len(w) /\ \A x \in 1..Len(u.wire) : u.wire[x] = w[p + x]

\* What the stream is of.
Content(u, m, e, c, g) ==
  /\ u.harm \in {"none", "cut"} => c = u.body
  /\ u.harm = "lost" => Len(c) # Len(u.body)
  /\ u.harm = "none" /\ u.mode = "signed" =>
       /\ m = Len(u.chunks) /\ \A j \in 1..(m + 1) : Chain(g[j], u.chunks, j)
       /\ \A j \in 1..m : /\ Len(u.chunks[j]) = e[j] - e[j - 1]
                          /\ \A k \in 1..(e[j] - e[j - 1]) : u.chunks[j][k] = c[e[j - 1] + k]

\* The decoder has read j chunks, and o bytes of the next one.
Placed(u, w, m, e, c, g, j, o) ==
  /\ j \in 0..m /\ o \in Nat
  /\ Len(u.file) = e[j] + o /\ \A x \in 1..(e[j] + o) : u.file[x] = c[x]
  /\ u.remaining = 0 => o = 0 /\ Reads(u, w, e[j] + 2 * j)
  /\ u.remaining > 0 =>
       /\ j < m /\ o + u.remaining = e[j + 1] - e[j] /\ Reads(u, w, e[j] + 2 * j + 1 + o)
       /\ u.sig = g[j + 1] /\ Len(u.hash) = o /\ \A x \in 1..o : u.hash[x] = c[e[j] + x]
  /\ u.harm = "none" /\ u.mode = "signed" => Chain(u.prev, u.chunks, j)

\* The decoder is in a stream that holds the body, cut off or with a chunk less.
Framed(u) ==
  u.mode # "plain" /\ u.harm \in {"none", "cut", "lost"} =>
    \E w, m, e, c, g : /\ Layout(w, m, e, c, g) /\ Content(u, m, e, c, g)
                       /\ \E j, o : Placed(u, w, m, e, c, g, j, o)

\* A step changes none of these.
Same(u, v) ==
  /\ v.mode = u.mode /\ v.has = u.has /\ v.body = u.body /\ v.chunks = u.chunks
  /\ v.harm = u.harm /\ v.end = u.end /\ v.declared = u.declared

-----------------------------------------------------------------------------
\* What is left of a sequence after its first n elements.
LEMMA RestOf ==
  ASSUME NEW S, NEW s \in Seq(S), NEW n \in 0..Len(s)
  PROVE  LET r == SubSeq(s, n + 1, Len(s))
         IN r \in Seq(S) /\ Len(r) = Len(s) - n /\ \A x \in 1..(Len(s) - n) : r[x] = s[n + x]
  OBVIOUS

\* And after one more.
LEMMA TailOfRest ==
  ASSUME NEW S, NEW s \in Seq(S), NEW n \in 0..(Len(s) - 1)
  PROVE  Tail(SubSeq(s, n + 1, Len(s))) = SubSeq(s, n + 1 + 1, Len(s))
<1> DEFINE a == SubSeq(s, n + 1, Len(s))
           b == SubSeq(s, n + 1 + 1, Len(s))
<1>1. a \in Seq(S) /\ Len(a) = Len(s) - n /\ \A x \in 1..(Len(s) - n) : a[x] = s[n + x]
  BY RestOf
<1>2. b \in Seq(S) /\ Len(b) = Len(s) - (n + 1) /\ \A x \in 1..(Len(s) - (n + 1)) : b[x] = s[n + 1 + x]
  BY RestOf
<1> HIDE DEF a, b
<1>3. Len(a) >= 1
  BY <1>1
<1>4. Tail(a) \in Seq(S) /\ Len(Tail(a)) = Len(s) - (n + 1)
      /\ \A x \in 1..(Len(s) - (n + 1)) : Tail(a)[x] = a[x + 1]
  BY <1>1, <1>3
<1>5. \A x \in 1..(Len(s) - (n + 1)) : Tail(a)[x] = b[x]
  BY <1>1, <1>2, <1>4
<1> QED BY <1>2, <1>4, <1>5

\* Two sequences, one after the other.
LEMMA JoinOf ==
  ASSUME NEW S, NEW a \in Seq(S), NEW b \in Seq(S)
  PROVE  /\ a \o b \in Seq(S) /\ Len(a \o b) = Len(a) + Len(b)
         /\ \A x \in 1..Len(a) : (a \o b)[x] = a[x]
         /\ \A x \in 1..Len(b) : (a \o b)[Len(a) + x] = b[x]
  OBVIOUS

\* Sequences with the same elements are equal.
LEMMA Equal ==
  ASSUME NEW S, NEW a \in Seq(S), NEW b \in Seq(S), Len(a) = Len(b),
         \A x \in 1..Len(a) : a[x] = b[x]
  PROVE  a = b
  OBVIOUS

\* The decoder goes on in the stream.
LEMMA ReadsOn ==
  ASSUME NEW S, NEW u, NEW v, u.wire \in Seq(S), v.harm = u.harm, NEW n \in 0..Len(u.wire),
         v.wire = SubSeq(u.wire, n + 1, Len(u.wire)), NEW w, Len(w) \in Nat, NEW p \in Nat,
         Reads(u, w, p)
  PROVE  Reads(v, w, p + n)
<1> DEFINE L == Len(u.wire)
<1>1. L \in Nat /\ n \in 0..L /\ n \in Nat
  OBVIOUS
<1>2. Len(v.wire) = L - n /\ \A x \in 1..(L - n) : v.wire[x] = u.wire[n + x]
  BY RestOf
<1> HIDE DEF L
<1>3. \A x \in 1..(L - n) : n + x \in 1..L /\ p + n + x = p + (n + x)
  BY <1>1
<1>4. p + L <= Len(w) /\ \A x \in 1..L : u.wire[x] = w[p + x] \/ u.wire[x] = Line("torn")
  BY DEF Reads, L
<1>5. u.harm = "none" => p + L = Len(w) /\ \A x \in 1..L : u.wire[x] = w[p + x]
  BY DEF Reads, L
<1>6. p + n + Len(v.wire) <= Len(w) /\ (p + L = Len(w) => p + n + Len(v.wire) = Len(w))
  <2>1. Len(v.wire) = L - n
    BY <1>2
  <2>2. p + L <= Len(w)
    BY <1>4
  <2> DEFINE K == Len(v.wire)
             N == Len(w)
  <2>3. K = L - n /\ p + L <= N /\ N \in Nat
    BY <2>1, <2>2
  <2> HIDE DEF K, N
  <2>4. p + n + K <= N /\ (p + L = N => p + n + K = N)
    BY <1>1, <2>3
  <2> QED BY <2>4 DEF K, N
<1>7. \A x \in 1..Len(v.wire) : v.wire[x] = w[p + n + x] \/ v.wire[x] = Line("torn")
  BY <1>2, <1>3, <1>4
<1>8. u.harm = "none" => \A x \in 1..Len(v.wire) : v.wire[x] = w[p + n + x]
  BY <1>2, <1>3, <1>5
<1> QED BY <1>5, <1>6, <1>7, <1>8 DEF Reads

\* Where chunk j + 1 is in the stream.
LEMMA Chunk ==
  ASSUME NEW w, NEW m, NEW e, NEW c, NEW g, Layout(w, m, e, c, g), NEW j \in 0..m
  PROVE  /\ m \in Nat /\ e[j] \in Nat /\ e[j] <= e[m] /\ e[m] = Len(c) /\ e[m] \in Nat
         /\ e[m] + 2 * m + 1 <= Len(w) /\ Len(w) \in Nat
         /\ j = m => w[e[j] + 2 * j + 1] = Header(0, g[j + 1])
         /\ j < m =>
              /\ e[j + 1] \in Nat /\ e[j] < e[j + 1] /\ e[j + 1] <= e[m]
              /\ w[e[j] + 2 * j + 1] = Header(e[j + 1] - e[j], g[j + 1])
              /\ \A k \in 1..(e[j + 1] - e[j]) : w[e[j] + 2 * j + 1 + k] = Data(c[e[j] + k])
              /\ w[e[j + 1] + 2 * j + 2] = Line("crlf")
<1>1. /\ m \in Nat /\ e \in [0..m -> Nat] /\ e[0] = 0 /\ e[m] = Len(c)
      /\ Len(w) \in Nat /\ e[m] + 2 * m + 1 <= Len(w)
      /\ w[e[m] + 2 * m + 1] = Header(0, g[m + 1])
  BY DEF Layout
<1>2. e[j] \in Nat /\ e[m] \in Nat
  BY <1>1
<1>3. e[j] <= e[m]
  <2>1. CASE j = 0
    BY <1>1, <1>2, <2>1
  <2>2. CASE j # 0
    <3>1. j \in 1..m
      BY <1>1, <2>2
    <3> QED BY <3>1 DEF Layout
  <2> QED BY <2>1, <2>2
<1>4. ASSUME j < m
      PROVE  /\ e[j + 1] \in Nat /\ e[j] < e[j + 1] /\ e[j + 1] <= e[m]
             /\ w[e[j] + 2 * j + 1] = Header(e[j + 1] - e[j], g[j + 1])
             /\ \A k \in 1..(e[j + 1] - e[j]) : w[e[j] + 2 * j + 1 + k] = Data(c[e[j] + k])
             /\ w[e[j + 1] + 2 * j + 2] = Line("crlf")
  <2> DEFINE i == j + 1
  <2>1. i \in 1..m /\ i - 1 = j /\ i \in 0..m
    BY <1>1, <1>4
  <2> HIDE DEF i
  <2>2. /\ e[i - 1] < e[i] /\ e[i] <= e[m]
        /\ w[e[i - 1] + 2 * i - 1] = Header(e[i] - e[i - 1], g[i])
        /\ \A k \in 1..(e[i] - e[i - 1]) : w[e[i - 1] + 2 * i - 1 + k] = Data(c[e[i - 1] + k])
        /\ w[e[i] + 2 * i] = Line("crlf")
    BY <2>1 DEF Layout
  <2>3. e[i] \in Nat
    BY <1>1, <2>1
  <2>4. e[i - 1] + 2 * i - 1 = e[j] + 2 * j + 1 /\ e[i] + 2 * i = e[i] + 2 * j + 2
    BY <1>2, <2>3, <2>1 DEF i
  <2> QED BY <2>1, <2>2, <2>3, <2>4 DEF i
<1> QED BY <1>1, <1>2, <1>3, <1>4

\* The kinds of symbols.
LEMMA SymbolsDiffer ==
  ASSUME NEW n, NEW s, NEW b
  PROVE  /\ Header(n, s).t = "head" /\ Header(n, s).size = n /\ Header(n, s).sig = s
         /\ Data(b).t = "data" /\ Data(b).byte = b
         /\ Line("torn").t = "torn" /\ Line("crlf").t = "crlf" /\ Line("blank").t = "blank"
  BY DEF Header, Data, Line

\* readChunkHeader begins the next chunk.
LEMMA FramedHeader ==
  ASSUME NEW S, NEW u, NEW v, Same(u, v), Framed(u), u.wire \in Seq(S), u.mode # "plain",
         u.remaining = 0, u.wire # <<>>, u.wire[1].t = "head", u.wire[1].size > 0,
         v.wire = SubSeq(u.wire, 1 + 1, Len(u.wire)), v.file = u.file,
         v.remaining = u.wire[1].size, v.sig = u.wire[1].sig, v.hash = <<>>, v.prev = u.prev
  PROVE  Framed(v)
<1>1. SUFFICES ASSUME v.mode # "plain", v.harm \in {"none", "cut", "lost"}
      PROVE \E w, m, e, c, g : /\ Layout(w, m, e, c, g) /\ Content(v, m, e, c, g)
                               /\ \E j, o : Placed(v, w, m, e, c, g, j, o)
  BY DEF Framed
<1>2. u.harm \in {"none", "cut", "lost"}
  BY <1>1 DEF Same
<1>3. PICK w, m, e, c, g : /\ Layout(w, m, e, c, g) /\ Content(u, m, e, c, g)
                           /\ \E j, o : Placed(u, w, m, e, c, g, j, o)
  BY <1>2 DEF Framed
<1>4. PICK j, o : Placed(u, w, m, e, c, g, j, o)
  BY <1>3
<1>5. j \in 0..m /\ o = 0 /\ Reads(u, w, e[j] + 2 * j)
  BY <1>4 DEF Placed
<1>6. 1 \in 1..Len(u.wire) /\ 1 \in 0..Len(u.wire)
  OBVIOUS
<1>7. /\ m \in Nat /\ e[j] \in Nat /\ Len(w) \in Nat
      /\ j = m => w[e[j] + 2 * j + 1] = Header(0, g[j + 1])
      /\ j < m => w[e[j] + 2 * j + 1] = Header(e[j + 1] - e[j], g[j + 1])
                  /\ e[j + 1] \in Nat /\ e[j] < e[j + 1]
  BY <1>3, <1>5, Chunk
<1>8. u.wire[1] = w[e[j] + 2 * j + 1]
  <2>1. u.wire[1] = w[e[j] + 2 * j + 1] \/ u.wire[1] = Line("torn")
    BY <1>5, <1>6 DEF Reads
  <2> QED BY <2>1, SymbolsDiffer
<1>9. j < m
  <2>1. j = m => u.wire[1].size = 0
    BY <1>7, <1>8 DEF Header
  <2> QED BY <1>5, <1>7, <2>1
<1>10. v.remaining = e[j + 1] - e[j] /\ v.sig = g[j + 1]
  <2>1. u.wire[1] = Header(e[j + 1] - e[j], g[j + 1])
    BY <1>7, <1>8, <1>9
  <2>2. u.wire[1].size = e[j + 1] - e[j] /\ u.wire[1].sig = g[j + 1]
    BY <2>1, SymbolsDiffer
  <2> QED BY <2>2
<1>11. e[j] + 2 * j \in Nat
  BY <1>5, <1>7
<1>12. Reads(v, w, e[j] + 2 * j + 1)
  <2> DEFINE p == e[j] + 2 * j
  <2>1. p \in Nat /\ Reads(u, w, p) /\ v.harm = u.harm /\ Len(w) \in Nat
    BY <1>5, <1>7, <1>11 DEF Same
  <2> HIDE DEF p
  <2>2. Reads(v, w, p + 1)
    BY <1>6, <2>1, ReadsOn
  <2> QED BY <2>2 DEF p
<1>13. Placed(v, w, m, e, c, g, j, 0)
  <2>1. e[j] + 2 * j + 1 + 0 = e[j] + 2 * j + 1 /\ v.remaining > 0 /\ e[j] + 0 = e[j]
        /\ 0 + v.remaining = e[j + 1] - e[j]
    BY <1>5, <1>7, <1>9, <1>10
  <2>2. Len(u.file) = e[j] + 0 /\ (\A x \in 1..(e[j] + 0) : u.file[x] = c[x])
        /\ (u.harm = "none" /\ u.mode = "signed" => Chain(u.prev, u.chunks, j))
    BY <1>4, <1>5 DEF Placed
  <2>3. Len(<<>>) = 0 /\ 1..0 = {} /\ 0 \in Nat
    OBVIOUS
  <2> QED BY <1>5, <1>9, <1>10, <1>12, <2>1, <2>2, <2>3 DEF Placed, Same
<1>14. Content(v, m, e, c, g)
  BY <1>3 DEF Content, Same
<1> QED BY <1>3, <1>13, <1>14

\* A piece of c, from d on.
PieceOf(a, c, d) == \A x \in 1..Len(a) : a[x] = c[d + x]

\* A piece grows with what it is a piece of.
LEMMA Longer ==
  ASSUME NEW S, NEW a \in Seq(S), NEW b \in Seq(S), NEW c, NEW d \in Nat,
         PieceOf(a, c, d), PieceOf(b, c, d + Len(a))
  PROVE  a \o b \in Seq(S) /\ Len(a \o b) = Len(a) + Len(b) /\ PieceOf(a \o b, c, d)
<1>1. /\ a \o b \in Seq(S) /\ Len(a \o b) = Len(a) + Len(b)
      /\ \A x \in 1..Len(a) : (a \o b)[x] = a[x]
      /\ \A x \in 1..Len(b) : (a \o b)[Len(a) + x] = b[x]
  BY JoinOf
<1>2. Len(a) \in Nat /\ Len(b) \in Nat
  OBVIOUS
<1>3. ASSUME NEW x \in 1..(Len(a) + Len(b)) PROVE (a \o b)[x] = c[d + x]
  <2>1. CASE x <= Len(a)
    BY <1>1, <1>2, <2>1 DEF PieceOf
  <2>2. CASE ~(x <= Len(a))
    <3> DEFINE y == x - Len(a)
    <3>1. y \in 1..Len(b) /\ x = Len(a) + y /\ d + x = d + Len(a) + y
      BY <1>2, <2>2
    <3> HIDE DEF y
    <3>2. b[y] = c[d + Len(a) + y]
      BY <3>1 DEF PieceOf
    <3> QED BY <1>1, <3>1, <3>2
  <2> QED BY <2>1, <2>2
<1> QED BY <1>1, <1>3 DEF PieceOf

\* The decoder reads n bytes b of data.
DataStep(u, v, n, b) ==
  /\ Same(u, v)
  /\ u.file \in Seq(Byte) /\ u.hash \in Seq(Byte) /\ u.remaining \in Nat
  /\ n \in Nat /\ 1 <= n /\ n <= u.remaining /\ n <= Len(u.wire) /\ Len(u.wire) \in Nat
  /\ \A x \in 1..n : u.wire[x].t = "data"
  /\ b \in Seq(Byte) /\ Len(b) = n /\ \A x \in 1..n : b[x] = u.wire[x].byte
  /\ v.file = u.file \o b

\* They are not the last ones of a chunk.
SomeStep(u, v, n, b) ==
  /\ DataStep(u, v, n, b) /\ n < u.remaining
  /\ v.remaining = u.remaining - n /\ v.hash = u.hash \o b /\ v.prev = u.prev /\ v.sig = u.sig
  /\ v.wire = SubSeq(u.wire, n + 1, Len(u.wire))

\* What is read is the content, to the end of the bytes read.
ReadTo(u, v, e, c, j, o, n, b) ==
  /\ Len(v.file) = e[j] + (o + n) /\ \A x \in 1..(e[j] + (o + n)) : v.file[x] = c[x]
  /\ Len(u.hash \o b) = o + n /\ \A x \in 1..(o + n) : (u.hash \o b)[x] = c[e[j] + x]

\* The n bytes that are read are the next ones of the content.
LEMMA DataOf ==
  ASSUME NEW u, NEW v, NEW w, NEW m, NEW e, NEW c, NEW g, Layout(w, m, e, c, g), NEW j, NEW o,
         Placed(u, w, m, e, c, g, j, o), NEW n, NEW b, DataStep(u, v, n, b)
  PROVE  ReadTo(u, v, e, c, j, o, n, b)
<1>0. /\ n \in Nat /\ 1 <= n /\ n <= u.remaining /\ n <= Len(u.wire) /\ Len(u.wire) \in Nat
      /\ u.remaining \in Nat /\ u.remaining > 0
  BY DEF DataStep
<1>1. /\ j \in 0..m /\ o \in Nat /\ j < m /\ o + u.remaining = e[j + 1] - e[j]
      /\ Reads(u, w, e[j] + 2 * j + 1 + o)
      /\ Len(u.file) = e[j] + o /\ (\A x \in 1..(e[j] + o) : u.file[x] = c[x])
      /\ Len(u.hash) = o /\ (\A x \in 1..o : u.hash[x] = c[e[j] + x])
  BY <1>0 DEF Placed
<1>2. /\ m \in Nat /\ e[j] \in Nat /\ e[j + 1] \in Nat
      /\ \A k \in 1..(e[j + 1] - e[j]) : w[e[j] + 2 * j + 1 + k] = Data(c[e[j] + k])
  BY <1>1, Chunk
<1>3. ASSUME NEW x \in 1..n PROVE b[x] = c[e[j] + (o + x)]
  <2>1. x \in 1..Len(u.wire)
    BY <1>0
  <2>2. u.wire[x].t = "data" /\ b[x] = u.wire[x].byte
    BY DEF DataStep
  <2>3. u.wire[x] = w[e[j] + 2 * j + 1 + o + x]
    <3>1. u.wire[x] = w[e[j] + 2 * j + 1 + o + x] \/ u.wire[x] = Line("torn")
      BY <1>1, <2>1 DEF Reads
    <3> QED BY <2>2, <3>1, SymbolsDiffer
  <2>4. e[j] + 2 * j + 1 + o + x = e[j] + 2 * j + 1 + (o + x)
    BY <1>1, <1>2, <1>0
  <2>5. o + x \in 1..(e[j + 1] - e[j])
    <3> DEFINE r == u.remaining
               k == e[j + 1] - e[j]
    <3>1. o + r = k /\ r \in Nat /\ n <= r /\ n \in Nat
      BY <1>0, <1>1
    <3> HIDE DEF r, k
    <3>2. o + x \in 1..k
      BY <1>1, <3>1
    <3> QED BY <3>2 DEF k
  <2>6. w[e[j] + 2 * j + 1 + (o + x)] = Data(c[e[j] + (o + x)])
    BY <1>2, <2>5
  <2> QED BY <2>2, <2>3, <2>4, <2>6 DEF Data
<1>4. u.file \in Seq(Byte) /\ u.hash \in Seq(Byte) /\ b \in Seq(Byte) /\ Len(b) = n
      /\ v.file = u.file \o b
  BY DEF DataStep
<1>5. Len(u.hash \o b) = o + n /\ \A x \in 1..(o + n) : (u.hash \o b)[x] = c[e[j] + x]
  <2>1. PieceOf(u.hash, c, e[j])
    BY <1>1 DEF PieceOf
  <2>2. PieceOf(b, c, e[j] + Len(u.hash))
    <3>1. \A x \in 1..n : e[j] + o + x = e[j] + (o + x)
      BY <1>0, <1>1, <1>2
    <3> QED BY <1>1, <1>3, <1>4, <3>1 DEF PieceOf
  <2>3. Len(u.hash \o b) = Len(u.hash) + Len(b) /\ PieceOf(u.hash \o b, c, e[j])
    BY <1>2, <1>4, <2>1, <2>2, Longer
  <2> QED BY <1>1, <1>4, <2>3 DEF PieceOf
<1>6. Len(v.file) = e[j] + (o + n) /\ \A x \in 1..(e[j] + (o + n)) : v.file[x] = c[x]
  <2>1. PieceOf(u.file, c, 0)
    BY <1>1, <1>2 DEF PieceOf
  <2>2. PieceOf(b, c, 0 + Len(u.file))
    <3>1. \A x \in 1..n : 0 + Len(u.file) + x = e[j] + (o + x)
      BY <1>0, <1>1, <1>2
    <3> QED BY <1>1, <1>3, <1>4, <3>1 DEF PieceOf
  <2>3. Len(v.file) = Len(u.file) + Len(b) /\ PieceOf(v.file, c, 0)
    <3> DEFINE d == 0
    <3>1. d \in Nat /\ PieceOf(u.file, c, d) /\ PieceOf(b, c, d + Len(u.file))
      BY <2>1, <2>2
    <3> HIDE DEF d
    <3>2. Len(u.file \o b) = Len(u.file) + Len(b) /\ PieceOf(u.file \o b, c, d)
      BY <1>4, <3>1, Longer
    <3> QED BY <1>4, <3>2 DEF d
  <2>4. Len(v.file) = e[j] + (o + n) /\ \A x \in 1..(e[j] + (o + n)) : 0 + x = x
    BY <1>0, <1>1, <1>2, <1>4, <2>3
  <2> QED BY <2>3, <2>4 DEF PieceOf
<1> QED BY <1>5, <1>6 DEF ReadTo

\* Read stays in the chunk.
LEMMA FramedSome ==
  ASSUME NEW S, NEW u, NEW v, Framed(u), u.wire \in Seq(S), NEW n, NEW b, SomeStep(u, v, n, b)
  PROVE  Framed(v)
<1>0. DataStep(u, v, n, b) /\ Same(u, v)
  BY DEF SomeStep, DataStep
<1>1. SUFFICES ASSUME v.mode # "plain", v.harm \in {"none", "cut", "lost"}
      PROVE \E w, m, e, c, g : /\ Layout(w, m, e, c, g) /\ Content(v, m, e, c, g)
                               /\ \E j, o : Placed(v, w, m, e, c, g, j, o)
  BY DEF Framed
<1>2. u.harm \in {"none", "cut", "lost"} /\ u.mode # "plain"
  BY <1>0, <1>1 DEF Same
<1>3. PICK w, m, e, c, g : /\ Layout(w, m, e, c, g) /\ Content(u, m, e, c, g)
                           /\ \E j, o : Placed(u, w, m, e, c, g, j, o)
  BY <1>2 DEF Framed
<1>4. PICK j, o : Placed(u, w, m, e, c, g, j, o)
  BY <1>3
<1>5. /\ n \in Nat /\ n < u.remaining /\ u.remaining \in Nat /\ u.remaining > 0
      /\ n \in 0..Len(u.wire) /\ v.remaining = u.remaining - n
      /\ v.hash = u.hash \o b /\ v.sig = u.sig /\ v.prev = u.prev
      /\ v.wire = SubSeq(u.wire, n + 1, Len(u.wire))
  BY DEF SomeStep, DataStep
<1>6. /\ j \in 0..m /\ o \in Nat /\ j < m /\ o + u.remaining = e[j + 1] - e[j]
      /\ Reads(u, w, e[j] + 2 * j + 1 + o) /\ u.sig = g[j + 1]
      /\ u.harm = "none" /\ u.mode = "signed" => Chain(u.prev, u.chunks, j)
  BY <1>4, <1>5 DEF Placed
<1>7. m \in Nat /\ e[j] \in Nat /\ e[j + 1] \in Nat /\ Len(w) \in Nat
  BY <1>3, <1>6, Chunk
<1>8. /\ Len(v.file) = e[j] + (o + n) /\ \A x \in 1..(e[j] + (o + n)) : v.file[x] = c[x]
      /\ Len(v.hash) = o + n /\ \A x \in 1..(o + n) : v.hash[x] = c[e[j] + x]
  <2>1. ReadTo(u, v, e, c, j, o, n, b)
    BY <1>0, <1>3, <1>4, DataOf
  <2> QED BY <1>5, <2>1 DEF ReadTo
<1>9. Reads(v, w, e[j] + 2 * j + 1 + (o + n))
  <2> DEFINE p == e[j] + 2 * j + 1 + o
  <2>1. p \in Nat /\ Reads(u, w, p) /\ v.harm = u.harm
    BY <1>0, <1>6, <1>7 DEF Same
  <2>2. e[j] + 2 * j + 1 + (o + n) = p + n
    BY <1>5, <1>6, <1>7
  <2> HIDE DEF p
  <2>3. Reads(v, w, p + n)
    BY <1>5, <1>7, <2>1, ReadsOn
  <2> QED BY <2>2, <2>3
<1>10. Placed(v, w, m, e, c, g, j, o + n)
  <2>1. o + n \in Nat /\ v.remaining > 0 /\ o + n + v.remaining = e[j + 1] - e[j]
        /\ v.remaining # 0
    <3> DEFINE k == e[j + 1] - e[j]
               r == u.remaining
    <3>1. o + r = k /\ n \in Nat /\ n < r /\ r \in Nat /\ o \in Nat /\ v.remaining = r - n
      BY <1>5, <1>6
    <3> HIDE DEF k, r
    <3>2. o + n \in Nat /\ v.remaining > 0 /\ o + n + v.remaining = k /\ v.remaining # 0
      BY <3>1
    <3> QED BY <3>2 DEF k
  <2>2. v.harm = "none" /\ v.mode = "signed" => Chain(v.prev, v.chunks, j)
    BY <1>0, <1>5, <1>6 DEF Same
  <2> QED BY <1>5, <1>6, <1>8, <1>9, <2>1, <2>2 DEF Placed
<1>11. Content(v, m, e, c, g)
  BY <1>0, <1>3 DEF Content, Same
<1> QED BY <1>3, <1>10, <1>11

\* The decoder reads the last bytes of a chunk, and the line end after them.
EndStep(u, v, n, b) ==
  /\ DataStep(u, v, n, b) /\ n = u.remaining /\ n + 1 <= Len(u.wire)
  /\ v.remaining = 0 /\ v.prev = u.sig
  /\ v.wire = SubSeq(u.wire, n + 1 + 1, Len(u.wire))

\* finishChunk leaves the chunk for the next one.
LEMMA FramedEnd ==
  ASSUME NEW S, NEW u, NEW v, Framed(u), u.wire \in Seq(S), NEW n, NEW b, EndStep(u, v, n, b)
  PROVE  Framed(v)
<1>0. DataStep(u, v, n, b) /\ Same(u, v)
  BY DEF EndStep, DataStep
<1>1. SUFFICES ASSUME v.mode # "plain", v.harm \in {"none", "cut", "lost"}
      PROVE \E w, m, e, c, g : /\ Layout(w, m, e, c, g) /\ Content(v, m, e, c, g)
                               /\ \E j, o : Placed(v, w, m, e, c, g, j, o)
  BY DEF Framed
<1>2. u.harm \in {"none", "cut", "lost"} /\ u.mode # "plain"
  BY <1>0, <1>1 DEF Same
<1>3. PICK w, m, e, c, g : /\ Layout(w, m, e, c, g) /\ Content(u, m, e, c, g)
                           /\ \E j, o : Placed(u, w, m, e, c, g, j, o)
  BY <1>2 DEF Framed
<1>4. PICK j, o : Placed(u, w, m, e, c, g, j, o)
  BY <1>3
<1>5. /\ n \in Nat /\ n = u.remaining /\ u.remaining > 0 /\ n + 1 \in 0..Len(u.wire)
      /\ v.remaining = 0 /\ v.prev = u.sig
      /\ v.wire = SubSeq(u.wire, n + 1 + 1, Len(u.wire))
  BY DEF EndStep, DataStep
<1>6. /\ j \in 0..m /\ o \in Nat /\ j < m /\ o + u.remaining = e[j + 1] - e[j]
      /\ Reads(u, w, e[j] + 2 * j + 1 + o) /\ u.sig = g[j + 1]
  BY <1>4, <1>5 DEF Placed
<1>7. m \in Nat /\ e[j] \in Nat /\ e[j + 1] \in Nat /\ Len(w) \in Nat
  BY <1>3, <1>6, Chunk
<1>8. Len(v.file) = e[j] + (o + n) /\ \A x \in 1..(e[j] + (o + n)) : v.file[x] = c[x]
  <2>1. ReadTo(u, v, e, c, j, o, n, b)
    BY <1>0, <1>3, <1>4, DataOf
  <2> QED BY <2>1 DEF ReadTo
<1>9. e[j] + (o + n) = e[j + 1] + 0 /\ j + 1 \in 0..m /\ e[j + 1] + 2 * (j + 1) = e[j] + 2 * j + 1 + o + (n + 1)
  <2> DEFINE a == e[j]
             k == e[j + 1]
             r == u.remaining
  <2>1. a \in Nat /\ k \in Nat /\ o + r = k - a /\ n = r /\ r \in Nat /\ j \in 0..m /\ j < m /\ o \in Nat
    BY <1>5, <1>6, <1>7
  <2> HIDE DEF a, k, r
  <2>2. a + (o + n) = k + 0 /\ j + 1 \in 0..m /\ k + 2 * (j + 1) = a + 2 * j + 1 + o + (n + 1)
    BY <2>1, <1>7
  <2> QED BY <2>2 DEF a, k
<1>10. Reads(v, w, e[j + 1] + 2 * (j + 1))
  <2> DEFINE p == e[j] + 2 * j + 1 + o
             q == n + 1
  <2>1. Reads(u, w, p) /\ q \in 0..Len(u.wire) /\ v.wire = SubSeq(u.wire, q + 1, Len(u.wire))
    BY <1>5, <1>6
  <2>4. p \in Nat
    BY <1>6, <1>7
  <2>5. v.harm = u.harm
    BY <1>0 DEF Same
  <2>2. e[j + 1] + 2 * (j + 1) = p + q
    BY <1>9
  <2> HIDE DEF p, q
  <2>3. Reads(v, w, p + q)
    BY <1>7, <2>1, <2>4, <2>5, ReadsOn
  <2> QED BY <2>2, <2>3
<1>11. v.harm = "none" /\ v.mode = "signed" => Chain(v.prev, v.chunks, j + 1)
  BY <1>0, <1>3, <1>5, <1>6, <1>7 DEF Same, Content
<1>12. Placed(v, w, m, e, c, g, j + 1, 0)
  <2> DEFINE i == j + 1
  <2>1. /\ i \in 0..m /\ Len(v.file) = e[i] + 0 /\ \A x \in 1..(e[i] + 0) : v.file[x] = c[x]
    BY <1>8, <1>9
  <2>2. Reads(v, w, e[i] + 2 * i) /\ 0 \in Nat /\ ~(v.remaining > 0)
    BY <1>5, <1>10
  <2>3. v.harm = "none" /\ v.mode = "signed" => Chain(v.prev, v.chunks, i)
    BY <1>11
  <2> HIDE DEF i
  <2>4. Placed(v, w, m, e, c, g, i, 0)
    BY <2>1, <2>2, <2>3 DEF Placed
  <2> QED BY <2>4 DEF i
<1>13. Content(v, m, e, c, g)
  BY <1>0, <1>3 DEF Content, Same
<1> QED BY <1>3, <1>12, <1>13

-----------------------------------------------------------------------------
(* What the frame says of the decoder's next line. *)

\* Unless the body was harmed, there are data where there should be.
LEMMA DataFollow ==
  ASSUME NEW u, Framed(u), u.mode # "plain", u.harm = "none", u.remaining \in Nat,
         u.remaining > 0, Len(u.wire) \in Nat
  PROVE  Len(u.wire) > u.remaining /\ u.wire[1].t = "data" /\ u.wire[u.remaining + 1].t = "crlf"
<1>1. PICK w, m, e, c, g : /\ Layout(w, m, e, c, g) /\ Content(u, m, e, c, g)
                           /\ \E j, o : Placed(u, w, m, e, c, g, j, o)
  BY DEF Framed
<1>2. PICK j, o : Placed(u, w, m, e, c, g, j, o)
  BY <1>1
<1> DEFINE r == u.remaining
           L == Len(u.wire)
<1>3. /\ j \in 0..m /\ o \in Nat /\ j < m /\ o + r = e[j + 1] - e[j] /\ r \in Nat /\ r > 0
      /\ Reads(u, w, e[j] + 2 * j + 1 + o)
  BY <1>2 DEF Placed
<1>4. /\ m \in Nat /\ e[j] \in Nat /\ e[j + 1] \in Nat /\ e[j + 1] <= e[m] /\ e[m] \in Nat
      /\ e[m] + 2 * m + 1 <= Len(w) /\ Len(w) \in Nat
      /\ \A k \in 1..(e[j + 1] - e[j]) : w[e[j] + 2 * j + 1 + k] = Data(c[e[j] + k])
      /\ w[e[j + 1] + 2 * j + 2] = Line("crlf")
  BY <1>1, <1>3, Chunk
<1>5. /\ e[j] + 2 * j + 1 + o + L = Len(w)
      /\ \A x \in 1..L : u.wire[x] = w[e[j] + 2 * j + 1 + o + x]
  BY <1>3 DEF Reads
<1>6. L \in Nat
  OBVIOUS
<1> HIDE DEF r, L
<1>7. /\ L > r /\ 1 \in 1..L /\ r + 1 \in 1..L /\ o + 1 \in 1..(e[j + 1] - e[j])
      /\ e[j] + 2 * j + 1 + o + 1 = e[j] + 2 * j + 1 + (o + 1)
      /\ e[j] + 2 * j + 1 + o + (r + 1) = e[j + 1] + 2 * j + 2
  <2> DEFINE a == e[j]
             k == e[j + 1]
             z == e[m]
             W == Len(w)
  <2>1. /\ a \in Nat /\ k \in Nat /\ z \in Nat /\ W \in Nat /\ k <= z /\ z + 2 * m + 1 <= W
        /\ a + 2 * j + 1 + o + L = W /\ o + r = k - a
    BY <1>3, <1>4, <1>5
  <2> HIDE DEF a, k, z, W
  <2>2. /\ L > r /\ 1 \in 1..L /\ r + 1 \in 1..L /\ o + 1 \in 1..(k - a)
        /\ a + 2 * j + 1 + o + 1 = a + 2 * j + 1 + (o + 1)
        /\ a + 2 * j + 1 + o + (r + 1) = k + 2 * j + 2
    BY <1>3, <1>4, <1>6, <2>1
  <2> QED BY <2>2 DEF a, k
<1>8. u.wire[1] = Data(c[e[j] + (o + 1)])
  BY <1>4, <1>5, <1>7
<1>9. u.wire[r + 1] = Line("crlf")
  BY <1>4, <1>5, <1>7
<1> QED BY <1>7, <1>8, <1>9, SymbolsDiffer DEF r, L

\* Unless the body was harmed, a line end follows the chunk.
LEMMA LineFollows ==
  ASSUME NEW u, Framed(u), u.mode # "plain", u.harm = "none", u.remaining = 0, Len(u.wire) \in Nat
  PROVE  Len(u.wire) >= 1 /\ u.wire[1].t = "head"
<1>1. PICK w, m, e, c, g : /\ Layout(w, m, e, c, g) /\ Content(u, m, e, c, g)
                           /\ \E j, o : Placed(u, w, m, e, c, g, j, o)
  BY DEF Framed
<1>2. PICK j, o : Placed(u, w, m, e, c, g, j, o)
  BY <1>1
<1> DEFINE L == Len(u.wire)
           p == e[j] + 2 * j
<1>3. j \in 0..m /\ Reads(u, w, p)
  BY <1>2 DEF Placed
<1>4. /\ m \in Nat /\ e[j] \in Nat /\ e[j] <= e[m] /\ e[m] \in Nat
      /\ e[m] + 2 * m + 1 <= Len(w) /\ Len(w) \in Nat
      /\ j = m => w[e[j] + 2 * j + 1] = Header(0, g[j + 1])
      /\ j < m => w[e[j] + 2 * j + 1] = Header(e[j + 1] - e[j], g[j + 1])
  BY <1>1, <1>3, Chunk
<1>5. j < m \/ j = m
  BY <1>3, <1>4
<1>6. p + L = Len(w) /\ \A x \in 1..L : u.wire[x] = w[p + x]
  BY <1>3 DEF Reads
<1>7. L >= 1 /\ 1 \in 1..L
  <2> DEFINE a == e[j]
             z == e[m]
             W == Len(w)
  <2>1. /\ a \in Nat /\ z \in Nat /\ W \in Nat /\ a <= z /\ z + 2 * m + 1 <= W /\ L \in Nat
        /\ a + 2 * j + L = W /\ m \in Nat /\ j \in 0..m
    BY <1>3, <1>4, <1>6
  <2> HIDE DEF a, z, W, L
  <2> QED BY <2>1
<1>8. u.wire[1] = w[e[j] + 2 * j + 1]
  BY <1>6, <1>7
<1>9. u.wire[1].t = "head"
  BY <1>4, <1>5, <1>8 DEF Header
<1> QED BY <1>7, <1>9

\* At the final chunk, the content is complete.
LEMMA FinalFollows ==
  ASSUME NEW u, Framed(u), u.mode # "plain", u.harm \in {"none", "cut", "lost"}, u.remaining = 0,
         Len(u.wire) \in Nat, Len(u.wire) >= 1, u.wire[1].t = "head", u.wire[1].size = 0,
         u.file \in Seq(Byte), u.body \in Seq(Byte)
  PROVE  /\ u.harm \in {"none", "cut"} => u.file = u.body
         /\ u.harm = "lost" => Len(u.file) # Len(u.body)
         /\ u.harm = "none" /\ u.mode = "signed" =>
              \E i : /\ i = Len(u.chunks) /\ Chain(u.prev, u.chunks, i)
                     /\ Chain(u.wire[1].sig, u.chunks, i + 1)
<1>1. PICK w, m, e, c, g : /\ Layout(w, m, e, c, g) /\ Content(u, m, e, c, g)
                           /\ \E j, o : Placed(u, w, m, e, c, g, j, o)
  BY DEF Framed
<1>2. PICK j, o : Placed(u, w, m, e, c, g, j, o)
  BY <1>1
<1>3. /\ j \in 0..m /\ o = 0 /\ Reads(u, w, e[j] + 2 * j)
      /\ Len(u.file) = e[j] + o /\ \A x \in 1..(e[j] + o) : u.file[x] = c[x]
      /\ u.harm = "none" /\ u.mode = "signed" => Chain(u.prev, u.chunks, j)
  BY <1>2 DEF Placed
<1>4. /\ m \in Nat /\ e[j] \in Nat /\ e[m] = Len(c) /\ c \in Seq(Byte)
      /\ j = m => w[e[j] + 2 * j + 1] = Header(0, g[j + 1])
      /\ j < m => w[e[j] + 2 * j + 1] = Header(e[j + 1] - e[j], g[j + 1])
                  /\ e[j + 1] \in Nat /\ e[j] < e[j + 1]
  <2>1. c \in Seq(Byte)
    BY <1>1 DEF Layout
  <2>2. Layout(w, m, e, c, g) /\ j \in 0..m
    BY <1>1, <1>3
  <2>3. /\ m \in Nat /\ e[j] \in Nat /\ e[m] = Len(c)
        /\ j = m => w[e[j] + 2 * j + 1] = Header(0, g[j + 1])
        /\ j < m => w[e[j] + 2 * j + 1] = Header(e[j + 1] - e[j], g[j + 1])
                    /\ e[j + 1] \in Nat /\ e[j] < e[j + 1]
    BY ONLY <2>2, Chunk
  <2> QED BY <2>1, <2>3
<1>5. u.wire[1] = w[e[j] + 2 * j + 1]
  <2>1. 1 \in 1..Len(u.wire)
    OBVIOUS
  <2>2. u.wire[1] = w[e[j] + 2 * j + 1] \/ u.wire[1] = Line("torn")
    BY <1>3, <2>1 DEF Reads
  <2> QED BY <2>2, SymbolsDiffer
<1>6. j = m
  <2>1. ASSUME j < m PROVE FALSE
    <3>1. u.wire[1].size = e[j + 1] - e[j]
      BY <1>4, <1>5, <2>1 DEF Header
    <3> QED BY <1>4, <2>1, <3>1
  <2> QED BY <1>3, <1>4, <2>1
<1>7. u.wire[1].sig = g[j + 1]
  BY <1>4, <1>5, <1>6 DEF Header
<1>8. Len(u.file) = Len(c) /\ u.file = c
  <2>1. Len(u.file) = Len(c) /\ \A x \in 1..Len(u.file) : u.file[x] = c[x]
    BY <1>3, <1>4, <1>6
  <2> QED BY <1>4, <2>1, Equal
<1>9. u.harm = "none" /\ u.mode = "signed" =>
        m = Len(u.chunks) /\ Chain(u.wire[1].sig, u.chunks, m + 1)
  <2>1. m + 1 \in 1..(m + 1)
    BY <1>4
  <2> QED BY <1>1, <1>6, <1>7, <2>1 DEF Content
<1>10. (u.harm \in {"none", "cut"} => c = u.body) /\ (u.harm = "lost" => Len(c) # Len(u.body))
  BY <1>1 DEF Content
<1> QED BY <1>3, <1>6, <1>8, <1>9, <1>10

\* No more is read than the body has.
LEMMA WithinBody ==
  ASSUME NEW u, Framed(u), u.mode # "plain", u.harm = "none", u.remaining \in Nat
  PROVE  Len(u.file) <= Len(u.body)
<1>1. PICK w, m, e, c, g : /\ Layout(w, m, e, c, g) /\ Content(u, m, e, c, g)
                           /\ \E j, o : Placed(u, w, m, e, c, g, j, o)
  BY DEF Framed
<1>2. PICK j, o : Placed(u, w, m, e, c, g, j, o)
  BY <1>1
<1>3. /\ j \in 0..m /\ o \in Nat /\ Len(u.file) = e[j] + o
      /\ u.remaining = 0 => o = 0
      /\ u.remaining > 0 => j < m /\ o + u.remaining = e[j + 1] - e[j]
  BY <1>2 DEF Placed
<1>4. /\ m \in Nat /\ e[j] \in Nat /\ e[j] <= e[m] /\ e[m] = Len(c) /\ e[m] \in Nat
      /\ j < m => e[j + 1] \in Nat /\ e[j + 1] <= e[m]
  BY <1>1, <1>3, Chunk
<1>5. c = u.body
  BY <1>1 DEF Content
<1>6. e[j] + o <= e[m]
  <2> DEFINE a == e[j]
             k == e[j + 1]
             z == e[m]
             r == u.remaining
  <2>1. /\ a \in Nat /\ z \in Nat /\ a <= z /\ o \in Nat /\ r \in Nat /\ (r = 0 => o = 0)
        /\ r > 0 => o + r = k - a /\ k \in Nat /\ k <= z
    BY <1>3, <1>4
  <2> HIDE DEF a, k, z, r
  <2>2. a + o <= z
    BY <2>1
  <2> QED BY <2>2 DEF a, z
<1> QED BY <1>3, <1>4, <1>5, <1>6

-----------------------------------------------------------------------------
(* Signatures. *)

\* The signature of a chunk is that of the one before it, and the chunk.
LEMMA Links ==
  ASSUME NEW cs, cs \in Seq(Seq(Byte)), NEW i \in Nat, NEW s, NEW t, NEW h \in Seq(Byte),
         Chain(s, cs, i), Chain(t, cs, i + 1), h = NthOf(cs, i + 1)
  PROVE  t = Append(s, h)
<1> DEFINE C == Seq(Byte)
           a == Append(s, h)
<1>1. s \in Seq(C) /\ Len(s) = i /\ t \in Seq(C) /\ Len(t) = i + 1 /\ h \in C
  BY DEF Chain
<1>2. /\ \A x \in 1..i : s[x] = NthOf(cs, x)
      /\ \A x \in 1..(i + 1) : t[x] = NthOf(cs, x)
  BY DEF Chain
<1> HIDE DEF C
<1>3. /\ a \in Seq(C) /\ Len(a) = i + 1 /\ a[i + 1] = h
      /\ \A x \in 1..i : a[x] = s[x]
  BY <1>1
<1> HIDE DEF a
<1>4. ASSUME NEW x \in 1..(i + 1) PROVE t[x] = a[x]
  <2>1. CASE x = i + 1
    BY <1>2, <1>3, <2>1
  <2>2. CASE x \in 1..i
    BY <1>2, <1>3, <2>2
  <2> QED BY <2>1, <2>2
<1>5. t = a
  BY <1>1, <1>3, <1>4, Equal
<1> QED BY <1>5 DEF a

\* Only the chunk that was signed there fits a signature.
LEMMA Fits ==
  ASSUME NEW cs, cs \in Seq(Seq(Byte)), NEW i \in Nat, NEW k \in Nat, NEW s, NEW t,
         NEW h \in Seq(Byte), Chain(s, cs, i), Chain(t, cs, k), t = Append(s, h)
  PROVE  k = i + 1 /\ h = NthOf(cs, k)
<1> DEFINE C == Seq(Byte)
           a == Append(s, h)
<1>1. s \in Seq(C) /\ Len(s) = i /\ Len(t) = k /\ h \in C
  BY DEF Chain
<1> HIDE DEF C
<1>3. Len(a) = i + 1 /\ a[i + 1] = h
  BY <1>1
<1> HIDE DEF a
<1>4. t = a
  BY DEF a
<1>5. k = i + 1
  BY <1>1, <1>3, <1>4
<1>6. t[k] = NthOf(cs, k)
  <2>1. k \in 1..k
    BY <1>5
  <2> QED BY <2>1 DEF Chain
<1> QED BY <1>3, <1>4, <1>5, <1>6

\* The decoder has read j chunks, which are those of the body, and then hash.
Chained(u, e, j) ==
  /\ LiesIn(u.chunks, u.body, e, Len(u.chunks)) /\ j \in 0..Len(u.chunks)
  /\ Chain(u.prev, u.chunks, j)
  /\ \A x \in 1..e[j] : u.file[x] = u.body[x]
  /\ u.remaining = 0 => Len(u.file) = e[j]
  /\ u.remaining > 0 => /\ Len(u.file) = e[j] + Len(u.hash) /\ PieceOf(u.hash, u.file, e[j])
                        /\ \E k \in Nat : Chain(u.sig, u.chunks, k)

\* In a signed stream, whatever was done to it, what has been read is the body.
ChunksSigned(u) == u.mode = "signed" => \E e, j : Chained(u, e, j)

\* A chunk line begins a chunk whose signature may be that of any.
LEMMA SignedHeader ==
  ASSUME NEW u, NEW v, Same(u, v), ChunksSigned(u), u.file \in Seq(Byte),
         u.mode = "signed" => \E k \in Nat : Chain(v.sig, u.chunks, k),
         u.remaining = 0, v.file = u.file, v.hash = <<>>, v.prev = u.prev,
         v.remaining \in Nat, v.remaining > 0
  PROVE  ChunksSigned(v)
<1> SUFFICES ASSUME v.mode = "signed" PROVE \E e, j : Chained(v, e, j)
  BY DEF ChunksSigned
<1>1. u.mode = "signed"
  BY DEF Same
<1>2. PICK e, j : Chained(u, e, j)
  BY <1>1 DEF ChunksSigned
<1>3. Len(<<>>) = 0 /\ 1..0 = {} /\ PieceOf(<<>>, v.file, e[j])
  BY DEF PieceOf
<1>4. Len(u.file) = e[j] /\ Len(u.file) \in Nat
  BY <1>2 DEF Chained
<1>5. Len(v.file) = e[j] + Len(v.hash) /\ v.remaining # 0
  BY <1>3, <1>4
<1>6. Chained(v, e, j)
  BY <1>1, <1>2, <1>3, <1>5 DEF Chained, Same
<1> QED BY <1>6

\* The file and the hash get the same bytes.
LEMMA BothGrow ==
  ASSUME NEW f \in Seq(Byte), NEW h \in Seq(Byte), NEW b \in Seq(Byte), NEW d \in Nat,
         Len(f) = d + Len(h), PieceOf(h, f, d)
  PROVE  /\ Len(f \o b) = d + Len(h \o b) /\ PieceOf(h \o b, f \o b, d)
         /\ \A x \in 1..d : (f \o b)[x] = f[x]
<1>1. /\ f \o b \in Seq(Byte) /\ Len(f \o b) = Len(f) + Len(b)
      /\ \A x \in 1..Len(f) : (f \o b)[x] = f[x]
      /\ \A x \in 1..Len(b) : (f \o b)[Len(f) + x] = b[x]
  <2>1. f \in Seq(Byte) /\ b \in Seq(Byte)
    OBVIOUS
  <2> QED BY ONLY <2>1, JoinOf
<1>2. Len(h) \in Nat /\ Len(b) \in Nat /\ Len(h \o b) = Len(h) + Len(b)
  BY JoinOf
<1>3. PieceOf(h, f \o b, d)
  BY <1>1, <1>2 DEF PieceOf
<1>4. PieceOf(b, f \o b, d + Len(h))
  BY <1>1 DEF PieceOf
<1>5. PieceOf(h \o b, f \o b, d)
  BY <1>3, <1>4, Longer
<1> QED BY <1>1, <1>2, <1>5

\* So the hash stays the end of the file.
LEMMA SignedData ==
  ASSUME NEW u, NEW v, NEW n, NEW b, DataStep(u, v, n, b), NEW e, NEW j, Chained(u, e, j)
  PROVE  /\ e[j] \in Nat /\ PieceOf(u.hash \o b, v.file, e[j])
         /\ Len(v.file) = e[j] + Len(u.hash \o b)
         /\ \A x \in 1..e[j] : v.file[x] = u.body[x]
<1>1. /\ u.file \in Seq(Byte) /\ u.hash \in Seq(Byte) /\ b \in Seq(Byte) /\ v.file = u.file \o b
      /\ u.remaining > 0
  BY DEF DataStep
<1>2. /\ Len(u.file) = e[j] + Len(u.hash) /\ PieceOf(u.hash, u.file, e[j])
      /\ \A x \in 1..e[j] : u.file[x] = u.body[x]
  BY <1>1 DEF Chained
<1>3. e[j] \in Nat
  BY DEF Chained, LiesIn
<1>4. /\ Len(u.file \o b) = e[j] + Len(u.hash \o b) /\ PieceOf(u.hash \o b, u.file \o b, e[j])
      /\ \A x \in 1..e[j] : (u.file \o b)[x] = u.file[x]
  BY <1>1, <1>2, <1>3, BothGrow
<1> QED BY <1>1, <1>2, <1>3, <1>4

\* Read stays in the chunk.
LEMMA SignedSome ==
  ASSUME NEW u, NEW v, ChunksSigned(u), NEW n, NEW b, SomeStep(u, v, n, b)
  PROVE  ChunksSigned(v)
<1> SUFFICES ASSUME v.mode = "signed" PROVE \E e, j : Chained(v, e, j)
  BY DEF ChunksSigned
<1>0. DataStep(u, v, n, b) /\ Same(u, v)
  BY DEF SomeStep, DataStep
<1>1. u.mode = "signed"
  BY <1>0 DEF Same
<1>2. PICK e, j : Chained(u, e, j)
  BY <1>1 DEF ChunksSigned
<1>3. /\ PieceOf(u.hash \o b, v.file, e[j]) /\ Len(v.file) = e[j] + Len(u.hash \o b)
      /\ \A x \in 1..e[j] : v.file[x] = u.body[x]
  BY <1>0, <1>2, SignedData
<1>4. v.hash = u.hash \o b /\ v.prev = u.prev /\ v.sig = u.sig /\ v.remaining # 0 /\ u.remaining > 0
  BY DEF SomeStep, DataStep
<1>5. Chained(v, e, j)
  BY <1>0, <1>2, <1>3, <1>4 DEF Chained, Same
<1> QED BY <1>5

\* finishChunk: the signature fits, so the chunk is the next one of the body.
LEMMA SignedEnd ==
  ASSUME NEW u, NEW v, ChunksSigned(u), NEW n, NEW b, EndStep(u, v, n, b),
         u.mode = "signed" => u.chunks \in Seq(Seq(Byte)) /\ u.sig = Append(u.prev, u.hash \o b)
  PROVE  ChunksSigned(v)
<1> SUFFICES ASSUME v.mode = "signed" PROVE \E e, j : Chained(v, e, j)
  BY DEF ChunksSigned
<1>0. DataStep(u, v, n, b) /\ Same(u, v)
  BY DEF EndStep, DataStep
<1>1. u.mode = "signed"
  BY <1>0 DEF Same
<1>2. PICK e, j : Chained(u, e, j)
  BY <1>1 DEF ChunksSigned
<1> DEFINE h == u.hash \o b
           M == Len(u.chunks)
<1>3. /\ PieceOf(h, v.file, e[j]) /\ Len(v.file) = e[j] + Len(h) /\ e[j] \in Nat
      /\ \A x \in 1..e[j] : v.file[x] = u.body[x]
  BY <1>0, <1>2, SignedData
<1>4. u.remaining > 0 /\ v.remaining = 0 /\ v.prev = u.sig /\ n >= 1
  BY DEF EndStep, DataStep
<1>5. /\ j \in 0..M /\ LiesIn(u.chunks, u.body, e, M) /\ Chain(u.prev, u.chunks, j)
      /\ \E k \in Nat : Chain(u.sig, u.chunks, k)
  BY <1>2, <1>4 DEF Chained
<1>6. u.chunks \in Seq(Seq(Byte)) /\ M \in Nat /\ u.sig = Append(u.prev, h)
  BY <1>1
<1>7. h \in Seq(Byte) /\ Len(h) >= 1
  <2>1. u.hash \in Seq(Byte) /\ b \in Seq(Byte) /\ Len(b) = n /\ n >= 1 /\ n \in Nat
    BY <1>0 DEF DataStep
  <2> QED BY <2>1
<1> HIDE DEF h, M
<1>8. PICK k \in Nat : Chain(u.sig, u.chunks, k)
  BY <1>5
<1>9. k = j + 1 /\ h = NthOf(u.chunks, k)
  <2>1. j \in Nat
    BY <1>5, <1>6
  <2> QED BY <1>5, <1>6, <1>7, <1>8, <2>1, Fits
<1>10. k <= M /\ h = u.chunks[k] /\ k \in 1..M /\ k - 1 = j
  <2>1. Len(<<>>) = 0
    OBVIOUS
  <2>2. k <= M
    BY <1>7, <1>9, <2>1 DEF NthOf, M
  <2>3. h = u.chunks[k]
    BY <1>9, <2>2 DEF NthOf, M
  <2> QED BY <1>5, <1>6, <1>9, <2>2, <2>3
<1>11. e[k] = e[j] + Len(h) /\ e[k] \in Nat /\ \A x \in 1..Len(h) : u.body[e[j] + x] = h[x]
  <2>1. /\ e \in [0..M -> Nat] /\ e[k] = e[k - 1] + Len(u.chunks[k])
        /\ \A x \in 1..Len(u.chunks[k]) : u.body[e[k - 1] + x] = u.chunks[k][x]
    BY <1>5, <1>10 DEF LiesIn
  <2>2. k \in 0..M
    BY <1>10
  <2> QED BY <1>10, <2>1, <2>2
<1>12. \A x \in 1..e[k] : v.file[x] = u.body[x]
  <2> TAKE x \in 1..e[k]
  <2>1. CASE x <= e[j]
    BY <1>3, <2>1
  <2>2. CASE ~(x <= e[j])
    <3> DEFINE y == x - e[j]
    <3>1. y \in 1..Len(h) /\ x = e[j] + y
      BY <1>3, <1>7, <1>11, <2>2
    <3> HIDE DEF y
    <3> QED BY <1>3, <1>11, <3>1 DEF PieceOf
  <2> QED BY <2>1, <2>2
<1>13. Chained(v, e, k)
  <2>1. v.chunks = u.chunks /\ v.body = u.body
    BY <1>0 DEF Same
  <2>2. k \in 0..M /\ ~(v.remaining > 0)
    BY <1>4, <1>10
  <2> QED BY <1>3, <1>4, <1>5, <1>8, <1>11, <1>12, <2>1, <2>2 DEF Chained, M
<1> QED BY <1>13

\* The final signature fits, so the chunks are all of the body.
LEMMA SignedFinal ==
  ASSUME NEW u, ChunksSigned(u), u.mode = "signed", ChunksOf(u.chunks, u.body), u.remaining = 0,
         u.file \in Seq(Byte), u.body \in Seq(Byte), NEW s, s = Append(u.prev, <<>>),
         \E k \in Nat : Chain(s, u.chunks, k)
  PROVE  u.file = u.body
<1>1. PICK e, j : Chained(u, e, j)
  BY DEF ChunksSigned
<1> DEFINE M == Len(u.chunks)
<1>2. /\ j \in 0..M /\ LiesIn(u.chunks, u.body, e, M) /\ Chain(u.prev, u.chunks, j)
      /\ Len(u.file) = e[j] /\ \A x \in 1..e[j] : u.file[x] = u.body[x]
  BY <1>1 DEF Chained
<1>3. u.chunks \in Seq(Seq(Byte)) /\ M \in Nat /\ \A i \in 1..M : Len(u.chunks[i]) > 0
  BY DEF ChunksOf
<1>4. PICK k \in Nat : Chain(s, u.chunks, k)
  OBVIOUS
<1>5. <<>> \in Seq(Byte) /\ Len(<<>>) = 0
  OBVIOUS
<1>6. k = j + 1 /\ <<>> = NthOf(u.chunks, k)
  <2>1. j \in Nat
    BY <1>2, <1>3
  <2> DEFINE h == <<>>
  <2>2. h \in Seq(Byte) /\ s = Append(u.prev, h)
    BY <1>5
  <2> HIDE DEF h
  <2>3. k = j + 1 /\ h = NthOf(u.chunks, k)
    <3>1. /\ u.chunks \in Seq(Seq(Byte)) /\ j \in Nat /\ k \in Nat /\ h \in Seq(Byte)
          /\ Chain(u.prev, u.chunks, j) /\ Chain(s, u.chunks, k) /\ s = Append(u.prev, h)
      BY <1>2, <1>3, <1>4, <2>1, <2>2
    <3> QED BY ONLY <3>1, Fits
  <2> QED BY <2>3 DEF h
<1> HIDE DEF M
<1>7. j = M
  <2>1. ASSUME k <= M PROVE FALSE
    <3>1. k \in 1..M /\ u.chunks[k] = <<>>
      BY <1>2, <1>3, <1>6, <2>1 DEF NthOf, M
    <3> QED BY <1>3, <1>5, <3>1
  <2> QED BY <1>2, <1>3, <1>6, <2>1
<1>8. Len(u.body) = e[j]
  BY <1>2, <1>7 DEF LiesIn
<1> QED BY <1>2, <1>8, Equal

\* Unless the body was harmed, every chunk is signed as it should be.
LEMMA SignatureFollows ==
  ASSUME NEW u, NEW v, NEW n, NEW b, DataStep(u, v, n, b), Framed(u), u.mode = "signed",
         u.harm = "none", n = u.remaining, u.chunks \in Seq(Seq(Byte))
  PROVE  u.sig = Append(u.prev, u.hash \o b)
<1>0. u.mode # "plain"
  OBVIOUS
<1>1. PICK w, m, e, c, g : /\ Layout(w, m, e, c, g) /\ Content(u, m, e, c, g)
                           /\ \E j, o : Placed(u, w, m, e, c, g, j, o)
  BY <1>0 DEF Framed
<1>2. PICK j, o : Placed(u, w, m, e, c, g, j, o)
  BY <1>1
<1> DEFINE h == u.hash \o b
<1>3. /\ n \in Nat /\ u.remaining > 0 /\ u.hash \in Seq(Byte) /\ b \in Seq(Byte)
  BY DEF DataStep
<1>4. /\ j \in 0..m /\ o \in Nat /\ j < m /\ o + n = e[j + 1] - e[j] /\ u.sig = g[j + 1]
      /\ Chain(u.prev, u.chunks, j)
  BY <1>2, <1>3 DEF Placed
<1>5. m \in Nat /\ e[j] \in Nat /\ e[j + 1] \in Nat
  BY <1>1, <1>4, Chunk
<1>6. Len(h) = o + n /\ \A x \in 1..(o + n) : h[x] = c[e[j] + x]
  <2>1. ReadTo(u, v, e, c, j, o, n, b)
    BY <1>1, <1>2, DataOf
  <2> QED BY <2>1 DEF ReadTo
<1>7. h \in Seq(Byte)
  BY <1>3
<1> HIDE DEF h
<1> DEFINE i == j + 1
<1>8. i \in 1..m /\ i \in 1..(m + 1) /\ i - 1 = j
  BY <1>4, <1>5
<1> HIDE DEF i
<1>9. /\ m = Len(u.chunks) /\ Chain(g[i], u.chunks, i) /\ Len(u.chunks[i]) = e[i] - e[i - 1]
      /\ \A k \in 1..(e[i] - e[i - 1]) : u.chunks[i][k] = c[e[i - 1] + k]
  BY <1>1, <1>8 DEF Content
<1>10. u.chunks[i] \in Seq(Byte)
  BY <1>8, <1>9
<1>11. h = u.chunks[i]
  <2>1. Len(u.chunks[i]) = o + n /\ \A k \in 1..(o + n) : u.chunks[i][k] = c[e[j] + k]
    BY <1>4, <1>8, <1>9 DEF i
  <2> QED BY <1>6, <1>7, <1>10, <2>1, Equal
<1>12. h = NthOf(u.chunks, j + 1)
  BY <1>8, <1>9, <1>11 DEF NthOf, i
<1>13. /\ u.chunks \in Seq(Seq(Byte)) /\ j \in Nat /\ h \in Seq(Byte)
       /\ Chain(u.prev, u.chunks, j) /\ Chain(u.sig, u.chunks, j + 1) /\ h = NthOf(u.chunks, j + 1)
  BY <1>4, <1>5, <1>7, <1>9, <1>12 DEF i
<1>14. u.sig = Append(u.prev, h)
  BY ONLY <1>13, Links
<1> QED BY <1>14 DEF h

\* What the client signs are the first chunks.
LEMMA ChainOf ==
  ASSUME NEW cs, cs \in Seq(Seq(Byte))
  PROVE  /\ \A i \in 1..Len(cs) : Chain(SubSeq(cs, 1, i), cs, i)
         /\ Chain(cs, cs, Len(cs)) /\ Chain(Append(cs, <<>>), cs, Len(cs) + 1)
<1> DEFINE C == Seq(Byte)
           h == <<>>
<1>1. cs \in Seq(C) /\ h \in C
  OBVIOUS
<1> HIDE DEF C, h
<1>2. Len(cs) \in Nat
  BY <1>1
<1>3. ASSUME NEW i \in 1..Len(cs) PROVE Chain(SubSeq(cs, 1, i), cs, i)
  <2> DEFINE s == SubSeq(cs, 1, i)
  <2>1. s \in Seq(C) /\ Len(s) = i /\ \A x \in 1..i : s[x] = cs[x]
    BY <1>1
  <2> HIDE DEF s
  <2>2. \A x \in 1..i : s[x] = NthOf(cs, x)
    BY <1>2, <2>1 DEF NthOf
  <2>3. Chain(s, cs, i)
    BY <2>1, <2>2 DEF Chain, C
  <2> QED BY <2>3 DEF s
<1>4. Chain(cs, cs, Len(cs))
  BY <1>2 DEF Chain, NthOf
<1>5. Chain(Append(cs, h), cs, Len(cs) + 1)
  <2> DEFINE s == Append(cs, h)
             M == Len(cs)
  <2>1. s \in Seq(C) /\ Len(s) = M + 1 /\ s[M + 1] = h /\ \A x \in 1..M : s[x] = cs[x]
    BY <1>1
  <2> HIDE DEF s
  <2>2. \A x \in 1..M : s[x] = NthOf(cs, x)
    BY <1>2, <2>1 DEF NthOf
  <2>3. s[M + 1] = NthOf(cs, M + 1)
    BY <1>2, <2>1 DEF NthOf, h
  <2>4. \A x \in 1..(M + 1) : x \in 1..M \/ x = M + 1
    BY <1>2
  <2>5. Chain(s, cs, M + 1)
    BY <2>1, <2>2, <2>3, <2>4 DEF Chain, C
  <2> QED BY <2>5 DEF s
<1> QED BY <1>3, <1>4, <1>5 DEF h

\* What a symbol of the wire says of the body.
Says(mode, has, body, chunks, y) ==
  /\ y.t = "data" => y.byte \in Byte
  /\ mode = "plain" => y.t = "data"
  /\ y.t = "head" /\ y.size # 0 => \E i \in 1..Len(chunks) : y.size = Len(chunks[i])
  /\ y.t = "head" /\ mode = "signed" =>
       y.sig = Append(chunks, <<>>) \/ \E i \in 1..Len(chunks) : y.sig = SubSeq(chunks, 1, i)
  /\ y.t = "sum" => "trailer" \in has /\ y = Checksum(body)
  /\ y.t = "sig" => "trailer" \in has /\ y = TrailerSig(<<Append(chunks, <<>>), Checksum(body)>>)

LEMMA SymbolFacts ==
  ASSUME NEW mode, NEW has, NEW body, NEW chunks, NEW y \in Symbols(mode, has, body, chunks)
  PROVE  Says(mode, has, body, chunks, y)
<1> USE DEF Says
<1>1. CASE \E b \in Byte : y = Data(b)
  BY <1>1 DEF Data
<1>2. CASE mode # "plain" /\ \E t \in {"crlf", "blank", "torn"} : y = Line(t)
  BY <1>2 DEF Line
<1>3. CASE mode # "plain" /\ \E i \in 1..Len(chunks) :
             y = Header(Len(chunks[i]), Signed(mode, SubSeq(chunks, 1, i)))
  BY <1>3 DEF Header, Signed
<1>4. CASE mode # "plain" /\ y = Header(0, Signed(mode, Append(chunks, <<>>)))
  BY <1>4 DEF Header, Signed
<1>5. CASE mode # "plain" /\ "trailer" \in has /\ y = Checksum(body)
  BY <1>5 DEF Checksum
<1>6. CASE mode # "plain" /\ "trailer" \in has
           /\ y = TrailerSig(<<Append(chunks, <<>>), Checksum(body)>>)
  BY <1>6 DEF TrailerSig
<1> QED BY <1>1, <1>2, <1>3, <1>4, <1>5, <1>6 DEF Symbols

\* Every chunk line of a signed stream has the signature of some chunk.
LEMMA SigFacts ==
  ASSUME NEW mode, NEW has, NEW body, NEW chunks, NEW y \in Symbols(mode, has, body, chunks),
         y.t = "head", mode = "signed", chunks \in Seq(Seq(Byte))
  PROVE  y.sig # None /\ \E k \in Nat : Chain(y.sig, chunks, k)
<1>1. y.sig = Append(chunks, <<>>) \/ \E i \in 1..Len(chunks) : y.sig = SubSeq(chunks, 1, i)
  <2>1. y \in Symbols(mode, has, body, chunks)
    OBVIOUS
  <2>2. Says(mode, has, body, chunks, y)
    BY ONLY <2>1, SymbolFacts
  <2> QED BY <2>2 DEF Says
<1>2. Len(chunks) \in Nat
  OBVIOUS
<1>3. \E k \in Nat : Chain(y.sig, chunks, k)
  <2>1. /\ \A i \in 1..Len(chunks) : Chain(SubSeq(chunks, 1, i), chunks, i)
        /\ Chain(Append(chunks, <<>>), chunks, Len(chunks) + 1)
    BY ChainOf
  <2>2. CASE y.sig = Append(chunks, <<>>)
    BY <1>2, <2>1, <2>2
  <2>3. CASE \E i \in 1..Len(chunks) : y.sig = SubSeq(chunks, 1, i)
    <3>1. PICK i \in 1..Len(chunks) : y.sig = SubSeq(chunks, 1, i)
      BY <2>3
    <3> QED BY <1>2, <2>1, <3>1
  <2> QED BY <1>1, <2>2, <2>3
<1>4. y.sig \in Seq(Seq(Byte))
  BY <1>3 DEF Chain
<1> QED BY <1>3, <1>4, NoneAssumption

-----------------------------------------------------------------------------
(* The invariant. *)

\* A line that is still to come.
HasLine(u, t) == \E x \in 1..Len(u.wire) : u.wire[x].t = t

\* The lines after the chunks are there, unless the body ended early.
Trailing(u) ==
  u.mode # "plain" =>
    /\ u.harm # "cut" /\ "trailer" \in u.has => HasLine(u, "sum")
    /\ u.harm = "none" => HasLine(u, "blank")
    /\ u.harm = "none" /\ u.mode = "signed" /\ "trailer" \in u.has => HasLine(u, "sig")

\* A plain body that is not harmed.
PlainCopy(u) ==
  u.mode = "plain" /\ u.harm = "none" =>
    /\ Len(u.file) + Len(u.wire) = Len(u.body) /\ PieceOf(u.file, u.body, 0)
    /\ \A x \in 1..Len(u.wire) : u.wire[x] = Data(u.body[Len(u.file) + x])

\* What holds during the copy.
Copied(u) ==
  /\ u.final = FALSE /\ u.trailer = None /\ Len(u.file) <= MaxSize + 1
  /\ PlainCopy(u) /\ ChunksSigned(u) /\ Framed(u) /\ Trailing(u)

\* What the copy is when it is over.
Whole(u) ==
  /\ u.trailer \in {None, u.body}
  /\ u.mode = "plain" => /\ u.harm = "none" =>
                              u.file = u.body \/ (Len(u.file) > MaxSize /\ Len(u.body) > MaxSize)
                         /\ u.end = "reset" => Len(u.file) > MaxSize
  /\ u.mode # "plain" /\ u.final =>
       /\ u.mode = "signed" \/ u.harm \in {"none", "cut"} => u.file = u.body
       /\ u.harm = "lost" => Len(u.file) # Len(u.body)
       /\ u.harm # "cut" /\ "trailer" \in u.has => u.trailer = u.body
  /\ u.mode # "plain" /\ ~u.final =>
       Len(u.file) > MaxSize /\ (u.harm = "none" => Len(u.body) > MaxSize)

\* Unnoticed, of any upload.
Excused(u) ==
  /\ u.harm # "none" /\ u.end = "eof"
  /\ u.has \cap {"sha256", "md5", "sum"} = {}
  /\ \/ u.mode = "plain"
     \/ /\ u.mode = "unsigned" /\ "trailer" \notin u.has
        /\ u.harm \in {"changed", "moved"} \/ (u.harm = "lost" /\ "length" \notin u.has)

\* Reasons to refuse what arrived unharmed.
TooLarge(u) == Len(u.body) > MaxSize \/ \E i \in DOMAIN u.chunks : Len(u.chunks[i]) > MaxChunk

\* What holds of an upload in each phase.
Sound(u) ==
  \/ u.pc = "idle"
  \/ /\ Context(u) /\ u.pc \in {"copy", "verify", "stored", "refused"}
     /\ u.pc = "copy" => Copied(u)
     /\ u.pc = "verify" => Whole(u)
     /\ u.pc = "stored" => u.file = u.body \/ Excused(u)
     /\ u.pc = "refused" => u.harm # "none" \/ TooLarge(u)

UpInv == Sound(up)

-----------------------------------------------------------------------------
LEMMA SizesAreNat == MaxSize \in Nat /\ MaxSize > 0 /\ MaxChunk \in Nat /\ MaxChunk > 0
  BY TransferAssumption

\* A step that only reads keeps the context.
LEMMA ContextKept ==
  ASSUME NEW u, NEW v, Context(u), Same(u, v), DOMAIN v = Fields,
         v.wire \in Seq(Symbols(u.mode, u.has, u.body, u.chunks)),
         v.file \in Seq(Byte), v.hash \in Seq(Byte), v.remaining \in Nat
  PROVE  Context(v)
  BY DEF Context, Same

\* A refusal has its reason.
LEMMA RefusedSound ==
  ASSUME NEW u, NEW v, Context(u), v = [u EXCEPT !.pc = "refused"], u.harm # "none" \/ TooLarge(u)
  PROVE  Sound(v)
<1>1. DOMAIN u = Fields
  BY DEF Context
<1>2. /\ DOMAIN v = Fields /\ v.pc = "refused" /\ Same(u, v)
      /\ v.wire = u.wire /\ v.file = u.file /\ v.hash = u.hash /\ v.remaining = u.remaining
  BY <1>1 DEF Fields, Same
<1>3. Context(v)
  <2>1. /\ u.wire \in Seq(Symbols(u.mode, u.has, u.body, u.chunks))
        /\ u.file \in Seq(Byte) /\ u.hash \in Seq(Byte) /\ u.remaining \in Nat
    BY DEF Context
  <2> QED BY <1>2, <2>1, ContextKept
<1>4. v.harm # "none" \/ TooLarge(v)
  BY <1>2 DEF Same, TooLarge
<1> QED BY <1>2, <1>3, <1>4 DEF Sound

\* Reading data, chunk lines and line ends leaves the lines after the chunks.
LEMMA TrailingKept ==
  ASSUME NEW S, NEW u, NEW v, Trailing(u), Same(u, v), u.wire \in Seq(S), NEW n \in 0..Len(u.wire),
         v.wire = SubSeq(u.wire, n + 1, Len(u.wire)),
         \A x \in 1..n : u.wire[x].t \in {"head", "data", "crlf"}
  PROVE  Trailing(v)
<1>1. Len(u.wire) \in Nat
  OBVIOUS
<1>2. Len(v.wire) = Len(u.wire) - n /\ \A x \in 1..(Len(u.wire) - n) : v.wire[x] = u.wire[n + x]
  BY RestOf
<1>3. ASSUME NEW t \in {"sum", "blank", "sig"}, HasLine(u, t) PROVE HasLine(v, t)
  <2>1. PICK x \in 1..Len(u.wire) : u.wire[x].t = t
    BY <1>3 DEF HasLine
  <2>2. x \notin 1..n
    BY <1>3, <2>1
  <2> DEFINE y == x - n
  <2>3. y \in 1..(Len(u.wire) - n) /\ n + y = x
    BY <1>1, <2>2
  <2> HIDE DEF y
  <2>4. v.wire[y].t = t /\ y \in 1..Len(v.wire)
    BY <1>2, <2>1, <2>3
  <2> QED BY <2>4 DEF HasLine
<1> QED BY <1>3 DEF Trailing, Same

\* Ready counts the data at the head of the wire.
LEMMA ReadyFacts ==
  ASSUME NEW S, up.wire \in Seq(S)
  PROVE  /\ Ready \in 0..Len(up.wire) /\ \A i \in 1..Ready : up.wire[i].t = "data"
         /\ Ready < Len(up.wire) => up.wire[Ready + 1].t # "data"
<1> DEFINE L == Len(up.wire)
           Ends0 == {n \in 0..L : n < L => up.wire[n + 1].t # "data"}
<1>1. L \in Nat
  OBVIOUS
<1>2. Ends0 \subseteq Nat /\ L \in Ends0
  BY <1>1
<1>3. PICK n \in Ends0 : \A m \in Ends0 : n <= m
  <2> HIDE DEF Ends0
  <2>1. Ends0 # {}
    BY <1>2
  <2> QED BY <1>2, <2>1, LeastNumber
<1>4. n \in 0..L /\ (n < L => up.wire[n + 1].t # "data")
  OBVIOUS
<1>5. ASSUME NEW i \in 1..n PROVE up.wire[i].t = "data"
  <2>1. i - 1 \in 0..L /\ i - 1 < L /\ ~(n <= i - 1) /\ i - 1 + 1 = i
    BY <1>1, <1>4
  <2>2. i - 1 \notin Ends0
    <3> HIDE DEF Ends0
    <3> QED BY <1>3, <2>1
  <2> QED BY <2>1, <2>2
<1>6. \E k \in 0..L : /\ \A i \in 1..k : up.wire[i].t = "data"
                      /\ k < L => up.wire[k + 1].t # "data"
  BY <1>4, <1>5
<1> QED BY <1>6 DEF Ready

\* They are bytes.
LEMMA TakenFacts ==
  ASSUME NEW n \in Nat, n <= Len(up.wire), Len(up.wire) \in Nat,
         up.wire \in Seq(Symbols(up.mode, up.has, up.body, up.chunks)),
         \A x \in 1..n : up.wire[x].t = "data"
  PROVE  Taken(n) \in Seq(Byte) /\ Len(Taken(n)) = n /\ \A x \in 1..n : Taken(n)[x] = up.wire[x].byte
<1>1. ASSUME NEW x \in 1..n PROVE up.wire[x].byte \in Byte
  <2>1. x \in 1..Len(up.wire)
    OBVIOUS
  <2>2. up.wire[x] \in Symbols(up.mode, up.has, up.body, up.chunks)
    BY <2>1
  <2>3. Says(up.mode, up.has, up.body, up.chunks, up.wire[x])
    BY <2>2, SymbolFacts
  <2> QED BY <2>3 DEF Says
<1> QED BY <1>1 DEF Taken

\* The fields of a record, after a step.
LEMMA CopyContext ==
  ASSUME Sound(up), up.pc = "copy"
  PROVE  /\ Context(up) /\ Copied(up) /\ DOMAIN up = Fields
         /\ up.wire \in Seq(Symbols(up.mode, up.has, up.body, up.chunks)) /\ Len(up.wire) \in Nat
         /\ up.file \in Seq(Byte) /\ up.hash \in Seq(Byte) /\ up.remaining \in Nat
         /\ Len(up.file) \in Nat /\ Left \in Int /\ (Left > 0 => Left \in Nat)
<1>1. Context(up) /\ Copied(up)
  BY DEF Sound
<1>2. /\ DOMAIN up = Fields /\ up.wire \in Seq(Symbols(up.mode, up.has, up.body, up.chunks))
      /\ up.file \in Seq(Byte) /\ up.hash \in Seq(Byte) /\ up.remaining \in Nat
  BY <1>1 DEF Context
<1>3. Len(up.wire) \in Nat
  BY <1>2
<1>4. Len(up.file) \in Nat
  BY <1>2
<1>5. Left \in Int /\ (Left > 0 => Left \in Nat)
  <2> DEFINE F == Len(up.file)
             X == MaxSize + 1 - F
  <2>1. F \in Nat
    BY <1>4
  <2> HIDE DEF F
  <2>2. X \in Int /\ (X > 0 => X \in Nat)
    BY <2>1, SizesAreNat
  <2>3. Left = X
    BY DEF Left, F
  <2> HIDE DEF X
  <2> QED BY <2>2, <2>3
<1> QED BY <1>1, <1>2, <1>3, <1>4, <1>5

\* io.Copy of a plain body.
LEMMA PlainIsSound ==
  ASSUME Sound(up), ReadPlain PROVE Sound(up')
<1>1. up.pc = "copy" /\ Left > 0 /\ up.mode = "plain"
  BY DEF ReadPlain, Copying
<1>2. /\ Context(up) /\ Copied(up) /\ DOMAIN up = Fields
      /\ up.wire \in Seq(Symbols(up.mode, up.has, up.body, up.chunks)) /\ Len(up.wire) \in Nat
      /\ up.file \in Seq(Byte) /\ up.hash \in Seq(Byte) /\ up.remaining \in Nat
      /\ Len(up.file) \in Nat /\ Left \in Int
  BY <1>1, CopyContext
<1>3. PICK n \in 1..Min({Left, Len(up.wire)}) :
        up' = [up EXCEPT !.wire = Rest(n), !.file = @ \o Taken(n)]
  BY DEF ReadPlain
<1>4. n \in Nat /\ n >= 1 /\ n <= Left /\ n <= Len(up.wire) /\ n \in 0..Len(up.wire)
  <2>1. Min({Left, Len(up.wire)}) = IF Left <= Len(up.wire) THEN Left ELSE Len(up.wire)
    BY <1>2, Least
  <2> QED BY <1>2, <1>3, <2>1
<1> DEFINE b == Taken(n)
           v == [up EXCEPT !.wire = Rest(n), !.file = @ \o Taken(n)]
           S == Symbols(up.mode, up.has, up.body, up.chunks)
<1>5. /\ DOMAIN v = Fields /\ v.pc = "copy" /\ Same(up, v)
      /\ v.wire = SubSeq(up.wire, n + 1, Len(up.wire)) /\ v.file = up.file \o b
      /\ v.hash = up.hash /\ v.remaining = up.remaining /\ v.final = up.final
      /\ v.trailer = up.trailer
  BY <1>1, <1>2 DEF Fields, Same, Rest
<1>6. \A x \in 1..n : up.wire[x].t = "data"
  <2> TAKE x \in 1..n
  <2>1. x \in 1..Len(up.wire)
    BY <1>4
  <2>2. up.wire[x] \in S
    BY <1>2, <2>1
  <2>3. Says(up.mode, up.has, up.body, up.chunks, up.wire[x])
    BY <2>2, SymbolFacts
  <2> QED BY <1>1, <2>3 DEF Says
<1>7. b \in Seq(Byte) /\ Len(b) = n /\ \A x \in 1..n : b[x] = up.wire[x].byte
  BY <1>2, <1>4, <1>6, TakenFacts
<1>8. up' = v
  BY <1>3
<1> HIDE DEF b, v, S
<1>9. v.wire \in Seq(S) /\ Len(v.wire) = Len(up.wire) - n
      /\ \A x \in 1..(Len(up.wire) - n) : v.wire[x] = up.wire[n + x]
  BY <1>2, <1>4, <1>5, RestOf DEF S
<1>10. v.file \in Seq(Byte) /\ Len(v.file) = Len(up.file) + n
  BY <1>2, <1>5, <1>7
<1>11. Context(v)
  BY <1>2, <1>5, <1>9, <1>10, ContextKept DEF S
<1>12. Len(v.file) <= MaxSize + 1
  BY <1>2, <1>4, <1>10, SizesAreNat DEF Left
<1>13. ASSUME v.mode = "plain", v.harm = "none"
       PROVE  /\ Len(v.file) + Len(v.wire) = Len(v.body) /\ PieceOf(v.file, v.body, 0)
              /\ \A x \in 1..Len(v.wire) : v.wire[x] = Data(v.body[Len(v.file) + x])
  <2>1. up.harm = "none" /\ v.body = up.body
    BY <1>5, <1>13 DEF Same
  <2>2. /\ Len(up.file) + Len(up.wire) = Len(up.body) /\ PieceOf(up.file, up.body, 0)
        /\ \A x \in 1..Len(up.wire) : up.wire[x] = Data(up.body[Len(up.file) + x])
    BY <1>1, <1>2, <2>1 DEF Copied, PlainCopy
  <2>3. Len(v.file) + Len(v.wire) = Len(v.body)
    <3> DEFINE F == Len(up.file)
               W == Len(up.wire)
    <3>1. F \in Nat /\ W \in Nat /\ Len(v.wire) = W - n /\ Len(v.file) = F + n /\ F + W = Len(v.body)
      BY <1>2, <1>9, <1>10, <2>1, <2>2
    <3> HIDE DEF F, W
    <3>2. F + n + (W - n) = F + W
      BY <1>4, <3>1
    <3> QED BY <3>1, <3>2
  <2>4. PieceOf(v.file, v.body, 0)
    <3> DEFINE d == 0
    <3>1. d \in Nat /\ PieceOf(up.file, up.body, d)
      BY <2>2
    <3>2. PieceOf(b, up.body, d + Len(up.file))
      <4>1. ASSUME NEW x \in 1..n PROVE b[x] = up.body[d + Len(up.file) + x]
        <5>1. x \in 1..Len(up.wire) /\ d + Len(up.file) + x = Len(up.file) + x
          BY <1>2, <1>4
        <5>2. up.wire[x] = Data(up.body[Len(up.file) + x])
          BY <2>2, <5>1
        <5> QED BY <1>7, <5>1, <5>2 DEF Data
      <4> QED BY <1>7, <4>1 DEF PieceOf
    <3> HIDE DEF d
    <3>3. PieceOf(up.file \o b, up.body, d)
      BY <1>2, <1>7, <3>1, <3>2, Longer
    <3> QED BY <1>5, <2>1, <3>3 DEF d
  <2>5. ASSUME NEW x \in 1..Len(v.wire) PROVE v.wire[x] = Data(v.body[Len(v.file) + x])
    <3>1. x \in 1..(Len(up.wire) - n)
      BY <1>9
    <3>2. n + x \in 1..Len(up.wire) /\ Len(up.file) + (n + x) = Len(v.file) + x
      <4> DEFINE F == Len(up.file)
                 W == Len(up.wire)
      <4>1. F \in Nat /\ W \in Nat /\ x \in 1..(W - n) /\ Len(v.file) = F + n
        BY <1>2, <1>10, <3>1
      <4> HIDE DEF F, W
      <4>2. n + x \in 1..W /\ F + (n + x) = F + n + x
        BY <1>4, <4>1
      <4> QED BY <4>1, <4>2 DEF F, W
    <3>3. v.wire[x] = up.wire[n + x]
      BY <1>9, <3>1
    <3> QED BY <2>1, <2>2, <3>2, <3>3
  <2> QED BY <2>3, <2>4, <2>5
<1>14. Copied(v)
  <2>1. v.mode = "plain"
    BY <1>1, <1>5 DEF Same
  <2>2. ChunksSigned(v) /\ Framed(v) /\ Trailing(v)
    BY <2>1 DEF ChunksSigned, Framed, Trailing
  <2>3. v.final = FALSE /\ v.trailer = None
    BY <1>2, <1>5 DEF Copied
  <2> QED BY <1>12, <1>13, <2>2, <2>3 DEF Copied, PlainCopy
<1> QED BY <1>5, <1>8, <1>11, <1>14 DEF Sound

\* readChunkHeader.
LEMMA HeaderIsSound ==
  ASSUME Sound(up), ReadHeader PROVE Sound(up')
<1>1. up.pc = "copy" /\ up.mode # "plain" /\ up.remaining = 0
  BY DEF ReadHeader, Copying
<1>2. /\ Context(up) /\ Copied(up) /\ DOMAIN up = Fields
      /\ up.wire \in Seq(Symbols(up.mode, up.has, up.body, up.chunks)) /\ Len(up.wire) \in Nat
      /\ up.file \in Seq(Byte) /\ up.hash \in Seq(Byte)
  BY <1>1, CopyContext
<1> DEFINE S == Symbols(up.mode, up.has, up.body, up.chunks)
<1>3. up.wire # <<>> => Len(up.wire) >= 1 /\ 1 \in 1..Len(up.wire) /\ 1 \in 0..Len(up.wire)
  <2> HIDE DEF S
  <2> QED BY <1>2 DEF S
<1>4. up.wire # <<>> => Says(up.mode, up.has, up.body, up.chunks, up.wire[1])
  <2>1. up.wire # <<>> => up.wire[1] \in S
    BY <1>2, <1>3
  <2> QED BY <2>1, SymbolFacts
<1>5. ASSUME up.wire # <<>>, up.wire[1].t = "head", up.mode = "signed"
      PROVE  up.wire[1].sig # None /\ \E k \in Nat : Chain(up.wire[1].sig, up.chunks, k)
  <2>1. up.chunks \in Seq(Seq(Byte))
    BY <1>1, <1>2 DEF Context, ChunksOf
  <2>2. up.wire[1] \in S
    BY <1>2, <1>3, <1>5
  <2>3. \A mode : mode = "signed" /\ up.wire[1] \in Symbols(mode, up.has, up.body, up.chunks) =>
          up.wire[1].sig # None /\ \E k \in Nat : Chain(up.wire[1].sig, up.chunks, k)
    BY <1>5, <2>1, SigFacts
  <2> QED BY <1>5, <2>2, <2>3
<1>6. CASE up' = [up EXCEPT !.pc = "refused"] /\ (up.wire = <<>> \/ up.wire[1].t # "head")
  <2>1. up.harm # "none"
    <3>1. SUFFICES ASSUME up.harm = "none" PROVE FALSE
      OBVIOUS
    <3>2. Len(up.wire) >= 1 /\ up.wire[1].t = "head"
      BY <1>1, <1>2, <3>1, LineFollows DEF Copied
    <3>3. Len(<<>>) = 0
      OBVIOUS
    <3> QED BY <1>6, <3>2, <3>3
  <2> QED BY <1>2, <1>6, <2>1, RefusedSound
<1>7. CASE /\ up.wire # <<>> /\ up.wire[1].t = "head" /\ up.wire[1].size > 0
           /\ up.wire[1].size > MaxChunk \/ (up.mode = "signed" /\ up.wire[1].sig = None)
           /\ up' = [up EXCEPT !.pc = "refused"]
  <2>1. up.wire[1].size > MaxChunk
    BY <1>5, <1>7
  <2>2. up.wire[1].size # 0
    BY <2>1, SizesAreNat, <1>7
  <2>3. PICK i \in 1..Len(up.chunks) : up.wire[1].size = Len(up.chunks[i])
    BY <1>4, <1>7, <2>2 DEF Says
  <2>4. up.chunks \in Seq(Seq(Byte))
    BY <1>1, <1>2 DEF Context, ChunksOf
  <2>5. DOMAIN up.chunks = 1..Len(up.chunks)
    BY <2>4
  <2>6. TooLarge(up)
    BY <2>1, <2>3, <2>5 DEF TooLarge
  <2> QED BY <1>2, <1>7, <2>6, RefusedSound
<1>8. CASE /\ up.wire # <<>> /\ up.wire[1].t = "head" /\ up.wire[1].size > 0
           /\ up' = [up EXCEPT !.wire = Rest(1), !.remaining = up.wire[1].size,
                               !.sig = up.wire[1].sig, !.hash = <<>>]
  <2> DEFINE v == [up EXCEPT !.wire = Rest(1), !.remaining = up.wire[1].size,
                             !.sig = up.wire[1].sig, !.hash = <<>>]
  <2>1. /\ DOMAIN v = Fields /\ v.pc = "copy" /\ Same(up, v)
        /\ v.wire = SubSeq(up.wire, 1 + 1, Len(up.wire)) /\ v.file = up.file
        /\ v.hash = <<>> /\ v.remaining = up.wire[1].size /\ v.sig = up.wire[1].sig
        /\ v.final = up.final /\ v.trailer = up.trailer /\ v.prev = up.prev
    BY <1>1, <1>2 DEF Fields, Same, Rest
  <2>2. up' = v
    BY <1>8
  <2> HIDE DEF v
  <2>3. v.remaining \in Nat /\ v.remaining > 0
    <3>1. up.wire[1].size # 0
      BY <1>8
    <3>2. PICK i \in 1..Len(up.chunks) : up.wire[1].size = Len(up.chunks[i])
      BY <1>4, <1>8, <3>1 DEF Says
    <3>3. up.chunks \in Seq(Seq(Byte))
      BY <1>1, <1>2 DEF Context, ChunksOf
    <3>4. up.chunks[i] \in Seq(Byte)
      BY <3>2, <3>3
    <3> QED BY <1>8, <2>1, <3>2, <3>4
  <2> HIDE DEF S
  <2>4. v.wire \in Seq(S)
    BY <1>2, <1>3, <1>8, <2>1, RestOf DEF S
  <2>5. Context(v)
    <3>1. v.file \in Seq(Byte) /\ v.hash \in Seq(Byte)
      BY <1>2, <2>1
    <3> QED BY <1>2, <2>1, <2>3, <2>4, <3>1, ContextKept DEF S
  <2>6. up.wire \in Seq(S)
    BY <1>2 DEF S
  <2>7. Framed(up) /\ ChunksSigned(up) /\ Trailing(up)
    BY <1>2 DEF Copied
  <2>8. Framed(v)
    BY <1>1, <1>8, <2>1, <2>6, <2>7, FramedHeader
  <2>9. ChunksSigned(v)
    <3>1. up.mode = "signed" => \E k \in Nat : Chain(v.sig, up.chunks, k)
      BY <1>5, <1>8, <2>1
    <3> QED BY <1>1, <1>2, <2>1, <2>3, <2>7, <3>1, SignedHeader
  <2>10. Trailing(v)
    <3>1. \A x \in 1..1 : up.wire[x].t \in {"head", "data", "crlf"}
      BY <1>8
    <3> DEFINE n == 1
    <3>2. n \in 0..Len(up.wire) /\ v.wire = SubSeq(up.wire, n + 1, Len(up.wire))
          /\ \A x \in 1..n : up.wire[x].t \in {"head", "data", "crlf"}
      BY <1>3, <1>8, <2>1, <3>1
    <3> HIDE DEF n
    <3> QED BY <2>1, <2>6, <2>7, <3>2, TrailingKept
  <2>11. Copied(v)
    <3>1. v.mode # "plain" /\ v.final = FALSE /\ v.trailer = None /\ Len(v.file) <= MaxSize + 1
      BY <1>1, <1>2, <2>1 DEF Same, Copied
    <3> QED BY <2>8, <2>9, <2>10, <3>1 DEF Copied, PlainCopy
  <2> QED BY <2>1, <2>2, <2>5, <2>11 DEF Sound
<1> QED BY <1>6, <1>7, <1>8 DEF ReadHeader, Refuse

LEMMA Smallest ==
  ASSUME NEW x \in Int, NEW y \in Int, NEW z \in Int
  PROVE  LET m == Min({x, y, z}) IN m \in Int /\ m <= x /\ m <= y /\ m <= z
<1>1. \E m \in {x, y, z} : \A k \in {x, y, z} : m <= k
  OBVIOUS
<1> QED BY <1>1 DEF Min

\* Read, and finishChunk.
LEMMA DataIsSound ==
  ASSUME Sound(up), ReadData PROVE Sound(up')
<1>1. up.pc = "copy" /\ up.mode # "plain" /\ up.remaining > 0 /\ Left > 0
  BY DEF ReadData, Copying
<1>2. /\ Context(up) /\ Copied(up) /\ DOMAIN up = Fields
      /\ up.wire \in Seq(Symbols(up.mode, up.has, up.body, up.chunks)) /\ Len(up.wire) \in Nat
      /\ up.file \in Seq(Byte) /\ up.hash \in Seq(Byte) /\ up.remaining \in Nat
      /\ Len(up.file) \in Nat /\ Left \in Int
  BY <1>1, CopyContext
<1> DEFINE S == Symbols(up.mode, up.has, up.body, up.chunks)
<1>3. /\ Ready \in 0..Len(up.wire) /\ \A i \in 1..Ready : up.wire[i].t = "data"
      /\ Ready < Len(up.wire) => up.wire[Ready + 1].t # "data"
  BY <1>2, ReadyFacts
<1>4. Framed(up) /\ ChunksSigned(up) /\ Trailing(up)
  BY <1>2 DEF Copied
<1>5. up.harm = "none" => /\ Len(up.wire) > up.remaining /\ up.wire[1].t = "data"
                          /\ up.wire[up.remaining + 1].t = "crlf"
  BY <1>1, <1>2, <1>4, DataFollow
<1>6. CASE Ready = 0 /\ Refuse
  <2>1. up.harm # "none"
    BY <1>2, <1>3, <1>5, <1>6
  <2> QED BY <1>2, <1>6, <2>1, RefusedSound DEF Refuse
<1>7. ASSUME NEW n \in 1..Min({up.remaining, Left, Ready}),
             IF n < up.remaining
               THEN up' = [up EXCEPT !.wire = Rest(n), !.file = @ \o Taken(n),
                                     !.remaining = @ - n, !.hash = up.hash \o Taken(n)]
             ELSE IF ChunkEnds(Rest(n), up.hash \o Taken(n))
               THEN up' = [up EXCEPT !.wire = Tail(Rest(n)), !.file = @ \o Taken(n),
                                     !.remaining = 0, !.prev = up.sig]
             ELSE Refuse
      PROVE  Sound(up')
  <2> DEFINE b == Taken(n)
  <2>1. n \in Nat /\ 1 <= n /\ n <= up.remaining /\ n <= Left /\ n <= Ready
        /\ n <= Len(up.wire) /\ n \in 0..Len(up.wire)
    <3> DEFINE m == Min({up.remaining, Left, Ready})
    <3>1. m \in Int /\ m <= up.remaining /\ m <= Left /\ m <= Ready
      <4>1. up.remaining \in Int /\ Left \in Int /\ Ready \in Int
        BY <1>2, <1>3
      <4> QED BY ONLY <4>1, Smallest
    <3> HIDE DEF m
    <3>2. n \in Nat /\ 1 <= n /\ n <= m
      BY <1>7, <3>1 DEF m
    <3> QED BY <1>2, <1>3, <3>1, <3>2
  <2>2. \A x \in 1..n : up.wire[x].t = "data"
    BY <1>3, <2>1
  <2>3. b \in Seq(Byte) /\ Len(b) = n /\ \A x \in 1..n : b[x] = up.wire[x].byte
    BY <1>2, <2>1, <2>2, TakenFacts
  <2>4. /\ Rest(n) \in Seq(S) /\ Len(Rest(n)) = Len(up.wire) - n
        /\ \A x \in 1..(Len(up.wire) - n) : Rest(n)[x] = up.wire[n + x]
    <3> HIDE DEF S
    <3>1. up.wire \in Seq(S)
      BY <1>2 DEF S
    <3> QED BY <2>1, <3>1, RestOf DEF Rest
  <2> HIDE DEF b, S
  <2>5. ASSUME NEW v, Same(up, v), v.file = up.file \o b PROVE DataStep(up, v, n, b)
    BY <1>2, <2>1, <2>2, <2>3, <2>5 DEF DataStep
  <2>6. up.file \o b \in Seq(Byte) /\ up.hash \o b \in Seq(Byte)
        /\ Len(up.file \o b) <= MaxSize + 1
    <3>1. up.file \o b \in Seq(Byte) /\ up.hash \o b \in Seq(Byte)
          /\ Len(up.file \o b) = Len(up.file) + n
      <4>1. up.file \in Seq(Byte) /\ up.hash \in Seq(Byte) /\ b \in Seq(Byte) /\ Len(b) = n
        BY <1>2, <2>3
      <4>2. up.file \o b \in Seq(Byte) /\ Len(up.file \o b) = Len(up.file) + Len(b)
        BY ONLY <4>1, JoinOf
      <4>3. up.hash \o b \in Seq(Byte)
        BY ONLY <4>1, JoinOf
      <4> QED BY <4>1, <4>2, <4>3
    <3> DEFINE F == Len(up.file)
    <3>2. F \in Nat /\ n <= MaxSize + 1 - F
      BY <1>2, <2>1 DEF Left
    <3> HIDE DEF F
    <3>3. F + n <= MaxSize + 1
      BY <2>1, <3>2, SizesAreNat
    <3> QED BY <3>1, <3>3 DEF F
  <2>7. CASE n < up.remaining
    <3> DEFINE v == [up EXCEPT !.wire = Rest(n), !.file = @ \o b,
                               !.remaining = @ - n, !.hash = up.hash \o b]
    <3>1. up' = v
      BY <1>7, <2>7 DEF b
    <3>2. /\ DOMAIN v = Fields /\ v.pc = "copy" /\ Same(up, v)
          /\ v.wire = Rest(n) /\ v.file = up.file \o b
          /\ v.hash = up.hash \o b /\ v.remaining = up.remaining - n /\ v.sig = up.sig
          /\ v.final = up.final /\ v.trailer = up.trailer /\ v.prev = up.prev
      BY <1>1, <1>2 DEF Fields, Same
    <3> HIDE DEF v
    <3>3. v.wire = SubSeq(up.wire, n + 1, Len(up.wire))
      BY <3>2 DEF Rest
    <3>4. SomeStep(up, v, n, b)
      BY <2>5, <2>7, <3>2, <3>3 DEF SomeStep
    <3>5. up.wire \in Seq(S)
      BY <1>2 DEF S
    <3>6. Framed(v)
      BY <1>4, <3>4, <3>5, FramedSome
    <3>7. ChunksSigned(v)
      BY <1>4, <3>4, SignedSome
    <3>8. Trailing(v)
      <4>1. \A x \in 1..n : up.wire[x].t \in {"head", "data", "crlf"}
        BY <2>2
      <4> QED BY <1>4, <2>1, <3>2, <3>3, <3>5, <4>1, TrailingKept
    <3>9. Context(v)
      <4>1. v.remaining \in Nat
        BY <1>2, <2>1, <2>7, <3>2
      <4> QED BY <1>2, <2>4, <2>6, <3>2, <4>1, ContextKept DEF S
    <3>10. Copied(v)
      <4>1. v.mode # "plain" /\ v.final = FALSE /\ v.trailer = None /\ Len(v.file) <= MaxSize + 1
        BY <1>1, <1>2, <2>6, <3>2 DEF Same, Copied
      <4> QED BY <3>6, <3>7, <3>8, <4>1 DEF Copied, PlainCopy
    <3> QED BY <3>1, <3>2, <3>9, <3>10 DEF Sound
  <2>8. CASE ~(n < up.remaining)
    <3>0. n = up.remaining
      BY <1>2, <2>1, <2>8
    <3>1. CASE ChunkEnds(Rest(n), up.hash \o b)
      <4> DEFINE v == [up EXCEPT !.wire = Tail(Rest(n)), !.file = @ \o b,
                                 !.remaining = 0, !.prev = up.sig]
      <4>1. up' = v
        BY <1>7, <2>8, <3>1 DEF b
      <4>2. /\ DOMAIN v = Fields /\ v.pc = "copy" /\ Same(up, v)
            /\ v.wire = Tail(Rest(n)) /\ v.file = up.file \o b
            /\ v.hash = up.hash /\ v.remaining = 0
            /\ v.final = up.final /\ v.trailer = up.trailer /\ v.prev = up.sig
        BY <1>1, <1>2 DEF Fields, Same
      <4> HIDE DEF v
      <4>3. /\ Rest(n) # <<>> /\ Rest(n)[1].t = "crlf"
            /\ up.mode = "signed" => up.sig = Append(up.prev, up.hash \o b)
        BY <3>1 DEF ChunkEnds, ChunkSigned
      <4>4. Len(Rest(n)) >= 1 /\ n + 1 <= Len(up.wire) /\ n \in 0..(Len(up.wire) - 1)
        <5>1. Len(Rest(n)) >= 1
          BY <2>4, <4>3
        <5> QED BY <1>2, <2>1, <2>4, <5>1
      <4>5. up.wire[n + 1].t = "crlf"
        <5>1. 1 \in 1..(Len(up.wire) - n)
          BY <1>2, <2>1, <4>4
        <5> QED BY <2>4, <4>3, <5>1
      <4>6. up.wire \in Seq(S)
        BY <1>2 DEF S
      <4>7. v.wire = SubSeq(up.wire, n + 1 + 1, Len(up.wire))
        BY <4>2, <4>4, <4>6, TailOfRest DEF Rest
      <4>8. EndStep(up, v, n, b)
        BY <2>5, <3>0, <4>2, <4>4, <4>7 DEF EndStep
      <4>9. Framed(v)
        BY <1>4, <4>6, <4>8, FramedEnd
      <4>10. ChunksSigned(v)
        <5>1. up.chunks \in Seq(Seq(Byte))
          BY <1>1, <1>2 DEF Context, ChunksOf
        <5> QED BY <1>4, <4>3, <4>8, <5>1, SignedEnd
      <4>11. n + 1 \in 0..Len(up.wire)
        BY <1>2, <2>1, <4>4
      <4>12. Trailing(v)
        <5> DEFINE k == n + 1
        <5>1. k \in 0..Len(up.wire) /\ v.wire = SubSeq(up.wire, k + 1, Len(up.wire))
          BY <4>7, <4>11
        <5>2. \A x \in 1..k : up.wire[x].t \in {"head", "data", "crlf"}
          <6>1. \A x \in 1..k : x \in 1..n \/ x = n + 1
            BY <2>1
          <6> QED BY <2>2, <4>5, <6>1
        <5> HIDE DEF k
        <5> QED BY <1>4, <4>2, <4>6, <5>1, <5>2, TrailingKept
      <4>13. v.wire \in Seq(S)
        BY <4>6, <4>7, <4>11, RestOf
      <4>14. Context(v)
        <5>1. v.file \in Seq(Byte) /\ v.hash \in Seq(Byte) /\ v.remaining \in Nat
          BY <1>2, <2>6, <4>2
        <5>2. v.wire \in Seq(Symbols(up.mode, up.has, up.body, up.chunks)) /\ DOMAIN v = Fields
              /\ Same(up, v) /\ Context(up)
          BY <1>2, <4>2, <4>13 DEF S
        <5> QED BY ONLY <5>1, <5>2, ContextKept
      <4>15. Copied(v)
        <5>1. v.mode # "plain" /\ v.final = FALSE /\ v.trailer = None /\ Len(v.file) <= MaxSize + 1
          BY <1>1, <1>2, <2>6, <4>2 DEF Same, Copied
        <5> QED BY <4>9, <4>10, <4>12, <5>1 DEF Copied, PlainCopy
      <4> QED BY <4>1, <4>2, <4>14, <4>15 DEF Sound
    <3>2. CASE ~ChunkEnds(Rest(n), up.hash \o b)
      <4>1. up' = [up EXCEPT !.pc = "refused"]
        BY <1>7, <2>8, <3>2 DEF b, Refuse
      <4>2. up.harm # "none"
        <5> SUFFICES ASSUME up.harm = "none" PROVE FALSE
          OBVIOUS
        <5>1. Len(up.wire) > n /\ up.wire[n + 1].t = "crlf"
          BY <1>5, <3>0
        <5>2. 1 \in 1..(Len(up.wire) - n)
          BY <1>2, <2>1, <5>1
        <5>3. Rest(n)[1].t = "crlf" /\ Rest(n) # <<>>
          <6>1. Rest(n)[1].t = "crlf"
            BY <2>4, <5>1, <5>2
          <6>2. Len(Rest(n)) # 0 /\ Len(<<>>) = 0
            BY <2>4, <1>2, <2>1, <5>1
          <6> QED BY <6>1, <6>2
        <5>4. up.mode = "signed" => up.sig = Append(up.prev, up.hash \o b)
          <6> SUFFICES ASSUME up.mode = "signed" PROVE up.sig = Append(up.prev, up.hash \o b)
            OBVIOUS
          <6> DEFINE v == [up EXCEPT !.file = @ \o b]
          <6>1. Same(up, v) /\ v.file = up.file \o b
            BY <1>2 DEF Same, Fields
          <6> HIDE DEF v
          <6>2. DataStep(up, v, n, b)
            BY <2>5, <6>1
          <6>3. up.chunks \in Seq(Seq(Byte))
            BY <1>1, <1>2 DEF Context, ChunksOf
          <6> QED BY <1>4, <3>0, <6>2, <6>3, SignatureFollows
        <5> QED BY <3>2, <5>3, <5>4 DEF ChunkEnds, ChunkSigned
      <4> QED BY <1>2, <4>1, <4>2, RefusedSound
    <3> QED BY <3>1, <3>2
  <2> QED BY <2>7, <2>8
<1> QED BY <1>6, <1>7 DEF ReadData

\* The lines of a kind.
LEMMA LinesOf ==
  ASSUME Len(up.wire) \in Nat, up.wire \in Seq(Symbols(up.mode, up.has, up.body, up.chunks)), NEW t
  PROVE  /\ \A y \in Lines(t) : y.t = t /\ Says(up.mode, up.has, up.body, up.chunks, y)
         /\ HasLine(up, t) => Lines(t) # {}
<1>1. DOMAIN up.wire = 1..Len(up.wire)
  OBVIOUS
<1>2. ASSUME NEW i \in 1..Len(up.wire) PROVE Says(up.mode, up.has, up.body, up.chunks, up.wire[i])
  <2>1. up.wire[i] \in Symbols(up.mode, up.has, up.body, up.chunks)
    OBVIOUS
  <2> QED BY <2>1, SymbolFacts
<1> QED BY <1>1, <1>2 DEF Lines, HasLine

\* readTrailers.
LEMMA TrailersAreSound ==
  ASSUME Sound(up), ReadTrailers PROVE Sound(up')
<1> DEFINE sig == up.wire[1].sig
           good == /\ Lines("blank") # {} \/ (up.end = "eof" /\ Lines("torn") = {})
                   /\ up.mode = "signed" => ChunkSigned(sig, <<>>) /\ TrailersSigned(sig)
           trailer == IF Lines("sum") = {} THEN None ELSE (CHOOSE c \in Lines("sum") : TRUE).of
<1>1. /\ up.pc = "copy" /\ up.mode # "plain" /\ up.remaining = 0
      /\ up.wire # <<>> /\ up.wire[1].t = "head" /\ up.wire[1].size = 0
      /\ IF good THEN up' = [up EXCEPT !.pc = "verify", !.final = TRUE, !.wire = <<>>,
                                       !.trailer = trailer]
                 ELSE Refuse
  BY DEF ReadTrailers, Copying
<1> HIDE DEF good
<1>2. /\ Context(up) /\ Copied(up) /\ DOMAIN up = Fields
      /\ up.wire \in Seq(Symbols(up.mode, up.has, up.body, up.chunks)) /\ Len(up.wire) \in Nat
      /\ up.file \in Seq(Byte) /\ up.hash \in Seq(Byte)
  BY <1>1, CopyContext
<1>3. Framed(up) /\ ChunksSigned(up) /\ Trailing(up)
  BY <1>2 DEF Copied
<1>4. Len(up.wire) >= 1 /\ 1 \in 1..Len(up.wire)
  <2> DEFINE S == Symbols(up.mode, up.has, up.body, up.chunks)
  <2>1. up.wire \in Seq(S) /\ up.wire # <<>>
    BY <1>1, <1>2
  <2> HIDE DEF S
  <2> QED BY <2>1
<1>5. up.body \in Seq(Byte) /\ ChunksOf(up.chunks, up.body) /\ up.chunks \in Seq(Seq(Byte))
  BY <1>1, <1>2 DEF Context, ChunksOf
<1>6. /\ up.harm \in {"none", "cut"} => up.file = up.body
      /\ up.harm = "lost" => Len(up.file) # Len(up.body)
      /\ up.harm = "none" /\ up.mode = "signed" =>
           \E i : /\ i = Len(up.chunks) /\ Chain(up.prev, up.chunks, i)
                  /\ Chain(sig, up.chunks, i + 1)
  <2>1. CASE up.harm \in {"none", "cut", "lost"}
    <3> HIDE DEF sig
    <3>1. /\ up.harm \in {"none", "cut"} => up.file = up.body
          /\ up.harm = "lost" => Len(up.file) # Len(up.body)
      BY <1>1, <1>2, <1>3, <1>4, <1>5, <2>1, FinalFollows
    <3>2. up.harm = "none" /\ up.mode = "signed" =>
           \E i : /\ i = Len(up.chunks) /\ Chain(up.prev, up.chunks, i)
                  /\ Chain(up.wire[1].sig, up.chunks, i + 1)
      BY <1>1, <1>2, <1>3, <1>4, <1>5, <2>1, FinalFollows
    <3> QED BY <3>1, <3>2 DEF sig
  <2> QED BY <2>1
<1>7. \A y \in Lines("sum") : "trailer" \in up.has /\ y = Checksum(up.body)
  <2>1. \A y \in Lines("sum") : y.t = "sum" /\ Says(up.mode, up.has, up.body, up.chunks, y)
    BY <1>2, LinesOf
  <2> QED BY <2>1 DEF Says
<1>8. CASE good
  <2> DEFINE v == [up EXCEPT !.pc = "verify", !.final = TRUE, !.wire = <<>>, !.trailer = trailer]
  <2>1. up' = v
    BY <1>1, <1>8
  <2> HIDE DEF trailer
  <2>2. /\ DOMAIN v = Fields /\ v.pc = "verify" /\ Same(up, v) /\ v.wire = <<>>
        /\ v.file = up.file /\ v.hash = up.hash /\ v.remaining = up.remaining /\ v.final = TRUE
        /\ v.trailer = trailer
    BY <1>1, <1>2 DEF Fields, Same
  <2> HIDE DEF v
  <2>3. Context(v)
    <3>1. <<>> \in Seq(Symbols(up.mode, up.has, up.body, up.chunks))
      OBVIOUS
    <3>2. Context(up) /\ Same(up, v) /\ DOMAIN v = Fields /\ v.file \in Seq(Byte) /\ v.hash \in Seq(Byte)
          /\ v.wire \in Seq(Symbols(up.mode, up.has, up.body, up.chunks)) /\ v.remaining \in Nat
      BY <1>1, <1>2, <2>2, <3>1
    <3> QED BY ONLY <3>2, ContextKept
  <2>4. trailer \in {None, up.body} /\ (Lines("sum") # {} => trailer = up.body)
    BY <1>7 DEF trailer, Checksum
  <2>5. up.mode = "signed" => up.file = up.body
    <3> SUFFICES ASSUME up.mode = "signed" PROVE up.file = up.body
      OBVIOUS
    <3>1. sig = Append(up.prev, <<>>)
      BY <1>8 DEF good, ChunkSigned
    <3>2. \E k \in Nat : Chain(sig, up.chunks, k)
      <4> DEFINE y == up.wire[1]
                 mode == up.mode
      <4>1. y \in Symbols(mode, up.has, up.body, up.chunks) /\ y.t = "head" /\ mode = "signed"
        BY <1>1, <1>2, <1>4
      <4> HIDE DEF y, mode
      <4>2. \E k \in Nat : Chain(y.sig, up.chunks, k)
        BY <1>5, <4>1, SigFacts
      <4> QED BY <4>2 DEF y
    <3> HIDE DEF sig
    <3> QED BY <1>1, <1>2, <1>3, <1>5, <3>1, <3>2, SignedFinal
  <2>6. up.harm # "cut" /\ "trailer" \in up.has => trailer = up.body
    <3>1. up.harm # "cut" /\ "trailer" \in up.has => HasLine(up, "sum")
      BY <1>1, <1>3 DEF Trailing
    <3>2. HasLine(up, "sum") => Lines("sum") # {}
      BY <1>2, LinesOf
    <3> QED BY <2>4, <3>1, <3>2
  <2>7. Whole(v)
    <3>1. v.mode # "plain"
      BY <1>1, <2>2 DEF Same
    <3> QED BY <1>6, <2>2, <2>4, <2>5, <2>6, <3>1 DEF Whole, Same
  <2> QED BY <2>1, <2>2, <2>3, <2>7 DEF Sound
<1>9. CASE ~good
  <2>1. up' = [up EXCEPT !.pc = "refused"]
    BY <1>1, <1>9 DEF Refuse
  <2>2. up.harm # "none"
    <3> SUFFICES ASSUME up.harm = "none" PROVE good
      BY <1>9
    <3>1. Lines("blank") # {}
      <4>1. HasLine(up, "blank")
        BY <1>1, <1>3 DEF Trailing
      <4>2. HasLine(up, "blank") => Lines("blank") # {}
        BY <1>2, LinesOf
      <4> QED BY <4>1, <4>2
    <3>2. ASSUME up.mode = "signed" PROVE ChunkSigned(sig, <<>>) /\ TrailersSigned(sig)
      <4> DEFINE cs == up.chunks
                 M == Len(cs)
                 h == <<>>
      <4>1. Chain(up.prev, cs, M) /\ Chain(sig, cs, M + 1)
        BY <1>6, <3>2
      <4>2. M \in Nat /\ h \in Seq(Byte) /\ h = NthOf(cs, M + 1) /\ Chain(cs, cs, M)
            /\ cs \in Seq(Seq(Byte))
        <5>1. cs \in Seq(Seq(Byte)) /\ M \in Nat /\ h \in Seq(Byte)
          BY <1>5
        <5>2. Chain(cs, cs, M)
          BY <5>1, ChainOf
        <5>3. h = NthOf(cs, M + 1)
          BY <5>1 DEF NthOf
        <5> QED BY <5>1, <5>2, <5>3
      <4> HIDE DEF cs, M, h, sig
      <4>3. sig = Append(up.prev, h)
        BY <4>1, <4>2, Links
      <4>4. sig = Append(cs, h)
        BY <4>1, <4>2, Links
      <4>5. \A y \in Lines("sig") : "trailer" \in up.has /\ y = TrailerSig(<<sig, Checksum(up.body)>>)
        <5>1. \A y \in Lines("sig") : y.t = "sig" /\ Says(up.mode, up.has, up.body, up.chunks, y)
          BY <1>2, LinesOf
        <5> QED BY <4>4, <5>1 DEF Says, cs, h
      <4>6. "trailer" \in up.has => Lines("sum") # {} /\ Lines("sig") # {}
        <5>1. "trailer" \in up.has => HasLine(up, "sum") /\ HasLine(up, "sig")
          BY <1>1, <1>3, <3>2 DEF Trailing
        <5>2. (HasLine(up, "sum") => Lines("sum") # {}) /\ (HasLine(up, "sig") => Lines("sig") # {})
          BY <1>2, LinesOf
        <5> QED BY <5>1, <5>2
      <4>7. TrailersSigned(sig)
        <5>1. CASE "trailer" \in up.has
          <6>1. Lines("sum") = {Checksum(up.body)}
            BY <1>7, <4>6, <5>1
          <6>2. Lines("sig") = {TrailerSig(<<sig, Checksum(up.body)>>)}
            BY <4>5, <4>6, <5>1
          <6>3. Lines("sig") = {TrailerSig(<<sig, c>>) : c \in Lines("sum")}
            BY <6>1, <6>2
          <6> QED BY <6>3 DEF TrailersSigned
        <5>2. CASE "trailer" \notin up.has
          BY <1>7, <4>5, <5>2 DEF TrailersSigned
        <5> QED BY <5>1, <5>2
      <4> QED BY <4>3, <4>7 DEF ChunkSigned, h
    <3> QED BY <3>1, <3>2 DEF good
  <2> QED BY <1>2, <2>1, <2>2, RefusedSound
<1> QED BY <1>8, <1>9

\* The end of io.Copy.
LEMMA EndIsSound ==
  ASSUME Sound(up), EndCopy PROVE Sound(up')
<1>1. up.pc = "copy"
  BY DEF EndCopy
<1>2. /\ Context(up) /\ Copied(up) /\ DOMAIN up = Fields
      /\ up.wire \in Seq(Symbols(up.mode, up.has, up.body, up.chunks)) /\ Len(up.wire) \in Nat
      /\ up.file \in Seq(Byte) /\ up.hash \in Seq(Byte) /\ up.remaining \in Nat
      /\ Len(up.file) \in Nat
  BY <1>1, CopyContext
<1>3. /\ Framed(up) /\ PlainCopy(up) /\ up.final = FALSE /\ up.trailer = None
  BY <1>2 DEF Copied
<1>4. up.body \in Seq(Byte) /\ (up.harm # "cut" => up.end = "eof") /\ Len(up.body) \in Nat
  <2>1. up.body \in Seq(Byte)
    BY <1>2 DEF Context
  <2> QED BY <1>2, <2>1 DEF Context
<1> DEFINE v == [up EXCEPT !.pc = "verify"]
<1>5. /\ DOMAIN v = Fields /\ v.pc = "verify" /\ Same(up, v) /\ v.wire = up.wire
      /\ v.file = up.file /\ v.hash = up.hash /\ v.remaining = up.remaining /\ v.final = up.final
      /\ v.trailer = up.trailer
  BY <1>1, <1>2 DEF Fields, Same
<1> HIDE DEF v
<1>6. Context(v)
  <2>1. Context(up) /\ Same(up, v) /\ DOMAIN v = Fields /\ v.file \in Seq(Byte) /\ v.hash \in Seq(Byte)
        /\ v.wire \in Seq(Symbols(up.mode, up.has, up.body, up.chunks)) /\ v.remaining \in Nat
    BY <1>2, <1>5
  <2> QED BY ONLY <2>1, ContextKept
<1>7. up.mode = "plain" /\ up.harm = "none" => Len(up.file) + Len(up.wire) = Len(up.body)
  BY <1>3 DEF PlainCopy
<1>8. CASE Left = 0 /\ up' = v
  <2>1. Len(up.file) > MaxSize
    <3> DEFINE F == Len(up.file)
    <3>1. F \in Nat /\ MaxSize + 1 - F = 0
      BY <1>2, <1>8 DEF Left
    <3> HIDE DEF F
    <3>2. F > MaxSize
      BY <3>1, SizesAreNat
    <3> QED BY <3>2 DEF F
  <2>2. up.harm = "none" => Len(up.body) > MaxSize
    <3>1. up.harm = "none" => Len(up.file) <= Len(up.body)
      <4>1. CASE up.mode = "plain"
        <5> DEFINE F == Len(up.file)
                   W == Len(up.wire)
        <5>1. F \in Nat /\ W \in Nat /\ (up.harm = "none" => F + W = Len(up.body))
          BY <1>2, <1>7, <4>1
        <5> HIDE DEF F, W
        <5>2. up.harm = "none" => F <= Len(up.body)
          BY <5>1
        <5> QED BY <5>2 DEF F
      <4>2. CASE up.mode # "plain"
        BY <1>2, <1>3, <4>2, WithinBody
      <4> QED BY <4>1, <4>2
    <3> DEFINE F == Len(up.file)
               B == Len(up.body)
    <3>2. F \in Nat /\ B \in Nat /\ (up.harm = "none" => F <= B) /\ F > MaxSize
      BY <1>2, <1>4, <2>1, <3>1
    <3> HIDE DEF F, B
    <3>3. up.harm = "none" => B > MaxSize
      BY <3>2, SizesAreNat
    <3> QED BY <3>3 DEF B
  <2>3. Whole(v)
    <3>1. v.final = FALSE /\ v.trailer = None /\ Len(v.file) > MaxSize
          /\ (v.harm = "none" => Len(v.body) > MaxSize)
      BY <1>3, <1>5, <2>1, <2>2 DEF Same
    <3> QED BY <3>1 DEF Whole
  <2> QED BY <1>5, <1>6, <1>8, <2>3 DEF Sound
<1>9. CASE up.mode = "plain" /\ up.wire = <<>> /\ up.end = "eof" /\ up' = v
  <2>1. up.harm = "none" => up.file = up.body
    <3> SUFFICES ASSUME up.harm = "none" PROVE up.file = up.body
      OBVIOUS
    <3>1. Len(up.file) = Len(up.body)
      <4>1. Len(<<>>) = 0
        OBVIOUS
      <4> QED BY <1>2, <1>4, <1>7, <1>9, <4>1
    <3>2. \A x \in 1..Len(up.file) : up.file[x] = up.body[x]
      <4>1. PieceOf(up.file, up.body, 0)
        BY <1>3, <1>9 DEF PlainCopy
      <4>2. \A x \in 1..Len(up.file) : 0 + x = x
        BY <1>2
      <4> QED BY <4>1, <4>2 DEF PieceOf
    <3> QED BY <1>2, <1>4, <3>1, <3>2, Equal
  <2>2. Whole(v)
    <3>1. v.mode = "plain" /\ v.trailer = None /\ v.end # "reset" /\ (v.harm = "none" => v.file = v.body)
      BY <1>3, <1>5, <1>9, <2>1 DEF Same
    <3> QED BY <3>1 DEF Whole
  <2> QED BY <1>5, <1>6, <1>9, <2>2 DEF Sound
<1>10. CASE up.end # "eof" /\ Refuse
  BY <1>2, <1>4, <1>10, RefusedSound DEF Refuse
<1> QED BY <1>8, <1>9, <1>10 DEF EndCopy, v

\* writeAtomic and verify: what is whole is stored, and only that.
LEMMA CommitIsSound ==
  ASSUME Sound(up), Commit PROVE Sound(up')
<1>1. up.pc = "verify"
  BY DEF Commit
<1>2. Context(up) /\ Whole(up)
  BY <1>1 DEF Sound
<1>3. /\ DOMAIN up = Fields /\ up.wire \in Seq(Symbols(up.mode, up.has, up.body, up.chunks))
      /\ up.file \in Seq(Byte) /\ up.hash \in Seq(Byte) /\ up.remaining \in Nat
      /\ up.body \in Seq(Byte) /\ up.mode \in {"plain", "unsigned", "signed"}
      /\ up.harm \in {"none", "cut", "changed", "lost", "moved"}
      /\ up.end \in {"eof", "reset"} /\ (up.harm # "cut" => up.end = "eof")
      /\ up.harm = "none" => up.declared \in {-1, Len(up.body)}
      /\ up.mode # "plain" /\ "length" \in up.has => up.declared = Len(up.body)
      /\ up.mode = "plain" => "trailer" \notin up.has
  BY <1>2 DEF Context
<1>4. Len(up.file) \in Nat /\ Len(up.body) \in Nat /\ up.body # None
  BY <1>3, NoneAssumption
<1>5. CASE Len(up.file) <= MaxSize /\ Verified /\ up' = [up EXCEPT !.pc = "stored"]
  <2> DEFINE v == [up EXCEPT !.pc = "stored"]
  <2>1. /\ DOMAIN v = Fields /\ v.pc = "stored" /\ Same(up, v) /\ v.wire = up.wire
        /\ v.file = up.file /\ v.hash = up.hash /\ v.remaining = up.remaining
    BY <1>1, <1>3 DEF Fields, Same
  <2> HIDE DEF v
  <2>2. Context(v)
    <3>1. Context(up) /\ Same(up, v) /\ DOMAIN v = Fields /\ v.file \in Seq(Byte) /\ v.hash \in Seq(Byte)
          /\ v.wire \in Seq(Symbols(up.mode, up.has, up.body, up.chunks)) /\ v.remaining \in Nat
      BY <1>2, <1>3, <2>1
    <3> QED BY ONLY <3>1, ContextKept
  <2>3. ~(Len(up.file) > MaxSize)
    BY <1>4, <1>5, SizesAreNat
  <2>4. up.file = up.body \/ Excused(up)
    <3> SUFFICES ASSUME up.file # up.body PROVE Excused(up)
      OBVIOUS
    <3>1. up.has \cap {"sha256", "md5", "sum"} = {}
      BY <1>5 DEF Verified
    <3>2. CASE up.mode = "plain"
      BY <1>2, <1>3, <2>3, <3>1, <3>2 DEF Whole, Excused
    <3>3. CASE up.mode # "plain"
      <4>1. up.final
        BY <1>5, <3>3 DEF Verified
      <4>2. up.mode = "unsigned" /\ up.harm \in {"changed", "lost", "moved"} /\ up.end = "eof"
        BY <1>2, <1>3, <3>3, <4>1 DEF Whole
      <4>3. "trailer" \notin up.has
        BY <1>2, <1>4, <1>5, <3>3, <4>1, <4>2 DEF Whole, Verified
      <4>4. up.harm = "lost" => "length" \notin up.has
        <5> SUFFICES ASSUME up.harm = "lost", "length" \in up.has PROVE FALSE
          OBVIOUS
        <5>1. Len(up.file) # Len(up.body)
          BY <1>2, <3>3, <4>1 DEF Whole
        <5>2. up.declared = Len(up.body) /\ up.declared >= 0
          BY <1>3, <1>4, <3>3
        <5> QED BY <1>5, <5>1, <5>2 DEF Verified
      <4> QED BY <3>1, <4>2, <4>3, <4>4 DEF Excused
    <3> QED BY <3>2, <3>3
  <2>5. v.file = v.body \/ Excused(v)
    BY <2>1, <2>4 DEF Same, Excused
  <2> QED BY <1>5, <2>1, <2>2, <2>5 DEF Sound, v
<1>6. CASE ~(Len(up.file) <= MaxSize /\ Verified) /\ Refuse
  <2>1. up.harm # "none" \/ TooLarge(up)
    <3> SUFFICES ASSUME up.harm = "none", ~TooLarge(up) PROVE FALSE
      OBVIOUS
    <3>1. ~(Len(up.body) > MaxSize)
      BY DEF TooLarge
    <3>2. up.mode # "plain" => up.final
      BY <1>2, <3>1 DEF Whole
    <3>3. up.file = up.body
      BY <1>2, <3>1, <3>2 DEF Whole
    <3>4. Len(up.file) <= MaxSize
      BY <1>4, <3>1, <3>3, SizesAreNat
    <3>5. up.declared >= 0 => Len(up.file) = up.declared
      BY <1>3, <3>3
    <3>6. up.trailer \in {None, up.body}
      BY <1>2 DEF Whole
    <3>7. Verified
      BY <3>2, <3>3, <3>5, <3>6 DEF Verified
    <3> QED BY <1>6, <3>4, <3>7
  <2> QED BY <1>2, <1>6, <2>1, RefusedSound DEF Refuse
<1> QED BY <1>5, <1>6 DEF Commit

-----------------------------------------------------------------------------
(* What the client sends. *)

\* The chunks of a body are pieces of it.
LEMMA ChunkingsCut ==
  ASSUME NEW body \in Seq(Byte), NEW chunks \in Chunkings(body)
  PROVE  ChunksOf(chunks, body)
<1> DEFINE n == Len(body)
<1>0. n \in Nat
  OBVIOUS
<1>1. PICK ends \in Ends(n) : chunks = Cut(body, ends)
  BY DEF Chunkings
<1>2. PICK m \in 0..n : ends \in [1..m -> 1..n]
  BY <1>1 DEF Ends
<1>3. m \in Nat /\ Len(ends) = m /\ DOMAIN ends = 1..m /\ \A i \in 1..m : ends[i] \in 1..n
  BY <1>0, <1>2
<1>4. /\ \A i \in 2..m : ends[i - 1] < ends[i]
      /\ n > 0 => ends # <<>> /\ ends[m] = n
  BY <1>1, <1>3 DEF Ends
<1>5. n > 0 => m > 0
  <2>1. m = 0 => ends = <<>>
    BY <1>2
  <2> QED BY <1>3, <1>4, <2>1
<1> HIDE DEF n
<1> DEFINE e == [i \in 0..m |-> IF i = 0 THEN 0 ELSE ends[i]]
<1>6. e \in [0..m -> Nat] /\ e[0] = 0 /\ \A i \in 1..m : e[i] = ends[i] /\ e[i] <= n
  BY <1>0, <1>3
<1>7. e[m] = n
  BY <1>0, <1>3, <1>4, <1>5, <1>6
<1>8. ASSUME NEW i \in 1..m
      PROVE  /\ e[i - 1] \in Nat /\ e[i] \in Nat /\ e[i - 1] < e[i] /\ e[i] <= n
             /\ chunks[i] = SubSeq(body, e[i - 1] + 1, e[i])
  <2>1. e[i - 1] \in Nat /\ e[i] \in Nat /\ e[i] <= n
    BY <1>3, <1>6
  <2>2. CASE i = 1
    <3>1. chunks[i] = SubSeq(body, 1, ends[i])
      BY <1>1, <1>3, <2>2 DEF Cut
    <3>2. e[i - 1] = 0 /\ e[i - 1] + 1 = 1 /\ e[i] = ends[i] /\ ends[i] \in 1..n
      BY <1>3, <1>6, <2>2
    <3> QED BY <1>0, <2>1, <3>1, <3>2
  <2>3. CASE i # 1
    <3>1. chunks[i] = SubSeq(body, ends[i - 1] + 1, ends[i])
      BY <1>1, <1>3, <2>3 DEF Cut
    <3>2. i - 1 \in 1..m /\ i \in 2..m
      BY <1>3, <2>3
    <3>3. e[i - 1] = ends[i - 1] /\ e[i] = ends[i] /\ ends[i - 1] < ends[i]
      BY <1>4, <1>6, <3>2
    <3> QED BY <2>1, <3>1, <3>3
  <2> QED BY <2>2, <2>3
<1> HIDE DEF e
<1>9. ASSUME NEW i \in 1..m
      PROVE  /\ chunks[i] \in Seq(Byte) /\ Len(chunks[i]) = e[i] - e[i - 1]
             /\ \A k \in 1..Len(chunks[i]) : body[e[i - 1] + k] = chunks[i][k]
  <2> DEFINE x == e[i - 1]
             y == e[i]
  <2>1. x \in Nat /\ y \in Nat /\ x < y /\ y <= Len(body) /\ chunks[i] = SubSeq(body, x + 1, y)
    BY <1>8 DEF n
  <2> HIDE DEF x, y
  <2>2. SubSeq(body, x + 1, y) \in Seq(Byte)
    BY <2>1
  <2>3. Len(SubSeq(body, x + 1, y)) = y - x
    BY <2>1
  <2>4. \A k \in 1..(y - x) : SubSeq(body, x + 1, y)[k] = body[x + k]
    BY <2>1
  <2> QED BY <2>1, <2>2, <2>3, <2>4 DEF x, y
<1>10. Len(chunks) = m /\ chunks \in Seq(Seq(Byte))
  <2>1. chunks = [i \in 1..m |-> chunks[i]] /\ DOMAIN chunks = 1..m
    BY <1>1, <1>3 DEF Cut
  <2> DEFINE C == Seq(Byte)
  <2>2. \A i \in 1..m : chunks[i] \in C
    BY <1>9
  <2> HIDE DEF C
  <2>3. chunks \in [1..m -> C]
    BY <2>1, <2>2
  <2>4. chunks \in Seq(C) /\ Len(chunks) = m
    BY <1>3, <2>3
  <2> QED BY <2>4 DEF C
<1>11. LiesIn(chunks, body, e, m)
  <2>1. \A i \in 1..m : e[i] = e[i - 1] + Len(chunks[i]) /\ e[i] <= e[m]
    BY <1>7, <1>8, <1>9
  <2> QED BY <1>6, <1>7, <1>9, <2>1 DEF LiesIn, n
<1>12. ASSUME NEW i \in 1..m PROVE Len(chunks[i]) > 0
  <2> DEFINE x == e[i - 1]
             y == e[i]
  <2>1. x \in Nat /\ y \in Nat /\ x < y /\ Len(chunks[i]) = y - x
    BY <1>8, <1>9
  <2> HIDE DEF x, y
  <2> QED BY <2>1
<1> QED BY <1>10, <1>11, <1>12 DEF ChunksOf

-----------------------------------------------------------------------------
(* The stream. *)

\* A piece that is a chunk.
IsChunk(p, c, g) ==
  /\ Len(p) = Len(c) + 2 /\ p[1] = Header(Len(c), g) /\ p[Len(c) + 2] = Line("crlf")
  /\ \A k \in 1..Len(c) : p[1 + k] = Data(c[k])

\* Chunks, one after another and then the final one, are a stream with a layout.
LEMMA LayoutOf ==
  ASSUME NEW S, NEW P \in Seq(Seq(S)), NEW cs, cs \in Seq(Seq(Byte)), NEW m, m = Len(cs),
         Len(P) = m + 1, \A i \in 1..m : Len(cs[i]) > 0, NEW g,
         \A i \in 1..m : IsChunk(P[i], cs[i], g[i]),
         Len(P[m + 1]) >= 1, P[m + 1][1] = Header(0, g[m + 1]),
         NEW c \in Seq(Byte), NEW e, LiesIn(cs, c, e, m)
  PROVE  Layout(FlattenSeq(P), m, e, c, g)
<1> DEFINE w == FlattenSeq(P)
<1>0. m \in Nat /\ Len(P) > 0
  OBVIOUS
<1>1. w \in Seq(S) /\ \E s : LiesIn(P, w, s, m + 1)
  BY <1>0, Flattened
<1>2. PICK s : LiesIn(P, w, s, m + 1)
  BY <1>1
<1> HIDE DEF w
<1>3. /\ s \in [0..(m + 1) -> Nat] /\ s[0] = 0 /\ \A i \in 1..(m + 1) : s[i] = s[i - 1] + Len(P[i])
      /\ Len(w) = s[m + 1]
      /\ \A i \in 1..(m + 1) : \A k \in 1..Len(P[i]) : w[s[i - 1] + k] = P[i][k]
  BY <1>2 DEF LiesIn
<1>4. /\ e \in [0..m -> Nat] /\ e[0] = 0 /\ \A i \in 1..m : e[i] = e[i - 1] + Len(cs[i])
      /\ Len(c) = e[m]
      /\ \A i \in 1..m : e[i] <= e[m] /\ \A k \in 1..Len(cs[i]) : c[e[i - 1] + k] = cs[i][k]
  BY DEF LiesIn
<1>5. ASSUME NEW i \in 1..m PROVE Len(cs[i]) \in Nat /\ Len(cs[i]) > 0 /\ IsChunk(P[i], cs[i], g[i])
  <2>1. cs[i] \in Seq(Byte)
    OBVIOUS
  <2> QED BY <2>1
<1>6. ASSUME NEW i \in 0..m PROVE s[i] \in Nat /\ e[i] \in Nat
  <2>1. i \in 0..(m + 1)
    BY <1>0
  <2>2. s[i] \in Nat
    BY <1>3, <2>1
  <2>3. e[i] \in Nat
    BY <1>4
  <2> QED BY <2>2, <2>3
<1>7. \A i \in 0..m : s[i] = e[i] + 2 * i
  <2> DEFINE Bad == {i \in 0..m : s[i] # e[i] + 2 * i}
  <2> SUFFICES ASSUME Bad # {} PROVE FALSE
    OBVIOUS
  <2>1. PICK i \in Bad : \A k \in Bad : i <= k
    <3>1. Bad \subseteq Nat
      BY <1>0
    <3> HIDE DEF Bad
    <3> QED BY <3>1, LeastNumber
  <2>2. i \in 0..m /\ s[i] # e[i] + 2 * i
    OBVIOUS
  <2>3. i # 0
    BY <1>3, <1>4, <2>2
  <2> DEFINE h == i - 1
  <2>4. h \in 0..m /\ ~(i <= h) /\ i \in 1..m /\ i \in 1..(m + 1) /\ i = h + 1
    <3>1. i \in 0..m /\ i # 0 /\ m \in Nat
      BY <1>0, <2>2, <2>3
    <3> QED BY ONLY <3>1
  <2>5. s[h] = e[h] + 2 * h
    <3>1. h \notin Bad
      <4> HIDE DEF Bad, h
      <4> QED BY <2>1, <2>4
    <3> QED BY <2>4, <3>1
  <2>6. s[i] = s[h] + Len(P[i]) /\ e[i] = e[h] + Len(cs[i])
    BY <1>3, <1>4, <2>4
  <2>7. Len(P[i]) = Len(cs[i]) + 2 /\ Len(cs[i]) \in Nat
    BY <1>5, <2>4 DEF IsChunk
  <2>8. e[h] \in Nat
    BY <1>6, <2>4
  <2> HIDE DEF h, Bad
  <2>9. s[i] = e[i] + 2 * i
    <3> DEFINE x == Len(cs[i])
               y == e[h]
    <3>1. s[i] = y + 2 * h + (x + 2) /\ e[i] = y + x /\ x \in Nat /\ y \in Nat /\ h \in Nat
      BY <1>0, <2>4, <2>5, <2>6, <2>7, <2>8
    <3> HIDE DEF x, y
    <3> QED BY <2>4, <3>1
  <2> QED BY <2>2, <2>9
<1>8. ASSUME NEW j \in 1..m
      PROVE  /\ e[j - 1] < e[j] /\ e[j] <= e[m]
             /\ w[e[j - 1] + 2 * j - 1] = Header(e[j] - e[j - 1], g[j])
             /\ \A k \in 1..(e[j] - e[j - 1]) : w[e[j - 1] + 2 * j - 1 + k] = Data(c[e[j - 1] + k])
             /\ w[e[j] + 2 * j] = Line("crlf")
  <2> DEFINE h == j - 1
             L == Len(cs[j])
             a == e[h]
  <2>1. h \in 0..m /\ j \in 1..(m + 1) /\ j \in 0..m /\ j = h + 1 /\ h \in Nat
    BY <1>0
  <2>2. /\ L \in Nat /\ L > 0 /\ a \in Nat /\ e[j] = a + L /\ s[h] = a + 2 * h
        /\ e[j] <= e[m]
    BY <1>4, <1>5, <1>6, <1>7, <2>1
  <2>3. /\ Len(P[j]) = L + 2 /\ P[j][1] = Header(L, g[j]) /\ P[j][L + 2] = Line("crlf")
        /\ \A k \in 1..L : P[j][1 + k] = Data(cs[j][k])
    BY <1>5 DEF IsChunk
  <2>4. \A k \in 1..(L + 2) : w[s[h] + k] = P[j][k]
    BY <1>3, <2>1, <2>3
  <2>5. \A k \in 1..L : c[a + k] = cs[j][k]
    BY <1>4
  <2> HIDE DEF h, L, a
  <2>6. /\ 1 \in 1..(L + 2) /\ L + 2 \in 1..(L + 2) /\ \A k \in 1..L : 1 + k \in 1..(L + 2)
        /\ a + 2 * h + 1 = a + 2 * j - 1 /\ a + 2 * h + (L + 2) = a + L + 2 * j
        /\ \A k \in 1..L : a + 2 * h + (1 + k) = a + 2 * j - 1 + k
        /\ a + L - a = L /\ a < a + L
    BY <2>1, <2>2
  <2>7. w[a + 2 * j - 1] = Header(L, g[j])
    BY <2>2, <2>3, <2>4, <2>6
  <2>8. w[a + L + 2 * j] = Line("crlf")
    BY <2>2, <2>3, <2>4, <2>6
  <2>9. ASSUME NEW k \in 1..L PROVE w[a + 2 * j - 1 + k] = Data(c[a + k])
    <3>1. 1 + k \in 1..(L + 2)
      BY <2>6
    <3>2. s[h] + (1 + k) = a + 2 * j - 1 + k
      BY <2>2, <2>6
    <3>3. w[s[h] + (1 + k)] = P[j][1 + k]
      BY <2>4, <3>1
    <3>4. P[j][1 + k] = Data(cs[j][k]) /\ c[a + k] = cs[j][k]
      BY <2>3, <2>5
    <3> QED BY <3>2, <3>3, <3>4
  <2>10. e[j - 1] = a /\ e[j] = a + L /\ e[j] - e[j - 1] = L
    <3>1. e[j - 1] = a
      BY DEF a, h
    <3> QED BY <2>2, <2>6, <3>1
  <2>11. e[j - 1] < e[j] /\ e[j] <= e[m]
    BY <2>2, <2>6, <2>10
  <2>12. w[e[j - 1] + 2 * j - 1] = Header(e[j] - e[j - 1], g[j]) /\ w[e[j] + 2 * j] = Line("crlf")
    BY <2>7, <2>8, <2>10
  <2>13. \A k \in 1..(e[j] - e[j - 1]) : w[e[j - 1] + 2 * j - 1 + k] = Data(c[e[j - 1] + k])
    BY <2>9, <2>10
  <2> QED BY <2>11, <2>12, <2>13
<1>9. e[m] + 2 * m + 1 <= Len(w) /\ w[e[m] + 2 * m + 1] = Header(0, g[m + 1]) /\ Len(w) \in Nat
  <2>1. m + 1 \in 1..(m + 1) /\ m + 1 - 1 = m /\ m \in 0..m /\ m + 1 \in 0..(m + 1)
    BY <1>0
  <2>2. P[m + 1] \in Seq(S)
    BY <2>1
  <2>3. Len(P[m + 1]) \in Nat /\ 1 \in 1..Len(P[m + 1])
    BY <2>2
  <2>4. s[m] = e[m] + 2 * m /\ s[m] \in Nat /\ s[m + 1] = s[m] + Len(P[m + 1]) /\ s[m + 1] \in Nat
    <3>1. s[m] = e[m] + 2 * m /\ s[m] \in Nat
      BY <1>6, <1>7, <2>1
    <3> DEFINE i == m + 1
    <3>2. i \in 1..(m + 1) /\ i \in 0..(m + 1) /\ i - 1 = m
      BY <2>1
    <3> HIDE DEF i
    <3>3. s[i] = s[i - 1] + Len(P[i]) /\ s[i] \in Nat
      BY <1>3, <3>2
    <3> QED BY <3>1, <3>2, <3>3 DEF i
  <2>5. w[s[m] + 1] = P[m + 1][1]
    <3> DEFINE i == m + 1
    <3>2. i \in 1..(m + 1) /\ i - 1 = m /\ 1 \in 1..Len(P[i])
      BY <2>1, <2>3
    <3> HIDE DEF i
    <3>3. w[s[i - 1] + 1] = P[i][1]
      BY <1>3, <3>2
    <3> QED BY <3>2, <3>3 DEF i
  <2> QED BY <1>3, <2>3, <2>4, <2>5
<1>10. Layout(w, m, e, c, g)
  BY <1>0, <1>4, <1>8, <1>9 DEF Layout
<1> QED BY <1>10 DEF w

\* A line is in p.
WithLine(p, t) == \E x \in 1..Len(p) : p[x].t = t

\* A line of a piece is in the stream.
LEMMA LinesFlow ==
  ASSUME NEW S, NEW P \in Seq(Seq(S)), NEW n \in 1..Len(P), NEW t, WithLine(P[n], t)
  PROVE  WithLine(FlattenSeq(P), t)
<1> DEFINE w == FlattenSeq(P)
<1>1. w \in Seq(S) /\ \E s : LiesIn(P, w, s, Len(P))
  <2>1. Len(P) > 0
    OBVIOUS
  <2> QED BY <2>1, Flattened
<1>2. PICK s : LiesIn(P, w, s, Len(P))
  BY <1>1
<1> HIDE DEF w
<1>3. PICK x \in 1..Len(P[n]) : P[n][x].t = t
  BY DEF WithLine
<1>4. P[n] \in Seq(S)
  OBVIOUS
<1>5. n - 1 \in 0..Len(P) /\ n \in 0..Len(P) /\ Len(P) \in 0..Len(P)
  OBVIOUS
<1>6. /\ s[n] = s[n - 1] + Len(P[n]) /\ s[n] <= s[Len(P)] /\ Len(w) = s[Len(P)]
      /\ w[s[n - 1] + x] = P[n][x] /\ s[n] \in Nat /\ s[n - 1] \in Nat /\ s[Len(P)] \in Nat
  <2>1. s \in [0..Len(P) -> Nat]
    BY <1>2 DEF LiesIn
  <2>2. s[n] \in Nat /\ s[n - 1] \in Nat /\ s[Len(P)] \in Nat
    BY <1>5, <2>1
  <2>3. /\ s[n] = s[n - 1] + Len(P[n]) /\ s[n] <= s[Len(P)] /\ Len(w) = s[Len(P)]
        /\ w[s[n - 1] + x] = P[n][x]
    BY <1>2, <1>3 DEF LiesIn
  <2> QED BY <2>2, <2>3
<1>7. s[n - 1] + x \in 1..Len(w)
  <2> DEFINE a == s[n - 1]
             L == Len(P[n])
             W == Len(w)
             z == s[n]
  <2>1. a \in Nat /\ L \in Nat /\ x \in 1..L /\ z = a + L /\ z <= W /\ W \in Nat
    BY <1>3, <1>4, <1>6
  <2> HIDE DEF a, L, W, z
  <2>2. a + x \in 1..W
    BY <2>1
  <2> QED BY <2>2 DEF a, W
<1>8. WithLine(w, t)
  BY <1>3, <1>6, <1>7 DEF WithLine
<1> QED BY <1>8 DEF w

\* A sequence between two symbols.
LEMMA Wrapped ==
  ASSUME NEW S, NEW x \in S, NEW y \in S, NEW d \in Seq(S)
  PROVE  LET p == <<x>> \o d \o <<y>>
         IN /\ p \in Seq(S) /\ Len(p) = Len(d) + 2 /\ p[1] = x /\ p[Len(d) + 2] = y
            /\ \A k \in 1..Len(d) : p[1 + k] = d[k]
<1> DEFINE a == <<x>>
           b == <<y>>
           q == a \o d
           p == q \o b
<1>0. a \in Seq(S) /\ Len(a) = 1 /\ a[1] = x /\ b \in Seq(S) /\ Len(b) = 1 /\ b[1] = y
  OBVIOUS
<1> HIDE DEF a, b
<1>1. /\ q \in Seq(S) /\ Len(q) = Len(d) + 1 /\ q[1] = x
      /\ \A k \in 1..Len(d) : q[1 + k] = d[k]
  <2>1. /\ q \in Seq(S) /\ Len(q) = Len(a) + Len(d)
        /\ \A k \in 1..Len(a) : q[k] = a[k]
        /\ \A k \in 1..Len(d) : q[Len(a) + k] = d[k]
    <3>1. a \in Seq(S) /\ d \in Seq(S)
      BY <1>0
    <3> QED BY ONLY <3>1, JoinOf
  <2>2. Len(d) \in Nat /\ 1 \in 1..1
    OBVIOUS
  <2> HIDE DEF q
  <2> QED BY <1>0, <2>1, <2>2
<1> HIDE DEF q
<1>2. /\ p \in Seq(S) /\ Len(p) = Len(q) + Len(b)
      /\ \A k \in 1..Len(q) : p[k] = q[k]
      /\ \A k \in 1..Len(b) : p[Len(q) + k] = b[k]
  BY <1>0, <1>1, JoinOf
<1>3. Len(d) \in Nat
  OBVIOUS
<1> HIDE DEF p
<1>4. Len(p) = Len(d) + 2 /\ p[1] = x
  BY <1>0, <1>1, <1>2, <1>3
<1>5. p[Len(d) + 2] = y
  <2>1. 1 \in 1..Len(b) /\ Len(q) + 1 = Len(d) + 2
    BY <1>0, <1>1, <1>3
  <2> QED BY <1>0, <1>2, <2>1
<1>6. ASSUME NEW k \in 1..Len(d) PROVE p[1 + k] = d[k]
  <2>1. 1 + k \in 1..Len(q)
    BY <1>1, <1>3
  <2> QED BY <1>1, <1>2, <2>1
<1> QED BY <1>2, <1>4, <1>5, <1>6 DEF p, q, a, b

\* The symbols of bytes.
LEMMA BytesAre ==
  ASSUME NEW c \in Seq(Byte)
  PROVE  /\ Len(Bytes(c)) = Len(c) /\ \A k \in 1..Len(c) : Bytes(c)[k] = Data(c[k])
         /\ \A T : {Data(b) : b \in Byte} \subseteq T => Bytes(c) \in Seq(T)
<1>1. DOMAIN c = 1..Len(c) /\ Len(c) \in Nat /\ \A k \in 1..Len(c) : c[k] \in Byte
  OBVIOUS
<1>2. Bytes(c) = [k \in 1..Len(c) |-> Data(c[k])]
  BY <1>1 DEF Bytes
<1>3. ASSUME NEW T, {Data(b) : b \in Byte} \subseteq T
      PROVE  Bytes(c) \in Seq(T) /\ Len(Bytes(c)) = Len(c)
  <2>1. \A k \in 1..Len(c) : Data(c[k]) \in T
    BY <1>1, <1>3
  <2> QED BY <1>1, <1>2, <2>1
<1>4. Len(Bytes(c)) = Len(c)
  BY <1>3
<1> QED BY <1>1, <1>2, <1>3, <1>4

\* The pieces P of a body with the m chunks cs, in symbols of S.
Pieced(mode, has, cs, S, P, m) ==
  /\ P \in Seq(Seq(S)) /\ Len(P) = m + 1
  /\ \A i \in 1..m : IsChunk(P[i], cs[i], Signed(mode, SubSeq(cs, 1, i)))
  /\ Len(P[m + 1]) >= 1 /\ P[m + 1][1] = Header(0, Signed(mode, Append(cs, <<>>)))
  /\ WithLine(P[m + 1], "blank")
  /\ "trailer" \in has => WithLine(P[m + 1], "sum")
  /\ "trailer" \in has /\ mode = "signed" => WithLine(P[m + 1], "sig")

LEMMA PiecesAre ==
  ASSUME NEW mode \in {"unsigned", "signed"}, NEW has, NEW body, NEW cs, cs \in Seq(Seq(Byte)),
         NEW S, S = Symbols(mode, has, body, cs), NEW P, P = Pieces(mode, has, body, cs), NEW m, m = Len(cs)
  PROVE  Pieced(mode, has, cs, S, P, m)
<1>0. m \in Nat /\ DOMAIN cs = 1..m /\ \A i \in 1..m : cs[i] \in Seq(Byte)
  <2> DEFINE C == Seq(Byte)
  <2>1. cs \in Seq(C)
    OBVIOUS
  <2> HIDE DEF C
  <2>2. m \in Nat /\ DOMAIN cs = 1..m /\ \A i \in 1..m : cs[i] \in C
    BY <2>1
  <2> QED BY <2>2 DEF C
<1> DEFINE H == Header(0, Signed(mode, Append(cs, <<>>)))
           sum == Checksum(body)
           sig == TrailerSig(<<Append(cs, <<>>), Checksum(body)>>)
           d == IF "trailer" \in has
                  THEN <<sum>> \o (IF mode = "signed" THEN <<sig>> ELSE <<>>)
                  ELSE <<>>
           E == <<H>> \o d \o <<Line("blank")>>
           A == [i \in DOMAIN cs |-> <<Header(Len(cs[i]), Signed(mode, SubSeq(cs, 1, i)))>>
                                       \o Bytes(cs[i]) \o <<Line("crlf")>>]
<1>1. P = A \o <<E>>
  BY DEF Pieces
<1>2. /\ {Data(b) : b \in Byte} \subseteq S /\ Line("crlf") \in S /\ Line("blank") \in S /\ H \in S
      /\ \A i \in 1..m : Header(Len(cs[i]), Signed(mode, SubSeq(cs, 1, i))) \in S
      /\ "trailer" \in has => sum \in S /\ sig \in S
  BY DEF Symbols
<1>3. /\ d \in Seq(S)
      /\ "trailer" \in has => Len(d) >= 1 /\ d[1] = sum
      /\ "trailer" \in has /\ mode = "signed" => Len(d) = 2 /\ d[2] = sig
  <2> HIDE DEF sum, sig
  <2>1. CASE "trailer" \notin has
    BY <2>1
  <2>2. CASE "trailer" \in has /\ mode = "signed"
    <3>1. d = <<sum>> \o <<sig>>
      BY <2>2
    <3> HIDE DEF d
    <3>2. sum \in S /\ sig \in S
      BY <1>2, <2>2
    <3>3. <<sum>> \o <<sig>> \in Seq(S) /\ Len(<<sum>> \o <<sig>>) = 2
          /\ (<<sum>> \o <<sig>>)[1] = sum /\ (<<sum>> \o <<sig>>)[2] = sig
      BY <3>2
    <3> QED BY <3>1, <3>3
  <2>3. CASE "trailer" \in has /\ mode # "signed"
    <3>1. d = <<sum>> \o <<>>
      BY <2>3
    <3> HIDE DEF d
    <3>2. sum \in S
      BY <1>2, <2>3
    <3>3. <<sum>> \o <<>> \in Seq(S) /\ Len(<<sum>> \o <<>>) = 1 /\ (<<sum>> \o <<>>)[1] = sum
      BY <3>2
    <3> QED BY <2>3, <3>1, <3>3
  <2> QED BY <2>1, <2>2, <2>3
<1> HIDE DEF H, d, A
<1>4. /\ E \in Seq(S) /\ Len(E) = Len(d) + 2 /\ E[1] = H /\ E[Len(d) + 2] = Line("blank")
      /\ \A k \in 1..Len(d) : E[1 + k] = d[k]
  BY <1>2, <1>3, Wrapped
<1> HIDE DEF E
<1>5. ASSUME NEW i \in 1..m
      PROVE  A[i] \in Seq(S) /\ IsChunk(A[i], cs[i], Signed(mode, SubSeq(cs, 1, i)))
  <2> DEFINE x == Header(Len(cs[i]), Signed(mode, SubSeq(cs, 1, i)))
             b == Bytes(cs[i])
  <2>1. x \in S /\ A[i] = <<x>> \o b \o <<Line("crlf")>>
    BY <1>0, <1>2 DEF A
  <2>2. b \in Seq(S) /\ Len(b) = Len(cs[i]) /\ \A k \in 1..Len(cs[i]) : b[k] = Data(cs[i][k])
    BY <1>0, <1>2, BytesAre
  <2> HIDE DEF b
  <2>3. /\ A[i] \in Seq(S) /\ Len(A[i]) = Len(b) + 2 /\ A[i][1] = x /\ A[i][Len(b) + 2] = Line("crlf")
        /\ \A k \in 1..Len(b) : A[i][1 + k] = b[k]
    <3> HIDE DEF x
    <3> QED BY <1>2, <2>1, <2>2, Wrapped
  <2> QED BY <2>2, <2>3 DEF IsChunk
<1>6. P \in Seq(Seq(S)) /\ Len(P) = m + 1 /\ P[m + 1] = E /\ \A i \in 1..m : P[i] = A[i]
  <2> DEFINE C == Seq(S)
  <2>1. A \in [1..m -> C] /\ E \in C
    BY <1>0, <1>4, <1>5 DEF A
  <2> HIDE DEF C
  <2>2. A \in Seq(C) /\ Len(A) = m
    <3>1. A \in [1..m -> C] /\ m \in Nat
      BY <1>0, <2>1
    <3> QED BY ONLY <3>1
  <2>3. <<E>> \in Seq(C) /\ Len(<<E>>) = 1 /\ <<E>>[1] = E
    BY <2>1
  <2>4. /\ A \o <<E>> \in Seq(C) /\ Len(A \o <<E>>) = m + 1 /\ (A \o <<E>>)[m + 1] = E
        /\ \A i \in 1..m : (A \o <<E>>)[i] = A[i]
    BY <1>0, <2>2, <2>3
  <2> QED BY <1>1, <2>4 DEF C
<1>7. Len(d) \in Nat
  BY <1>3
<1>8. WithLine(E, "blank")
  <2>1. Len(d) + 2 \in 1..Len(E)
    BY <1>4, <1>7
  <2> QED BY <1>4, <2>1 DEF WithLine, Line
<1>9. "trailer" \in has => WithLine(E, "sum")
  <2> SUFFICES ASSUME "trailer" \in has PROVE WithLine(E, "sum")
    OBVIOUS
  <2>1. 1 \in 1..Len(d) /\ 1 + 1 \in 1..Len(E)
    BY <1>3, <1>4, <1>7
  <2>2. E[1 + 1].t = "sum"
    BY <1>3, <1>4, <2>1 DEF Checksum
  <2> QED BY <2>1, <2>2 DEF WithLine
<1>10. "trailer" \in has /\ mode = "signed" => WithLine(E, "sig")
  <2> SUFFICES ASSUME "trailer" \in has, mode = "signed" PROVE WithLine(E, "sig")
    OBVIOUS
  <2>1. 2 \in 1..Len(d) /\ 1 + 2 \in 1..Len(E)
    <3>1. Len(d) = 2 /\ Len(E) = Len(d) + 2
      BY <1>3, <1>4
    <3> QED BY <3>1
  <2>2. E[1 + 2].t = "sig"
    BY <1>3, <1>4, <2>1 DEF TrailerSig
  <2> QED BY <2>1, <2>2 DEF WithLine
<1>11. Len(E) >= 1
  BY <1>4, <1>7
<1> QED BY <1>4, <1>5, <1>6, <1>8, <1>9, <1>10, <1>11 DEF H, Pieced

-----------------------------------------------------------------------------
(* The beginning. *)

\* The decoder before it has read anything.
Begins(u) ==
  /\ DOMAIN u = Fields /\ u.file = <<>> /\ u.hash = <<>> /\ u.prev = <<>> /\ u.remaining = 0
  /\ u.trailer = None /\ u.final = FALSE

\* At first the decoder is at the head of the stream.
LEMMA FramedFirst ==
  ASSUME NEW u, Begins(u), NEW w, NEW m, NEW e, NEW c, NEW g, Layout(w, m, e, c, g),
         Content(u, m, e, c, g), Reads(u, w, 0)
  PROVE  Framed(u)
<1>1. m \in Nat /\ e[0] = 0
  BY DEF Layout
<1> DEFINE f == <<>>
           j == 0
<1>2. Len(f) = 0 /\ 1..0 = {} /\ f \in Seq(Seq(Byte))
  OBVIOUS
<1>3. u.file = f /\ u.prev = f /\ u.remaining = 0
  BY DEF Begins
<1> HIDE DEF f
<1>4. Chain(u.prev, u.chunks, 0)
  BY <1>2, <1>3 DEF Chain
<1>5. Placed(u, w, m, e, c, g, 0, 0)
  BY <1>1, <1>2, <1>3, <1>4 DEF Placed
<1> QED BY <1>5 DEF Framed

\* It has read no chunk.
LEMMA SignedFirst ==
  ASSUME NEW u, Begins(u), u.mode # "plain" => ChunksOf(u.chunks, u.body)
  PROVE  ChunksSigned(u)
<1> SUFFICES ASSUME u.mode = "signed" PROVE \E e, j : Chained(u, e, j)
  BY DEF ChunksSigned
<1>1. u.chunks \in Seq(Seq(Byte)) /\ \E e : LiesIn(u.chunks, u.body, e, Len(u.chunks))
  BY DEF ChunksOf
<1>2. PICK e : LiesIn(u.chunks, u.body, e, Len(u.chunks))
  BY <1>1
<1> DEFINE f == <<>>
<1>3. Len(f) = 0 /\ 1..0 = {} /\ f \in Seq(Seq(Byte)) /\ Len(u.chunks) \in Nat
  BY <1>1
<1>4. u.file = f /\ u.prev = f /\ u.remaining = 0
  BY DEF Begins
<1> HIDE DEF f
<1>5. Chain(u.prev, u.chunks, 0)
  BY <1>3, <1>4 DEF Chain
<1>6. e[0] = 0
  BY <1>2 DEF LiesIn
<1>7. Chained(u, e, 0)
  BY <1>2, <1>3, <1>4, <1>5, <1>6 DEF Chained
<1> QED BY <1>7

\* So the upload is sound when it begins.
LEMMA SoundFirst ==
  ASSUME NEW u, Context(u), Begins(u), u.pc \in {"copy", "refused"},
         u.pc = "refused" => u.harm # "none" \/ TooLarge(u),
         PlainCopy(u), Framed(u), Trailing(u)
  PROVE  Sound(u)
<1>1. ChunksSigned(u)
  BY SignedFirst DEF Context
<1>2. Len(u.file) <= MaxSize + 1
  <2>1. Len(<<>>) = 0
    OBVIOUS
  <2> QED BY <2>1, SizesAreNat DEF Begins
<1>3. Copied(u)
  BY <1>1, <1>2 DEF Copied, Begins
<1> QED BY <1>3 DEF Sound

-----------------------------------------------------------------------------
(* What may arrive of a stream. *)

\* What the client sends.
Sent(u) == Pieces(u.mode, u.has, u.body, u.chunks)
Stream(u) == FlattenSeq(Sent(u))
Alphabet(u) == Symbols(u.mode, u.has, u.body, u.chunks)

\* A body with chunks.
Chunked(u) ==
  u.mode \in {"unsigned", "signed"} /\ u.body \in Seq(Byte) /\ ChunksOf(u.chunks, u.body)

\* The signature of the chunk j.
SigOf(u, j) == Signed(u.mode, IF j <= Len(u.chunks) THEN SubSeq(u.chunks, 1, j) ELSE Append(u.chunks, <<>>))

\* All of them, with that of the final chunk.
Signatures(u) == [j \in 1..(Len(u.chunks) + 1) |-> SigOf(u, j)]

LEMMA SentIs ==
  ASSUME NEW u, Chunked(u)
  PROVE  /\ Len(u.chunks) \in Nat /\ u.chunks \in Seq(Seq(Byte))
         /\ \A i \in 1..Len(u.chunks) : Len(u.chunks[i]) > 0 /\ Len(u.chunks[i]) \in Nat
         /\ Sent(u) \in Seq(Seq(Alphabet(u))) /\ Len(Sent(u)) = Len(u.chunks) + 1
         /\ \A i \in 1..Len(u.chunks) : IsChunk(Sent(u)[i], u.chunks[i], Signatures(u)[i])
         /\ Len(Sent(u)[Len(u.chunks) + 1]) >= 1
         /\ Sent(u)[Len(u.chunks) + 1][1] = Header(0, Signatures(u)[Len(u.chunks) + 1])
         /\ WithLine(Sent(u)[Len(u.chunks) + 1], "blank")
         /\ "trailer" \in u.has => WithLine(Sent(u)[Len(u.chunks) + 1], "sum")
         /\ "trailer" \in u.has /\ u.mode = "signed" => WithLine(Sent(u)[Len(u.chunks) + 1], "sig")
<1> DEFINE cs == u.chunks
           m == Len(cs)
           P == Sent(u)
           S == Alphabet(u)
           C == Seq(Byte)
           mode == u.mode
           has == u.has
           body == u.body
<1>1. cs \in Seq(C) /\ \A i \in 1..m : Len(cs[i]) > 0
  BY DEF Chunked, ChunksOf
<1>2. m \in Nat /\ \A i \in 1..m : Len(cs[i]) \in Nat
  <2> HIDE DEF C
  <2>1. m \in Nat /\ \A i \in 1..m : cs[i] \in C
    BY <1>1
  <2> QED BY <2>1 DEF C
<1>3. /\ P \in Seq(Seq(S)) /\ Len(P) = m + 1
      /\ \A i \in 1..m : IsChunk(P[i], cs[i], Signed(mode, SubSeq(cs, 1, i)))
      /\ Len(P[m + 1]) >= 1 /\ P[m + 1][1] = Header(0, Signed(mode, Append(cs, <<>>)))
      /\ WithLine(P[m + 1], "blank")
      /\ "trailer" \in has => WithLine(P[m + 1], "sum")
      /\ "trailer" \in has /\ mode = "signed" => WithLine(P[m + 1], "sig")
  <2>1. /\ mode \in {"unsigned", "signed"} /\ cs \in Seq(Seq(Byte)) /\ m = Len(cs)
        /\ S = Symbols(mode, has, body, cs) /\ P = Pieces(mode, has, body, cs)
    BY <1>1 DEF Chunked, Sent, Alphabet
  <2> HIDE DEF cs, m, P, S, mode, has, body
  <2>2. Pieced(mode, has, cs, S, P, m)
    BY ONLY <2>1, PiecesAre
  <2> QED BY <2>2 DEF Pieced
<1>4. \A i \in 1..m : Signatures(u)[i] = Signed(u.mode, SubSeq(cs, 1, i))
  BY <1>2 DEF Signatures, SigOf
<1>5. Signatures(u)[m + 1] = Signed(u.mode, Append(cs, <<>>))
  BY <1>2 DEF Signatures, SigOf
<1> HIDE DEF P, S
<1>6. \A i \in 1..m : IsChunk(P[i], cs[i], Signatures(u)[i])
  BY <1>3, <1>4
<1> QED BY <1>1, <1>2, <1>3, <1>5, <1>6 DEF P, S

\* The stream of the client is its body, in chunks.
LEMMA StreamIs ==
  ASSUME NEW u, Chunked(u), NEW e, LiesIn(u.chunks, u.body, e, Len(u.chunks))
  PROVE  Layout(Stream(u), Len(u.chunks), e, u.body, Signatures(u))
<1> DEFINE S == Alphabet(u)
           P == Sent(u)
           cs == u.chunks
           m == Len(cs)
           g == Signatures(u)
           c == u.body
<1>1. /\ P \in Seq(Seq(S)) /\ cs \in Seq(Seq(Byte)) /\ m = Len(cs) /\ Len(P) = m + 1
      /\ \A i \in 1..m : Len(cs[i]) > 0
      /\ \A i \in 1..m : IsChunk(P[i], cs[i], g[i])
      /\ Len(P[m + 1]) >= 1 /\ P[m + 1][1] = Header(0, g[m + 1])
      /\ c \in Seq(Byte) /\ LiesIn(cs, c, e, m)
  BY SentIs DEF Chunked
<1> HIDE DEF S, P, cs, m, g, c
<1>2. Layout(FlattenSeq(P), m, e, c, g)
  BY ONLY <1>1, LayoutOf
<1> QED BY <1>2 DEF P, cs, m, g, c, Stream

LEMMA StreamFlows ==
  ASSUME NEW u, Chunked(u)
  PROVE  Stream(u) \in Seq(Alphabet(u)) /\ Len(Stream(u)) \in Nat
<1> DEFINE S == Alphabet(u)
           P == Sent(u)
<1>1. P \in Seq(Seq(S)) /\ Len(P) > 0
  BY SentIs
<1> HIDE DEF S, P
<1>2. FlattenSeq(P) \in Seq(S)
  BY <1>1, Flattened
<1> QED BY <1>2 DEF P, S, Stream

\* Its signatures are those of the chunks up to each.
LEMMA ContentWhole ==
  ASSUME NEW u, Chunked(u), u.harm \in {"none", "cut"}, NEW e,
         LiesIn(u.chunks, u.body, e, Len(u.chunks))
  PROVE  Content(u, Len(u.chunks), e, u.body, Signatures(u))
<1> DEFINE m == Len(u.chunks)
           g == Signatures(u)
<1>1. m \in Nat /\ u.chunks \in Seq(Seq(Byte))
  BY SentIs
<1>2. ASSUME u.mode = "signed", NEW j \in 1..(m + 1) PROVE Chain(g[j], u.chunks, j)
  <2>1. /\ \A i \in 1..m : Chain(SubSeq(u.chunks, 1, i), u.chunks, i)
        /\ Chain(Append(u.chunks, <<>>), u.chunks, m + 1)
    BY <1>1, ChainOf
  <2>2. g[j] = SigOf(u, j)
    BY DEF Signatures
  <2>3. CASE j <= m
    <3>1. j \in 1..m
      BY <1>1, <2>3
    <3>2. SigOf(u, j) = SubSeq(u.chunks, 1, j)
      BY <1>2, <2>3 DEF SigOf, Signed
    <3> QED BY <2>1, <2>2, <3>1, <3>2
  <2>4. CASE ~(j <= m)
    <3>1. j = m + 1
      BY <1>1, <2>4
    <3>2. SigOf(u, j) = Append(u.chunks, <<>>)
      BY <1>2, <2>4 DEF SigOf, Signed
    <3> QED BY <2>1, <2>2, <3>1, <3>2
  <2> QED BY <2>3, <2>4
<1>3. ASSUME NEW j \in 1..m
      PROVE  /\ Len(u.chunks[j]) = e[j] - e[j - 1]
             /\ \A k \in 1..(e[j] - e[j - 1]) : u.chunks[j][k] = u.body[e[j - 1] + k]
  <2>1. /\ e \in [0..m -> Nat] /\ e[j] = e[j - 1] + Len(u.chunks[j])
        /\ \A k \in 1..Len(u.chunks[j]) : u.body[e[j - 1] + k] = u.chunks[j][k]
    BY DEF LiesIn
  <2>2. e[j] \in Nat /\ e[j - 1] \in Nat /\ Len(u.chunks[j]) \in Nat
    <3>1. j \in 0..m /\ j - 1 \in 0..m
      BY <1>1
    <3>2. Len(u.chunks[j]) \in Nat
      BY SentIs
    <3> QED BY <2>1, <3>1, <3>2
  <2>3. Len(u.chunks[j]) = e[j] - e[j - 1]
    BY <2>1, <2>2
  <2> QED BY <2>1, <2>3
<1> HIDE DEF m, g
<1>4. Content(u, m, e, u.body, g)
  BY <1>2, <1>3 DEF Content, m
<1> QED BY <1>4 DEF m, g

\* What arrives is in the alphabet, and the decoder begins in it.
Arrives(u) == u.wire \in Seq(Alphabet(u)) /\ Framed(u) /\ Trailing(u)

\* Its last piece has the lines that end it.
LEMMA LinesOfStream ==
  ASSUME NEW u, Chunked(u)
  PROVE  /\ WithLine(Stream(u), "blank")
         /\ "trailer" \in u.has => WithLine(Stream(u), "sum")
         /\ "trailer" \in u.has /\ u.mode = "signed" => WithLine(Stream(u), "sig")
<1> DEFINE S == Alphabet(u)
           P == Sent(u)
           n == Len(u.chunks) + 1
<1>1. /\ P \in Seq(Seq(S)) /\ n \in 1..Len(P) /\ WithLine(P[n], "blank")
      /\ "trailer" \in u.has => WithLine(P[n], "sum")
      /\ "trailer" \in u.has /\ u.mode = "signed" => WithLine(P[n], "sig")
  BY SentIs
<1> HIDE DEF S, P, n
<1>2. ASSUME NEW t, WithLine(P[n], t) PROVE WithLine(FlattenSeq(P), t)
  <2>1. P \in Seq(Seq(S)) /\ n \in 1..Len(P) /\ WithLine(P[n], t)
    BY <1>1, <1>2
  <2> QED BY ONLY <2>1, LinesFlow
<1>3. FlattenSeq(P) = Stream(u)
  BY DEF P, Stream
<1> QED BY <1>1, <1>2, <1>3

\* The whole stream arrives.
LEMMA UnharmedArrives ==
  ASSUME NEW u, Begins(u), Chunked(u), u.harm = "none", u.wire = Stream(u)
  PROVE  Arrives(u)
<1>1. PICK e : LiesIn(u.chunks, u.body, e, Len(u.chunks))
  BY DEF Chunked, ChunksOf
<1>2. Layout(Stream(u), Len(u.chunks), e, u.body, Signatures(u))
  BY <1>1, StreamIs
<1>3. Content(u, Len(u.chunks), e, u.body, Signatures(u))
  BY <1>1, ContentWhole
<1>4. Stream(u) \in Seq(Alphabet(u)) /\ Len(Stream(u)) \in Nat
  BY StreamFlows
<1>5. Reads(u, Stream(u), 0)
  BY <1>4 DEF Reads
<1>6. Framed(u)
  BY <1>2, <1>3, <1>5, FramedFirst
<1>7. Trailing(u)
  BY LinesOfStream DEF Trailing, HasLine, WithLine
<1> QED BY <1>4, <1>6, <1>7 DEF Arrives

\* The stream ends early, perhaps within a line.
LEMMA CutArrives ==
  ASSUME NEW u, Begins(u), Chunked(u), u.harm = "cut", NEW i \in Nat, i < Len(Stream(u)),
         \/ u.wire = SubSeq(Stream(u), 1, i)
         \/ u.wire = SubSeq(Stream(u), 1, i) \o <<Line("torn")>>
  PROVE  Arrives(u)
<1> DEFINE w == Stream(u)
           S == Alphabet(u)
           q == SubSeq(w, 1, i)
           torn == Line("torn")
           d == <<torn>>
<1>1. w \in Seq(S) /\ Len(w) \in Nat /\ i < Len(w)
  BY StreamFlows
<1>2. torn \in S
  BY DEF Alphabet, Symbols, Chunked
<1> HIDE DEF w, S
<1>3. q \in Seq(S) /\ Len(q) = i /\ \A x \in 1..i : q[x] = w[x]
  BY <1>1
<1> HIDE DEF torn
<1>4. d \in Seq(S) /\ Len(d) = 1 /\ d[1] = torn
  BY <1>2
<1> HIDE DEF q, d
<1>5. /\ u.wire \in Seq(S) /\ Len(u.wire) <= Len(w)
      /\ \A x \in 1..Len(u.wire) : u.wire[x] = w[x] \/ u.wire[x] = torn
  <2>1. CASE u.wire = q
    BY <1>1, <1>3, <2>1
  <2>2. CASE u.wire = q \o d
    <3>1. /\ q \o d \in Seq(S) /\ Len(q \o d) = i + 1 /\ \A x \in 1..i : (q \o d)[x] = w[x]
          /\ (q \o d)[i + 1] = torn
      <4>1. /\ q \o d \in Seq(S) /\ Len(q \o d) = Len(q) + Len(d)
            /\ \A x \in 1..Len(q) : (q \o d)[x] = q[x]
            /\ \A x \in 1..Len(d) : (q \o d)[Len(q) + x] = d[x]
        <5>1. q \in Seq(S) /\ d \in Seq(S)
          BY <1>3, <1>4
        <5> QED BY ONLY <5>1, JoinOf
      <4>2. 1 \in 1..1
        OBVIOUS
      <4> HIDE DEF w
      <4> QED BY <1>3, <1>4, <4>1, <4>2
    <3>2. \A x \in 1..(i + 1) : x \in 1..i \/ x = i + 1
      OBVIOUS
    <3> QED BY <1>1, <2>2, <3>1, <3>2
  <2> QED BY <2>1, <2>2 DEF q, d, torn, w
<1>6. PICK e : LiesIn(u.chunks, u.body, e, Len(u.chunks))
  BY DEF Chunked, ChunksOf
<1>7. Layout(w, Len(u.chunks), e, u.body, Signatures(u))
  BY <1>6, StreamIs DEF w
<1>8. Content(u, Len(u.chunks), e, u.body, Signatures(u))
  BY <1>6, ContentWhole
<1>9. Reads(u, w, 0)
  <2>1. Len(u.wire) \in Nat
    BY <1>5
  <2>2. \A x \in 1..Len(u.wire) : 0 + x = x
    BY <2>1
  <2> QED BY <1>1, <1>5, <2>1, <2>2 DEF Reads, torn
<1>10. Framed(u)
  BY <1>7, <1>8, <1>9, FramedFirst
<1>11. Trailing(u)
  BY DEF Trailing
<1> QED BY <1>5, <1>10, <1>11 DEF Arrives, S

\* A byte is another: nothing is claimed of the data then.
LEMMA ChangedArrives ==
  ASSUME NEW u, Chunked(u), u.harm = "changed", NEW i \in 1..Len(Stream(u)),
         Stream(u)[i].t = "data", NEW b \in Byte, u.wire = [Stream(u) EXCEPT ![i] = Data(b)]
  PROVE  Arrives(u)
<1> DEFINE w == Stream(u)
           S == Alphabet(u)
           y == Data(b)
<1>1. w \in Seq(S) /\ i \in 1..Len(w) /\ Len(w) \in Nat /\ w[i].t = "data" /\ u.wire = [w EXCEPT ![i] = y]
  BY StreamFlows
<1>2. y \in S
  BY DEF Alphabet, Symbols
<1>3. "trailer" \in u.has => WithLine(w, "sum")
  BY LinesOfStream
<1> HIDE DEF w, S, y
<1>4. /\ u.wire \in Seq(S) /\ Len(u.wire) = Len(w)
      /\ \A x \in 1..Len(w) : x # i => u.wire[x] = w[x]
  <2> DEFINE v == [w EXCEPT ![i] = y]
  <2>1. /\ v \in Seq(S) /\ Len(v) = Len(w)
        /\ \A x \in 1..Len(w) : x # i => v[x] = w[x]
    <3>1. w \in Seq(S) /\ i \in 1..Len(w) /\ y \in S
      BY <1>1, <1>2
    <3> QED BY ONLY <3>1
  <2> QED BY <1>1, <2>1
<1>5. Framed(u)
  BY DEF Framed
<1>6. Trailing(u)
  <2>1. ASSUME WithLine(w, "sum") PROVE HasLine(u, "sum")
    <3>1. PICK x \in 1..Len(w) : w[x].t = "sum"
      BY <2>1 DEF WithLine
    <3>2. x # i
      BY <1>1, <3>1
    <3> QED BY <1>4, <3>1, <3>2 DEF HasLine
  <2> QED BY <1>3, <2>1 DEF Trailing
<1> QED BY <1>4, <1>5, <1>6 DEF Arrives, S

\* Two chunks change places.
LEMMA MovedArrives ==
  ASSUME NEW u, Chunked(u), u.harm = "moved", NEW i \in 1..Len(u.chunks), NEW j \in 1..Len(u.chunks),
         u.wire = FlattenSeq([Sent(u) EXCEPT ![i] = Sent(u)[j], ![j] = Sent(u)[i]])
  PROVE  Arrives(u)
<1> DEFINE P == Sent(u)
           S == Alphabet(u)
           m == Len(u.chunks)
           Q == [P EXCEPT ![i] = P[j], ![j] = P[i]]
           C == Seq(S)
<1>1. P \in Seq(C) /\ Len(P) = m + 1 /\ m \in Nat /\ ("trailer" \in u.has => WithLine(P[m + 1], "sum"))
  BY SentIs
<1> HIDE DEF P, S, C, m
<1>2. i \in 1..m /\ j \in 1..m /\ i \in 1..Len(P) /\ j \in 1..Len(P) /\ m + 1 \in 1..Len(P)
      /\ i # m + 1 /\ j # m + 1
  <2>1. i \in 1..m /\ j \in 1..m
    BY DEF m
  <2> QED BY <1>1, <2>1
<1>3. Q \in Seq(C) /\ Len(Q) = m + 1 /\ Q[m + 1] = P[m + 1]
  <2>1. P[i] \in C /\ P[j] \in C
    BY <1>1, <1>2
  <2> QED BY <1>1, <1>2, <2>1
<1>4. u.wire = FlattenSeq(Q)
  BY DEF P
<1> HIDE DEF Q
<1>5. u.wire \in Seq(S)
  <2>1. Q \in Seq(Seq(S)) /\ Len(Q) > 0
    BY <1>1, <1>3 DEF C
  <2>2. FlattenSeq(Q) \in Seq(S)
    BY ONLY <2>1, Flattened
  <2> QED BY <1>4, <2>2
<1>6. "trailer" \in u.has => HasLine(u, "sum")
  <2> SUFFICES ASSUME "trailer" \in u.has PROVE HasLine(u, "sum")
    OBVIOUS
  <2> DEFINE n == m + 1
             t == "sum"
  <2>1. Q \in Seq(Seq(S)) /\ n \in 1..Len(Q) /\ WithLine(Q[n], t)
    BY <1>1, <1>3 DEF C
  <2> HIDE DEF n, t
  <2>2. WithLine(FlattenSeq(Q), t)
    BY ONLY <2>1, LinesFlow
  <2> QED BY <1>4, <2>2 DEF HasLine, WithLine, t
<1>7. Framed(u) /\ Trailing(u)
  BY <1>6 DEF Framed, Trailing
<1> QED BY <1>5, <1>7 DEF Arrives, S

-----------------------------------------------------------------------------
(* A chunk is lost. *)

\* A sequence without its element i.
LEMMA RemovedOf ==
  ASSUME NEW S, NEW s \in Seq(S), NEW i \in 1..Len(s)
  PROVE  /\ RemoveAt(s, i) \in Seq(S) /\ Len(RemoveAt(s, i)) = Len(s) - 1
         /\ \A x \in 1..(Len(s) - 1) : RemoveAt(s, i)[x] = IF x < i THEN s[x] ELSE s[x + 1]
<1> DEFINE n == Len(s)
           a == SubSeq(s, 1, i - 1)
           b == SubSeq(s, i + 1, Len(s))
<1>0. n \in Nat /\ i \in 1..n
  OBVIOUS
<1>1. a \in Seq(S) /\ Len(a) = i - 1 /\ \A x \in 1..(i - 1) : a[x] = s[x]
  OBVIOUS
<1>2. b \in Seq(S) /\ Len(b) = n - i /\ \A x \in 1..(n - i) : b[x] = s[i + x]
  BY RestOf
<1> HIDE DEF a, b
<1>3. /\ a \o b \in Seq(S) /\ Len(a \o b) = Len(a) + Len(b)
      /\ \A x \in 1..Len(a) : (a \o b)[x] = a[x]
      /\ \A x \in 1..Len(b) : (a \o b)[Len(a) + x] = b[x]
  <2>1. a \in Seq(S) /\ b \in Seq(S)
    BY <1>1, <1>2
  <2> QED BY ONLY <2>1, JoinOf
<1> HIDE DEF n
<1>4. Len(a \o b) = n - 1
  BY <1>0, <1>1, <1>2, <1>3
<1>5. ASSUME NEW x \in 1..(n - 1) PROVE (a \o b)[x] = IF x < i THEN s[x] ELSE s[x + 1]
  <2>1. CASE x < i
    <3>1. x \in 1..(i - 1)
      BY <1>0, <2>1
    <3> QED BY <1>1, <1>3, <2>1, <3>1
  <2>2. CASE ~(x < i)
    <3> DEFINE y == x - (i - 1)
    <3>1. y \in 1..(n - i) /\ (i - 1) + y = x /\ i + y = x + 1
      BY <1>0, <2>2
    <3> HIDE DEF y
    <3>2. (a \o b)[(i - 1) + y] = b[y]
      BY <1>1, <1>2, <1>3, <3>1
    <3> QED BY <1>2, <2>2, <3>1, <3>2
  <2> QED BY <2>1, <2>2
<1>6. RemoveAt(s, i) = a \o b
  BY DEF RemoveAt, a, b
<1> QED BY <1>3, <1>4, <1>5, <1>6 DEF n

\* F has what s has more than G.
LongerBy(F, G, s) == Len(F) = Len(G) + Len(s)

\* Without a chunk, the content is shorter by its length.
LEMMA ShorterBy ==
  ASSUME NEW cs, cs \in Seq(Seq(Byte)), NEW m, m = Len(cs), NEW i \in 1..m, NEW F, NEW G, NEW e, NEW d,
         LiesIn(cs, F, e, m), NEW ds, ds = RemoveAt(cs, i), NEW n, n = m - 1, LiesIn(ds, G, d, n)
  PROVE  LongerBy(F, G, cs[i])
<1> DEFINE C == Seq(Byte)
           D == Len(cs[i])
<1>1. cs \in Seq(C)
  OBVIOUS
<1> HIDE DEF C
<1>2. /\ ds \in Seq(C) /\ Len(ds) = m - 1
      /\ \A x \in 1..(m - 1) : ds[x] = IF x < i THEN cs[x] ELSE cs[x + 1]
  <2> DEFINE r == RemoveAt(cs, i)
  <2>1. /\ r \in Seq(C) /\ Len(r) = m - 1
        /\ \A x \in 1..(m - 1) : r[x] = IF x < i THEN cs[x] ELSE cs[x + 1]
    BY <1>1, RemovedOf
  <2> QED BY <2>1
<1>3. m \in Nat /\ \A x \in 1..m : cs[x] \in C
  BY <1>1
<1>4. D \in Nat /\ \A x \in 1..m : Len(cs[x]) \in Nat
  BY <1>3 DEF C
<1> HIDE DEF D
<1>5. /\ e \in [0..m -> Nat] /\ e[0] = 0 /\ \A x \in 1..m : e[x] = e[x - 1] + Len(cs[x])
      /\ Len(F) = e[m]
  BY DEF LiesIn
<1>6. /\ d \in [0..(m - 1) -> Nat] /\ d[0] = 0
      /\ \A x \in 1..(m - 1) : d[x] = d[x - 1] + Len(ds[x])
      /\ Len(G) = d[m - 1]
  BY DEF LiesIn
<1>7. \A x \in 0..(m - 1) : (x < i => d[x] = e[x]) /\ (x >= i - 1 => d[x] + D = e[x + 1])
  <2> DEFINE Good(x) == (x < i => d[x] = e[x]) /\ (x >= i - 1 => d[x] + D = e[x + 1])
             Bad == {x \in 0..(m - 1) : ~Good(x)}
  <2> SUFFICES ASSUME Bad # {} PROVE FALSE
    OBVIOUS
  <2>1. PICK x \in Bad : \A y \in Bad : x <= y
    <3>1. Bad \subseteq Nat
      BY <1>3
    <3> HIDE DEF Bad
    <3> QED BY <3>1, LeastNumber
  <2>2. x \in 0..(m - 1) /\ ~Good(x)
    OBVIOUS
  <2>3. i \in 1..m /\ D = Len(cs[i]) /\ e[i] = e[i - 1] + D /\ x + 1 \in 1..m /\ (x + 1) - 1 = x
    BY <1>3, <1>5, <2>2 DEF D
  <2>4. e[x + 1] = e[x] + Len(cs[x + 1])
    <3> DEFINE k == x + 1
    <3>1. k \in 1..m /\ k - 1 = x
      BY <2>3
    <3> HIDE DEF k
    <3>2. e[k] = e[k - 1] + Len(cs[k])
      BY <1>5, <3>1
    <3> QED BY <3>1, <3>2 DEF k
  <2>5. e[x] \in Nat /\ d[x] \in Nat /\ e[x + 1] \in Nat
    <3>1. x \in 0..m /\ x + 1 \in 0..m
      BY <1>3, <2>2
    <3> QED BY <1>5, <1>6, <2>2, <3>1
  <2>6. x < i => d[x] = e[x]
    <3> SUFFICES ASSUME x < i PROVE d[x] = e[x]
      OBVIOUS
    <3>1. CASE x = 0
      BY <1>5, <1>6, <3>1
    <3>2. CASE x # 0
      <4> DEFINE h == x - 1
      <4>1. h \in 0..(m - 1) /\ ~(x <= h) /\ h < i /\ x \in 1..(m - 1) /\ x \in 1..m
        <5> HIDE DEF Bad, Good
        <5> QED BY <1>3, <2>2, <3>2
      <4>2. d[h] = e[h]
        <5>1. h \notin Bad
          <6> HIDE DEF Bad, h
          <6> QED BY <2>1, <4>1
        <5> QED BY <4>1, <5>1
      <4>3. d[x] = d[h] + Len(ds[x]) /\ e[x] = e[h] + Len(cs[x]) /\ ds[x] = cs[x]
        BY <1>2, <1>5, <1>6, <4>1
      <4> QED BY <4>2, <4>3
    <3> QED BY <3>1, <3>2
  <2>7. x >= i - 1 => d[x] + D = e[x + 1]
    <3> SUFFICES ASSUME x >= i - 1 PROVE d[x] + D = e[x + 1]
      OBVIOUS
    <3>1. CASE x = i - 1
      <4>1. x < i /\ x + 1 = i
        BY <2>3, <3>1
      <4> QED BY <2>3, <2>4, <2>6, <4>1
    <3>2. CASE x # i - 1
      <4> DEFINE h == x - 1
      <4>1. /\ h \in 0..(m - 1) /\ ~(x <= h) /\ h >= i - 1 /\ h + 1 = x /\ x \in 1..(m - 1) /\ ~(x < i)
        <5> HIDE DEF Bad, Good
        <5> QED BY <1>3, <2>2, <2>3, <3>2
      <4>2. d[h] + D = e[h + 1]
        <5>1. h \notin Bad
          <6> HIDE DEF Bad, h
          <6> QED BY <2>1, <4>1
        <5> QED BY <4>1, <5>1
      <4>3. d[x] = d[h] + Len(ds[x]) /\ ds[x] = cs[x + 1] /\ d[h] \in Nat
        BY <1>2, <1>6, <4>1
      <4>4. Len(cs[x + 1]) \in Nat
        BY <1>4, <2>3
      <4> DEFINE L == Len(cs[x + 1])
                 p == d[h]
      <4>5. d[x] = p + L /\ p \in Nat /\ L \in Nat /\ p + D = e[x] /\ e[x + 1] = e[x] + L
        BY <2>4, <4>1, <4>2, <4>3, <4>4
      <4> HIDE DEF L, p, h
      <4> QED BY <1>4, <4>5
    <3> QED BY <3>1, <3>2
  <2> QED BY <2>2, <2>6, <2>7
<1>8. d[m - 1] + D = e[m] /\ d[m - 1] \in Nat
  <2> DEFINE k == m - 1
  <2>1. k \in 0..(m - 1) /\ k >= i - 1 /\ k + 1 = m
    BY <1>3
  <2> HIDE DEF k
  <2>2. d[k] + D = e[k + 1] /\ d[k] \in Nat
    BY <1>6, <1>7, <2>1
  <2> QED BY <2>1, <2>2 DEF k
<1> QED BY <1>5, <1>6, <1>8 DEF D, LongerBy

\* A chunk is missing: what is left is a stream too, but a shorter one.
LEMMA LostArrives ==
  ASSUME NEW u, Begins(u), Chunked(u), u.harm = "lost", NEW i \in 1..Len(u.chunks),
         u.wire = FlattenSeq(RemoveAt(Sent(u), i))
  PROVE  Arrives(u)
<1> DEFINE P == Sent(u)
           S == Alphabet(u)
           cs == u.chunks
           m == Len(cs)
           g == Signatures(u)
           Q == RemoveAt(P, i)
           ds == RemoveAt(cs, i)
           n == m - 1
           k == [x \in 1..(n + 1) |-> IF x < i THEN g[x] ELSE g[x + 1]]
           B == Seq(Byte)
           C == Seq(S)
<1>1. /\ P \in Seq(C) /\ Len(P) = m + 1 /\ cs \in Seq(B) /\ m \in Nat
      /\ \A x \in 1..m : Len(cs[x]) > 0 /\ IsChunk(P[x], cs[x], g[x])
      /\ Len(P[m + 1]) >= 1 /\ P[m + 1][1] = Header(0, g[m + 1])
      /\ "trailer" \in u.has => WithLine(P[m + 1], "sum")
  BY SentIs
<1>i. i \in 1..m
  OBVIOUS
<1>b. u.body \in B /\ \E e : LiesIn(cs, u.body, e, m)
  BY DEF Chunked, ChunksOf
<1>w. u.wire = FlattenSeq(Q)
  OBVIOUS
<1> HIDE DEF P, S, cs, g, B, C
<1>2. n \in Nat /\ m = n + 1 /\ i \in 1..Len(P) /\ i \in 1..Len(cs)
  BY <1>1, <1>i
<1>3. /\ Q \in Seq(C) /\ Len(Q) = Len(P) - 1
      /\ \A x \in 1..(Len(P) - 1) : Q[x] = IF x < i THEN P[x] ELSE P[x + 1]
  BY <1>1, <1>2, RemovedOf
<1>4. /\ ds \in Seq(B) /\ Len(ds) = Len(cs) - 1
      /\ \A x \in 1..(Len(cs) - 1) : ds[x] = IF x < i THEN cs[x] ELSE cs[x + 1]
  BY <1>1, <1>2, RemovedOf
<1> HIDE DEF Q, ds
<1>5. /\ Len(Q) = n + 1 /\ Len(ds) = n
      /\ \A x \in 1..(n + 1) : Q[x] = IF x < i THEN P[x] ELSE P[x + 1]
      /\ \A x \in 1..n : ds[x] = IF x < i THEN cs[x] ELSE cs[x + 1]
  <2>1. Len(P) - 1 = n + 1 /\ Len(cs) - 1 = n
    BY <1>1, <1>2
  <2> HIDE DEF n
  <2> QED BY <1>3, <1>4, <2>1
<1>6. \A x \in 1..(n + 1) : k[x] = IF x < i THEN g[x] ELSE g[x + 1]
  OBVIOUS
<1> HIDE DEF n, m, k
<1>7. ASSUME NEW x \in 1..n PROVE Len(ds[x]) > 0 /\ IsChunk(Q[x], ds[x], k[x])
  <2>1. x \in 1..(n + 1) /\ x \in 1..m /\ x + 1 \in 1..m
    BY <1>2
  <2> QED BY <1>1, <1>5, <1>6, <2>1
<1>8. Q[n + 1] = P[m + 1] /\ k[n + 1] = g[m + 1]
  <2>1. n + 1 \in 1..(n + 1) /\ ~(n + 1 < i) /\ n + 1 = m
    BY <1>2, <1>i
  <2> QED BY <1>5, <1>6, <2>1
<1>9. ds \in Seq(Seq(Byte)) /\ \E c \in Seq(Byte) : \E d : LiesIn(ds, c, d, Len(ds))
  <2>1. ds \in Seq(Seq(Byte))
    BY <1>4 DEF B
  <2> QED BY <2>1, Concatenated
<1>q. PICK c \in Seq(Byte) : \E d : LiesIn(ds, c, d, n)
  BY <1>5, <1>9
<1>10. PICK d : LiesIn(ds, c, d, n)
  BY <1>q
<1>11. Layout(FlattenSeq(Q), n, d, c, k)
  <2>1. /\ Q \in Seq(Seq(S)) /\ ds \in Seq(Seq(Byte)) /\ n = Len(ds) /\ Len(Q) = n + 1
        /\ \A x \in 1..n : Len(ds[x]) > 0
        /\ \A x \in 1..n : IsChunk(Q[x], ds[x], k[x])
        /\ Len(Q[n + 1]) >= 1 /\ Q[n + 1][1] = Header(0, k[n + 1])
        /\ c \in Seq(Byte) /\ LiesIn(ds, c, d, n)
    BY <1>1, <1>3, <1>5, <1>7, <1>8, <1>9, <1>10 DEF C
  <2> QED BY ONLY <2>1, LayoutOf
<1>12. Len(c) # Len(u.body)
  <2>1. PICK e : LiesIn(cs, u.body, e, m)
    BY <1>b
  <2>2. cs \in Seq(Seq(Byte)) /\ m = Len(cs) /\ i \in 1..m /\ LiesIn(cs, u.body, e, m)
        /\ ds = RemoveAt(cs, i) /\ n = m - 1 /\ LiesIn(ds, c, d, n)
    <3>1. n = m - 1 /\ ds = RemoveAt(cs, i)
      BY DEF n, ds
    <3> QED BY <1>1, <1>i, <1>10, <2>1, <3>1 DEF B, m
  <2> DEFINE F == u.body
  <2>3. LongerBy(F, c, cs[i])
    <3>1. cs \in Seq(Seq(Byte)) /\ m = Len(cs) /\ i \in 1..m /\ LiesIn(cs, F, e, m)
          /\ ds = RemoveAt(cs, i) /\ n = m - 1 /\ LiesIn(ds, c, d, n)
      BY <2>2
    <3> HIDE DEF F
    <3> QED BY ONLY <3>1, ShorterBy
  <2>4. Len(cs[i]) > 0 /\ Len(cs[i]) \in Nat
    <3>1. cs[i] \in B
      BY <1>1, <1>2
    <3> QED BY <1>1, <1>i, <3>1 DEF B
  <2>5. Len(c) \in Nat
    BY <1>10
  <2> QED BY <2>3, <2>4, <2>5 DEF LongerBy
<1>13. Content(u, n, d, c, k)
  BY <1>12 DEF Content
<1>14. u.wire \in Seq(S) /\ Len(u.wire) \in Nat
  <2>1. Q \in Seq(Seq(S)) /\ Len(Q) > 0
    BY <1>2, <1>3, <1>5 DEF C
  <2>2. FlattenSeq(Q) \in Seq(S)
    BY ONLY <2>1, Flattened
  <2> QED BY <1>w, <2>2
<1>15. Reads(u, u.wire, 0)
  BY <1>14 DEF Reads
<1>16. Framed(u)
  BY <1>w, <1>11, <1>13, <1>15, FramedFirst
<1>17. "trailer" \in u.has => HasLine(u, "sum")
  <2> SUFFICES ASSUME "trailer" \in u.has PROVE HasLine(u, "sum")
    OBVIOUS
  <2> DEFINE x == n + 1
             t == "sum"
  <2>1. Q \in Seq(Seq(S)) /\ x \in 1..Len(Q) /\ WithLine(Q[x], t)
    BY <1>1, <1>2, <1>3, <1>5, <1>8 DEF C
  <2> HIDE DEF x, t
  <2>2. WithLine(FlattenSeq(Q), t)
    BY ONLY <2>1, LinesFlow
  <2> QED BY <1>w, <2>2 DEF HasLine, WithLine, t
<1> QED BY <1>14, <1>16, <1>17 DEF Arrives, Trailing, S

-----------------------------------------------------------------------------
(* All that may arrive. *)

\* What arrives of the pieces P, which flow as w, one kind of harm at a time.
Kind(P, w, a) ==
  /\ a.harm \in {"none", "cut", "changed", "lost", "moved"}
  /\ a.end \in {"eof", "reset"} /\ (a.harm # "cut" => a.end = "eof")
  /\ a.harm = "none" => a.wire = w
  /\ a.harm = "cut" =>
       \/ \E i \in 0..(Len(w) - 1) : a.wire = SubSeq(w, 1, i)
       \/ \E i \in DOMAIN w : w[i].t # "data" /\ a.wire = SubSeq(w, 1, i - 1) \o <<Line("torn")>>
  /\ a.harm = "changed" =>
       \E i \in DOMAIN w : \E b \in Byte : w[i].t = "data" /\ a.wire = [w EXCEPT ![i] = Data(b)]
  /\ a.harm = "lost" => \E i \in 1..(Len(P) - 1) : a.wire = FlattenSeq(RemoveAt(P, i))
  /\ a.harm = "moved" =>
       \E i \in 1..(Len(P) - 1), j \in 1..(Len(P) - 1) :
         a.wire = FlattenSeq([P EXCEPT ![i] = P[j], ![j] = P[i]])

\* What arrives, as Arrivals writes it.
Arrival(harm, wire, end) == [harm |-> harm, wire |-> wire, end |-> end]

LEMMA ArrivalIs ==
  ASSUME NEW harm, NEW wire, NEW end, NEW a, a = Arrival(harm, wire, end)
  PROVE  a.harm = harm /\ a.wire = wire /\ a.end = end
  BY DEF Arrival

LEMMA ArrivalKinds ==
  ASSUME NEW P, NEW a \in Arrivals(P) PROVE Kind(P, FlattenSeq(P), a)
<1> DEFINE w == FlattenSeq(P)
           n == Len(P) - 1
           Cuts(end) == {Arrival("cut", SubSeq(w, 1, i), end) : i \in 0..(Len(w) - 1)}
           Torn == {Arrival("cut", SubSeq(w, 1, i - 1) \o <<Line("torn")>>, "eof") :
                      i \in {j \in DOMAIN w : w[j].t # "data"}}
           Changed == UNION {{Arrival("changed", [w EXCEPT ![i] = Data(b)], "eof") : b \in Byte \ {w[i].byte}} :
                               i \in {j \in DOMAIN w : w[j].t = "data"}}
           Lost == {Arrival("lost", FlattenSeq(RemoveAt(P, i)), "eof") : i \in 1..n}
           Moved == UNION {{Arrival("moved", FlattenSeq([P EXCEPT ![i] = P[j], ![j] = P[i]]), "eof") :
                              j \in {k \in 1..n : P[k] # P[i]}} : i \in 1..n}
<1>0. Arrivals(P) = {Arrival("none", w, "eof")} \cup Cuts("eof") \cup Cuts("reset") \cup Torn
                      \cup Changed \cup Lost \cup Moved
  BY Zenon DEF Arrivals, Arrival
<1>1. a \in {Arrival("none", w, "eof")} \cup Cuts("eof") \cup Cuts("reset") \cup Torn
             \cup Changed \cup Lost \cup Moved
  <2> HIDE DEF Cuts, Torn, Changed, Lost, Moved
  <2> QED BY <1>0
<1> SUFFICES Kind(P, w, a)
  OBVIOUS
<1>2. CASE a = Arrival("none", w, "eof")
  BY <1>2, ArrivalIs DEF Kind
<1>3. CASE a \in Cuts("eof") \cup Cuts("reset")
  <2>1. PICK i \in 0..(Len(w) - 1), end \in {"eof", "reset"} : a = Arrival("cut", SubSeq(w, 1, i), end)
    BY <1>3
  <2>2. a.harm = "cut" /\ a.wire = SubSeq(w, 1, i) /\ a.end = end
    <3> DEFINE x == SubSeq(w, 1, i)
    <3> HIDE DEF x
    <3>1. a = Arrival("cut", x, end)
      BY <2>1 DEF x
    <3>2. a.harm = "cut" /\ a.wire = x /\ a.end = end
      BY ONLY <3>1, ArrivalIs
    <3> QED BY <3>2 DEF x
  <2> HIDE DEF w
  <2> QED BY <2>1, <2>2 DEF Kind
<1>4. CASE a \in Torn
  <2>1. PICK i \in DOMAIN w :
          w[i].t # "data" /\ a = Arrival("cut", SubSeq(w, 1, i - 1) \o <<Line("torn")>>, "eof")
    BY <1>4
  <2>2. a.harm = "cut" /\ a.wire = SubSeq(w, 1, i - 1) \o <<Line("torn")>> /\ a.end = "eof"
    <3> DEFINE x == SubSeq(w, 1, i - 1) \o <<Line("torn")>>
    <3> HIDE DEF x
    <3>1. a = Arrival("cut", x, "eof")
      BY <2>1 DEF x
    <3>2. a.harm = "cut" /\ a.wire = x /\ a.end = "eof"
      BY ONLY <3>1, ArrivalIs
    <3> QED BY <3>2 DEF x
  <2> HIDE DEF w
  <2> QED BY <2>1, <2>2 DEF Kind
<1>5. CASE a \in Changed
  <2>1. PICK i \in DOMAIN w, b \in Byte :
          w[i].t = "data" /\ a = Arrival("changed", [w EXCEPT ![i] = Data(b)], "eof")
    <3> HIDE DEF w
    <3> QED BY <1>5, Zenon
  <2>2. a.harm = "changed" /\ a.wire = [w EXCEPT ![i] = Data(b)] /\ a.end = "eof"
    BY <2>1, ArrivalIs
  <2> HIDE DEF w
  <2> QED BY <2>1, <2>2 DEF Kind
<1>6. CASE a \in Lost
  <2>1. PICK i \in 1..n : a = Arrival("lost", FlattenSeq(RemoveAt(P, i)), "eof")
    BY <1>6
  <2>2. a.harm = "lost" /\ a.wire = FlattenSeq(RemoveAt(P, i)) /\ a.end = "eof"
    BY <2>1, ArrivalIs
  <2> HIDE DEF w
  <2> QED BY <2>1, <2>2 DEF Kind
<1>7. CASE a \in Moved
  <2>1. PICK i \in 1..n, j \in 1..n :
          a = Arrival("moved", FlattenSeq([P EXCEPT ![i] = P[j], ![j] = P[i]]), "eof")
    <3> HIDE DEF w, n
    <3> QED BY <1>7, Zenon
  <2>2. a.harm = "moved" /\ a.wire = FlattenSeq([P EXCEPT ![i] = P[j], ![j] = P[i]]) /\ a.end = "eof"
    BY <2>1, ArrivalIs
  <2> HIDE DEF w
  <2> QED BY <2>1, <2>2 DEF Kind
<1> QED BY <1>1, <1>2, <1>3, <1>4, <1>5, <1>6, <1>7

\* Whatever happens on the way, the decoder begins in what arrives.
LEMMA ChunkedArrives ==
  ASSUME NEW u, Begins(u), Chunked(u), NEW a \in Arrivals(Sent(u)), u.harm = a.harm, u.wire = a.wire
  PROVE  Arrives(u)
<1> DEFINE w == Stream(u)
           P == Sent(u)
           S == Alphabet(u)
<1>1. w \in Seq(S) /\ Len(w) \in Nat /\ DOMAIN w = 1..Len(w)
  <2>1. w \in Seq(S) /\ Len(w) \in Nat
    BY StreamFlows
  <2> HIDE DEF w, S
  <2> QED BY <2>1
<1>2. Len(u.chunks) \in Nat /\ Len(P) - 1 = Len(u.chunks)
  <2>1. Len(u.chunks) \in Nat /\ Len(P) = Len(u.chunks) + 1
    BY SentIs
  <2> HIDE DEF P
  <2> QED BY <2>1
<1>3. a \in Arrivals(P) /\ w = FlattenSeq(P)
  BY DEF Stream
<1> HIDE DEF w, P, S
<1>4. Kind(P, w, a)
  BY <1>3, ArrivalKinds
<1>5. CASE a.harm = "none"
  BY <1>4, <1>5, UnharmedArrives DEF w, Kind
<1>6. CASE a.harm = "cut"
  <2>1. PICK i \in Nat : i < Len(w) /\ (u.wire = SubSeq(w, 1, i) \/ u.wire = SubSeq(w, 1, i) \o <<Line("torn")>>)
    <3>1. CASE \E i \in 0..(Len(w) - 1) : a.wire = SubSeq(w, 1, i)
      BY <1>1, <3>1
    <3>2. CASE \E i \in DOMAIN w : a.wire = SubSeq(w, 1, i - 1) \o <<Line("torn")>>
      <4>1. PICK i \in 1..Len(w) : a.wire = SubSeq(w, 1, i - 1) \o <<Line("torn")>>
        BY <1>1, <3>2
      <4> DEFINE k == i - 1
      <4>2. k \in Nat /\ k < Len(w) /\ u.wire = SubSeq(w, 1, k) \o <<Line("torn")>>
        BY <1>1, <4>1
      <4> HIDE DEF k
      <4> QED BY <4>2
    <3> QED BY <1>4, <1>6, <3>1, <3>2 DEF Kind
  <2> QED BY <1>6, <2>1, CutArrives DEF w
<1>7. CASE a.harm = "changed"
  <2>1. PICK i \in 1..Len(w), b \in Byte : w[i].t = "data" /\ u.wire = [w EXCEPT ![i] = Data(b)]
    BY <1>1, <1>4, <1>7 DEF Kind
  <2> QED BY <1>7, <2>1, ChangedArrives DEF w
<1>8. CASE a.harm = "lost"
  <2>1. PICK i \in 1..Len(u.chunks) : u.wire = FlattenSeq(RemoveAt(P, i))
    BY <1>2, <1>4, <1>8 DEF Kind
  <2> QED BY <1>8, <2>1, LostArrives DEF P
<1>9. CASE a.harm = "moved"
  <2>1. PICK i \in 1..Len(u.chunks), j \in 1..Len(u.chunks) :
               u.wire = FlattenSeq([P EXCEPT ![i] = P[j], ![j] = P[i]])
    BY <1>2, <1>4, <1>9 DEF Kind
  <2> QED BY <1>9, <2>1, MovedArrives DEF P
<1> QED BY <1>4, <1>5, <1>6, <1>7, <1>8, <1>9 DEF Kind

\* And of a plain body likewise.
LEMMA PlainArrives ==
  ASSUME NEW u, Begins(u), u.mode = "plain", u.body \in Seq(Byte), NEW a \in Arrivals(Sent(u)),
         u.harm = a.harm, u.wire = a.wire
  PROVE  /\ u.wire \in Seq(Alphabet(u)) /\ PlainCopy(u) /\ Framed(u) /\ Trailing(u)
         /\ u.harm = "none" => Len(u.wire) = Len(u.body)
<1> DEFINE w == Bytes(u.body)
           P == <<w>>
           S == Alphabet(u)
<1>1. /\ w \in Seq(S) /\ Len(w) = Len(u.body) /\ \A k \in 1..Len(u.body) : w[k] = Data(u.body[k])
  <2>1. {Data(b) : b \in Byte} \subseteq S
    BY DEF Alphabet, Symbols
  <2> HIDE DEF S
  <2> QED BY <2>1, BytesAre
<1>2. Sent(u) = P
  BY DEF Sent, Pieces
<1> HIDE DEF S, w
<1>3. Len(P) = 1 /\ P \in Seq(Seq(S)) /\ P[1] = w
  BY <1>1
<1> HIDE DEF P
<1>4. FlattenSeq(P) = w
  <2>1. FlattenSeq(P) \in Seq(S) /\ \E s : LiesIn(P, FlattenSeq(P), s, 1)
    <3>1. Len(P) > 0 /\ P \in Seq(Seq(S))
      BY <1>3
    <3>2. FlattenSeq(P) \in Seq(S) /\ \E s : LiesIn(P, FlattenSeq(P), s, Len(P))
      BY ONLY <3>1, Flattened
    <3> QED BY <1>3, <3>2
  <2>2. PICK s : LiesIn(P, FlattenSeq(P), s, 1)
    BY <2>1
  <2> DEFINE f == FlattenSeq(P)
  <2>3. f \in Seq(S) /\ LiesIn(P, f, s, 1)
    BY <2>1, <2>2
  <2> HIDE DEF f
  <2>4. Len(w) \in Nat
    BY <1>1
  <2>5. s[0] = 0 /\ s[1] = s[0] + Len(P[1]) /\ Len(f) = s[1] /\ \A k \in 1..Len(P[1]) : f[s[0] + k] = P[1][k]
    <3> DEFINE i == 1
    <3>1. i \in 1..1 /\ i - 1 = 0
      OBVIOUS
    <3> HIDE DEF i
    <3>2. s[0] = 0 /\ s[i] = s[i - 1] + Len(P[i]) /\ Len(f) = s[1] /\ \A k \in 1..Len(P[i]) : f[s[i - 1] + k] = P[i][k]
      BY <2>3, <3>1 DEF LiesIn
    <3> QED BY <3>1, <3>2 DEF i
  <2>6. Len(f) = Len(w) /\ \A k \in 1..Len(w) : f[k] = w[k]
    BY <1>3, <2>4, <2>5
  <2>7. f = w
    <3>1. f \in Seq(S) /\ w \in Seq(S) /\ Len(f) = Len(w) /\ \A k \in 1..Len(f) : f[k] = w[k]
      BY <1>1, <2>3, <2>6
    <3> QED BY ONLY <3>1, Equal
  <2> QED BY <2>7 DEF f
<1>5. Kind(P, w, a)
  BY <1>2, <1>4, ArrivalKinds
<1>6. Len(w) \in Nat /\ DOMAIN w = 1..Len(w) /\ 1..(Len(P) - 1) = {}
  BY <1>1, <1>3
<1>7. ASSUME NEW k \in 1..Len(w) PROVE w[k].t = "data"
  <2>1. k \in 1..Len(u.body)
    BY <1>1
  <2>2. w[k] = Data(u.body[k])
    BY <1>1, <2>1
  <2> QED BY <2>2 DEF Data
<1>8. u.wire \in Seq(S)
  <2>1. CASE a.harm = "none"
    BY <1>1, <1>5, <2>1 DEF Kind
  <2>2. CASE a.harm = "cut"
    <3>1. PICK i \in 0..(Len(w) - 1) : a.wire = SubSeq(w, 1, i)
      BY <1>5, <1>6, <1>7, <2>2 DEF Kind
    <3>2. SubSeq(w, 1, i) \in Seq(S)
      BY <1>1, <1>6
    <3> QED BY <3>1, <3>2
  <2>3. CASE a.harm = "changed"
    <3>1. PICK i \in 1..Len(w), b \in Byte : a.wire = [w EXCEPT ![i] = Data(b)]
      BY <1>5, <1>6, <2>3 DEF Kind
    <3> DEFINE y == Data(b)
    <3>2. y \in S
      BY DEF S, Alphabet, Symbols
    <3> HIDE DEF y
    <3>3. [w EXCEPT ![i] = y] \in Seq(S)
      BY <1>1, <3>2
    <3> QED BY <3>1, <3>3 DEF y
  <2> QED BY <1>5, <1>6, <2>1, <2>2, <2>3 DEF Kind
<1>9. u.harm = "none" => u.wire = w
  BY <1>5 DEF Kind
<1>10. PlainCopy(u)
  <2> SUFFICES ASSUME u.harm = "none" PROVE PlainCopy(u)
    BY DEF PlainCopy
  <2> DEFINE f == <<>>
  <2>1. Len(f) = 0 /\ 1..0 = {} /\ u.file = f
    BY DEF Begins
  <2> HIDE DEF f
  <2>2. Len(u.file) + Len(u.wire) = Len(u.body)
    BY <1>1, <1>6, <1>9, <2>1
  <2>3. PieceOf(u.file, u.body, 0)
    BY <2>1 DEF PieceOf
  <2>4. ASSUME NEW x \in 1..Len(u.wire) PROVE u.wire[x] = Data(u.body[Len(u.file) + x])
    <3>1. Len(u.file) + x = x /\ x \in 1..Len(u.body)
      BY <1>1, <1>6, <1>9, <2>1
    <3> QED BY <1>1, <1>9, <3>1
  <2> QED BY <2>2, <2>3, <2>4 DEF PlainCopy
<1> QED BY <1>1, <1>8, <1>9, <1>10 DEF S, Framed, Trailing

LEMMA BodiesAreSeqs == ASSUME NEW b \in Bodies PROVE b \in Seq(Byte)
<1>1. PICK n \in 0..MaxLength : b \in [1..n -> Byte]
  BY DEF Bodies
<1>2. n \in Nat
  BY <1>1, TransferAssumption
<1> QED BY <1>1, <1>2

\* requestBody tells the decoder what the client sends.
LEMMA SendIsSound ==
  ASSUME Send PROVE Sound(up')
<1> DEFINE New(mode, body, has, chunks, a, d) ==
             [pc |-> IF d > MaxSize THEN "refused" ELSE "copy",
              mode |-> mode, has |-> has, body |-> body, chunks |-> chunks, harm |-> a.harm,
              wire |-> a.wire, end |-> a.end, declared |-> d, file |-> <<>>,
              remaining |-> 0, hash |-> <<>>, sig |-> None, prev |-> <<>>,
              trailer |-> None, final |-> FALSE]
<1>0. PICK mode \in {"plain", "unsigned", "signed"}, body \in Bodies :
        \E has \in Headers(mode), chunks \in IF mode = "plain" THEN {<<>>} ELSE Chunkings(body) :
        \E a \in Arrivals(Pieces(mode, has, body, chunks)) :
          up' = New(mode, body, has, chunks, a, Declared(mode, has, body, a))
  BY Zenon DEF Send
<1>p. PICK has \in Headers(mode), chunks \in IF mode = "plain" THEN {<<>>} ELSE Chunkings(body) :
        \E a \in Arrivals(Pieces(mode, has, body, chunks)) :
          up' = New(mode, body, has, chunks, a, Declared(mode, has, body, a))
  <2> HIDE DEF New
  <2> QED BY <1>0
<1>1. PICK a \in Arrivals(Pieces(mode, has, body, chunks)) :
        up' = New(mode, body, has, chunks, a, Declared(mode, has, body, a))
  <2> HIDE DEF New
  <2> QED BY <1>p
<1> DEFINE v == New(mode, body, has, chunks, a, Declared(mode, has, body, a))
<1>2. /\ DOMAIN v = Fields
      /\ v.pc = IF v.declared > MaxSize THEN "refused" ELSE "copy"
      /\ v.mode = mode /\ v.has = has /\ v.body = body /\ v.chunks = chunks
      /\ v.harm = a.harm /\ v.wire = a.wire /\ v.end = a.end
      /\ v.declared = Declared(mode, has, body, a)
      /\ v.file = <<>> /\ v.remaining = 0 /\ v.hash = <<>> /\ v.prev = <<>>
      /\ v.trailer = None /\ v.final = FALSE
  BY DEF Fields
<1>3. up' = v
  BY <1>1
<1> HIDE DEF v, New
<1>4. Begins(v)
  BY <1>2 DEF Begins
<1>5. /\ v.body \in Seq(Byte) /\ v.mode \in {"plain", "unsigned", "signed"}
      /\ v.mode = "plain" => "trailer" \notin v.has
  BY <1>2, BodiesAreSeqs DEF Headers
<1>6. v.mode # "plain" => ChunksOf(v.chunks, v.body)
  <2> SUFFICES ASSUME mode # "plain" PROVE ChunksOf(chunks, body)
    BY <1>2
  <2>1. body \in Seq(Byte) /\ chunks \in Chunkings(body)
    BY <1>2, <1>5
  <2> QED BY ONLY <2>1, ChunkingsCut
<1>7. a \in Arrivals(Sent(v))
  BY <1>2 DEF Sent
<1>8. /\ v.wire \in Seq(Alphabet(v)) /\ PlainCopy(v) /\ Framed(v) /\ Trailing(v)
      /\ v.mode = "plain" /\ v.harm = "none" => Len(v.wire) = Len(v.body)
  <2>1. CASE v.mode = "plain"
    BY <1>2, <1>4, <1>5, <1>7, <2>1, PlainArrives
  <2>2. CASE v.mode # "plain"
    <3>1. Chunked(v)
      BY <1>5, <1>6, <2>2 DEF Chunked
    <3>2. Arrives(v)
      BY <1>2, <1>4, <1>7, <3>1, ChunkedArrives
    <3> QED BY <2>2, <3>2 DEF Arrives, PlainCopy
  <2> QED BY <2>1, <2>2
<1>9. /\ v.harm \in {"none", "cut", "changed", "lost", "moved"}
      /\ v.end \in {"eof", "reset"} /\ (v.harm # "cut" => v.end = "eof")
  <2>1. Kind(Sent(v), FlattenSeq(Sent(v)), a)
    BY <1>7, ArrivalKinds
  <2> QED BY <1>2, <2>1 DEF Kind
<1>10. /\ v.harm = "none" => v.declared \in {-1, Len(v.body)}
       /\ v.mode # "plain" /\ "length" \in v.has => v.declared = Len(v.body)
  BY <1>2, <1>8, <1>9 DEF Declared
<1>11. Context(v)
  <2>1. v.file \in Seq(Byte) /\ v.hash \in Seq(Byte) /\ v.remaining \in Nat
    BY <1>2
  <2>2. v.wire \in Seq(Symbols(v.mode, v.has, v.body, v.chunks))
    BY <1>8 DEF Alphabet
  <2> QED BY <1>2, <1>5, <1>6, <1>9, <1>10, <2>1, <2>2 DEF Context
<1>12. v.pc = "refused" => v.harm # "none" \/ TooLarge(v)
  <2> SUFFICES ASSUME v.pc = "refused", v.harm = "none" PROVE Len(v.body) > MaxSize
    BY DEF TooLarge
  <2>1. v.declared > MaxSize
    BY <1>2
  <2>2. v.declared \in {-1, Len(v.body)}
    BY <1>10
  <2> QED BY <2>1, <2>2, SizesAreNat
<1>13. v.pc \in {"copy", "refused"}
  BY <1>2
<1>14. Sound(v)
  BY <1>4, <1>8, <1>11, <1>12, <1>13, SoundFirst
<1> QED BY <1>3, <1>14

-----------------------------------------------------------------------------
(* The theorem. *)

LEMMA UpInvInit == Init => UpInv
  BY DEF Init, NoUpload, UpInv, Sound

LEMMA UpInvNext == UpInv /\ [Next]_transferVars => UpInv'
<1> SUFFICES ASSUME UpInv, [Next]_transferVars PROVE UpInv'
  OBVIOUS
<1>0. Sound(up)
  BY DEF UpInv
<1> SUFFICES Sound(up')
  BY DEF UpInv, Sound
<1>1. CASE Send
  BY <1>1, SendIsSound
<1>2. CASE ReadPlain
  BY <1>0, <1>2, PlainIsSound
<1>3. CASE ReadHeader
  BY <1>0, <1>3, HeaderIsSound
<1>4. CASE ReadData
  BY <1>0, <1>4, DataIsSound
<1>5. CASE ReadTrailers
  BY <1>0, <1>5, TrailersAreSound
<1>6. CASE EndCopy
  BY <1>0, <1>6, EndIsSound
<1>7. CASE Commit
  BY <1>0, <1>7, CommitIsSound
<1>8. CASE Answer
  BY <1>8 DEF Answer, NoUpload, Sound
<1>9. CASE UNCHANGED up
  BY <1>0, <1>9
<1>10. CASE Download
  BY <1>9, <1>10 DEF Download, Ask, Lookup, Serve, Receive
<1>11. CASE Overwrite
  BY <1>9, <1>11 DEF Overwrite
<1> QED BY <1>1, <1>2, <1>3, <1>4, <1>5, <1>6, <1>7, <1>8, <1>9, <1>10, <1>11
        DEF Next, Upload, transferVars

LEMMA UpInvImplies == UpInv => StoredAsSent
<1> SUFFICES ASSUME UpInv PROVE StoredAsSent
  OBVIOUS
<1>1. Sound(up)
  BY DEF UpInv
<1>2. up.pc = "stored" => up.file = up.body \/ Unnoticed
  BY <1>1 DEF Sound, Excused, Unnoticed
<1>3. up.pc = "refused" => up.harm # "none" \/ TooLarge(up)
  BY <1>1 DEF Sound
<1> QED BY <1>2, <1>3 DEF StoredAsSent, TooLarge

\* "compares them once the bytes are on disk (before they become visible)"
\* (handler/common.go:387): however a body is cut into chunks and reads, and whatever is
\* done to it on its way, what the upload stores is what the client sent, unless nothing
\* in the request could show the harm; and a body that arrives unharmed and within the
\* limits is not refused.
THEOREM StoredIsWhatWasSent == TransferSpec => []StoredAsSent
<1> QED BY UpInvInit, UpInvNext, UpInvImplies, PTL DEF TransferSpec
=============================================================================
