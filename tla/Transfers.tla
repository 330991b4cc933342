------------------------------ MODULE Transfers ------------------------------
(***************************************************************************)
(* The bytes of an object on their way in and out: the body of a PUT or an  *)
(* UploadPart as the server decodes, measures and verifies it               *)
(* (handler/common.go, handler/chunked.go, storage/filesystem.go), and the  *)
(* ranges of a GET that clients put together again (handler/object.go).     *)
(*                                                                          *)
(* A body is plain, or aws-chunked with or without signatures.  On its way  *)
(* one thing may happen to it: it ends early, with or without an error, a   *)
(* byte changes, a chunk is lost, or chunks change places.  A hash is the   *)
(* bytes it is of, and a signature what it signs.  A part of a body is one  *)
(* symbol of the wire: a byte of data, or a line that is not data.  The     *)
(* objects are versions of one key, whose files never change.               *)
(***************************************************************************)
EXTENDS Integers, SequencesExt, FiniteSetsExt

CONSTANTS
  Byte,        \* bytes of data
  None,        \* no signature, trailer or ETag: none of the values that these have
  MaxSize,     \* the largest object (maxObjectSize, maxPartSize)
  MaxChunk,    \* the largest chunk (maxChunkSize)
  MaxLength,   \* bound: the longest body a client sends
  MaxBytes,    \* bound: the largest number in a Range header
  MaxUploads,  \* bound: an upload begins only before there are this many versions
  MaxObjects   \* bound: versions written

ASSUME TransferAssumption ==
  {MaxSize, MaxChunk} \subseteq Nat \ {0} /\ {MaxLength, MaxBytes, MaxUploads, MaxObjects} \subseteq Nat
ASSUME NoneAssumption == None \notin Seq(Byte) /\ None \notin Seq(Seq(Byte))

VARIABLES
  objects,   \* the versions of the key, oldest first: their bytes, which are also their ETags
  up,        \* the upload: what the client sent, and the decoder's state
  down       \* the download: the client's pieces, and the last request and answer

transferVars == <<objects, up, down>>

NoUpload == [pc |-> "idle"]
NoDownload == [pc |-> "idle", etag |-> None, got |-> <<>>, range |-> [form |-> "none"],
               if |-> "none", row |-> 0, status |-> 0, first |-> 0, sent |-> <<>>]

-----------------------------------------------------------------------------
(* What a client sends. *)

Bodies == UNION {[1..n -> Byte] : n \in 0..MaxLength}

Data(b)       == [t |-> "data", byte |-> b]
Header(n, s)  == [t |-> "head", size |-> n, sig |-> s]
Checksum(b)   == [t |-> "sum", of |-> b]
TrailerSig(s) == [t |-> "sig", of |-> s]
Line(t)       == [t |-> t]

Bytes(b) == [i \in DOMAIN b |-> Data(b[i])]

\* Where the chunks of n bytes may end, and the chunks that end there.
Ends(n) ==
  {ends \in UNION {[1..m -> 1..n] : m \in 0..n} :
     /\ \A i \in 2..Len(ends) : ends[i - 1] < ends[i]
     /\ n > 0 => ends # <<>> /\ ends[Len(ends)] = n}

Cut(b, ends) == [i \in DOMAIN ends |-> SubSeq(b, IF i = 1 THEN 1 ELSE ends[i - 1] + 1, ends[i])]

Chunkings(b) == {Cut(b, ends) : ends \in Ends(Len(b))}

\* The signature of chunk i covers the one before it, and so all chunks up to it.
Signed(mode, s) == IF mode = "signed" THEN s ELSE None

\* The pieces of a body: one per chunk, and the end of the stream.
Pieces(mode, has, body, chunks) ==
  IF mode = "plain" THEN <<Bytes(body)>>
  ELSE [i \in DOMAIN chunks |->
          <<Header(Len(chunks[i]), Signed(mode, SubSeq(chunks, 1, i)))>>
            \o Bytes(chunks[i]) \o <<Line("crlf")>>]
       \o <<<<Header(0, Signed(mode, Append(chunks, <<>>)))>>
            \o (IF "trailer" \in has
                  THEN <<Checksum(body)>>
                       \o (IF mode = "signed"
                             THEN <<TrailerSig(<<Append(chunks, <<>>), Checksum(body)>>)>> ELSE <<>>)
                  ELSE <<>>)
            \o <<Line("blank")>>>>

\* What may arrive of the pieces: how it was harmed, the wire, and how it ends.
Arrivals(pieces) ==
  LET w == FlattenSeq(pieces)
      n == Len(pieces) - 1
      Is(harm, wire, end) == [harm |-> harm, wire |-> wire, end |-> end]
  IN {Is("none", w, "eof")}
     \cup {Is("cut", SubSeq(w, 1, i), "eof") : i \in 0..(Len(w) - 1)}
     \cup {Is("cut", SubSeq(w, 1, i), "reset") : i \in 0..(Len(w) - 1)}
     \cup {Is("cut", SubSeq(w, 1, i - 1) \o <<Line("torn")>>, "eof") :
             i \in {j \in DOMAIN w : w[j].t # "data"}}
     \cup (UNION {{Is("changed", [w EXCEPT ![i] = Data(b)], "eof") : b \in Byte \ {w[i].byte}} :
                    i \in {j \in DOMAIN w : w[j].t = "data"}})
     \cup {Is("lost", FlattenSeq(RemoveAt(pieces, i)), "eof") : i \in 1..n}
     \cup (UNION {{Is("moved", FlattenSeq([pieces EXCEPT ![i] = pieces[j], ![j] = pieces[i]]), "eof") :
                     j \in {k \in 1..n : pieces[k] # pieces[i]}} : i \in 1..n})

\* Headers that speak of the content: its length, digests, and a checksum before or after it.
Headers(mode) ==
  {has \in SUBSET {"length", "sha256", "md5", "sum", "trailer"} :
     /\ mode = "plain" => "trailer" \notin has
     /\ mode # "plain" => "sha256" \notin has
     /\ ~ {"sum", "trailer"} \subseteq has
     /\ Cardinality(has) <= 2}

-----------------------------------------------------------------------------
(* requestBody, the decoder, writeAtomic and verify. *)

\* Content-Length is of the body as it is framed, X-Amz-Decoded-Content-Length of what
\* the client means to send.
Declared(mode, has, body, a) ==
  IF "length" \notin has THEN -1
  ELSE IF mode = "plain" /\ a.end = "eof" THEN Len(a.wire) ELSE Len(body)

\* requestBody, and Put's or UploadPart's check of the declared length.
Send ==
  /\ up.pc = "idle" /\ down.pc = "idle" /\ Len(objects) < MaxUploads
  /\ \E mode \in {"plain", "unsigned", "signed"}, body \in Bodies :
     \E has \in Headers(mode), chunks \in IF mode = "plain" THEN {<<>>} ELSE Chunkings(body) :
     \E a \in Arrivals(Pieces(mode, has, body, chunks)) :
       LET declared == Declared(mode, has, body, a)
       IN up' = [pc |-> IF declared > MaxSize THEN "refused" ELSE "copy",
                 mode |-> mode, has |-> has, body |-> body, chunks |-> chunks, harm |-> a.harm,
                 wire |-> a.wire, end |-> a.end, declared |-> declared, file |-> <<>>,
                 remaining |-> 0, hash |-> <<>>, sig |-> None, prev |-> <<>>,
                 trailer |-> None, final |-> FALSE]
  /\ UNCHANGED <<objects, down>>

Refuse == up' = [up EXCEPT !.pc = "refused"]

\* Faulty variant: what is above the limit is not seen.
Left_ToTheLimit == MaxSize - Len(up.file)

\* io.Copy reads through a LimitReader, which ends one byte above the limit.
Left == MaxSize + 1 - Len(up.file)
Copying == up.pc = "copy" /\ Left > 0

\* Bytes of data at the head of the wire.
Ready ==
  CHOOSE n \in 0..Len(up.wire) :
    /\ \A i \in 1..n : up.wire[i].t = "data"
    /\ n < Len(up.wire) => up.wire[n + 1].t # "data"

Taken(n) == [i \in 1..n |-> up.wire[i].byte]
Rest(n)  == SubSeq(up.wire, n + 1, Len(up.wire))

\* The copy is over at the limit, or at the end of a plain body.
EndCopy ==
  /\ up.pc = "copy"
  /\ \/ Left = 0 /\ up' = [up EXCEPT !.pc = "verify"]
     \/ /\ Left > 0 /\ up.mode = "plain" /\ up.wire = <<>>
        /\ IF up.end = "eof" THEN up' = [up EXCEPT !.pc = "verify"] ELSE Refuse
  /\ UNCHANGED <<objects, down>>

ReadPlain ==
  /\ Copying /\ up.mode = "plain"
  /\ \E n \in 1..Min({Left, Len(up.wire)}) :
       up' = [up EXCEPT !.wire = Rest(n), !.file = @ \o Taken(n)]
  /\ UNCHANGED <<objects, down>>

\* readChunkHeader: a chunk that is not the last.
ReadHeader ==
  /\ Copying /\ up.mode # "plain" /\ up.remaining = 0
  /\ IF up.wire = <<>> \/ up.wire[1].t # "head" THEN Refuse
     ELSE LET h == up.wire[1]
          IN /\ h.size > 0
             /\ IF h.size > MaxChunk \/ (up.mode = "signed" /\ h.sig = None) THEN Refuse
                ELSE up' = [up EXCEPT !.wire = Rest(1), !.remaining = h.size, !.sig = h.sig,
                                      !.hash = <<>>]
  /\ UNCHANGED <<objects, down>>

\* verifyChunk.
ChunkSigned(sig, hash) == sig = Append(up.prev, hash)

\* finishChunk: the line end after the data, and the signature.
ChunkEnds(rest, hash) ==
  /\ rest # <<>> /\ rest[1].t = "crlf"
  /\ up.mode = "signed" => ChunkSigned(up.sig, hash)

\* Read: some of a chunk's bytes, and with its last ones finishChunk.
ReadData ==
  /\ Copying /\ up.mode # "plain" /\ up.remaining > 0
  /\ \/ Ready = 0 /\ Refuse
     \/ \E n \in 1..Min({up.remaining, Left, Ready}) :
          LET hash == up.hash \o Taken(n)
              rest == Rest(n)
          IN IF n < up.remaining
               THEN up' = [up EXCEPT !.wire = rest, !.file = @ \o Taken(n),
                                     !.remaining = @ - n, !.hash = hash]
             ELSE IF ChunkEnds(rest, hash)
               THEN up' = [up EXCEPT !.wire = Tail(rest), !.file = @ \o Taken(n),
                                     !.remaining = 0, !.prev = up.sig]
             ELSE Refuse
  /\ UNCHANGED <<objects, down>>

\* The lines of a kind that follow the final chunk.
Lines(t) == {up.wire[i] : i \in {j \in DOMAIN up.wire : up.wire[j].t = t}}

\* verifyTrailer: trailers are signed with the final chunk's signature, if there are any.
TrailersSigned(sig) ==
  Lines("sum") \cup Lines("sig") = {}
    \/ Lines("sig") = {TrailerSig(<<sig, c>>) : c \in Lines("sum")}

\* readTrailers: everything up to an empty line, or to the end if that is no error.
ReadTrailers ==
  /\ Copying /\ up.mode # "plain" /\ up.remaining = 0
  /\ up.wire # <<>> /\ up.wire[1].t = "head" /\ up.wire[1].size = 0
  /\ LET sig == up.wire[1].sig
     IN IF /\ Lines("blank") # {} \/ (up.end = "eof" /\ Lines("torn") = {})
           /\ up.mode = "signed" => ChunkSigned(sig, <<>>) /\ TrailersSigned(sig)
          THEN up' = [up EXCEPT !.pc = "verify", !.final = TRUE, !.wire = <<>>,
                                !.trailer = IF Lines("sum") = {} THEN None
                                            ELSE (CHOOSE c \in Lines("sum") : TRUE).of]
          ELSE Refuse
  /\ UNCHANGED <<objects, down>>

\* payloadChecker.verify: a trailer that did not arrive is not missed.
Verified ==
  /\ up.mode # "plain" => up.final
  /\ up.declared >= 0 => Len(up.file) = up.declared
  /\ up.has \cap {"sha256", "md5", "sum"} # {} => up.file = up.body
  /\ "trailer" \in up.has /\ up.trailer # None => up.file = up.trailer

\* writeAtomic: the limit, Verify, and the rename.
Commit ==
  /\ up.pc = "verify"
  /\ IF Len(up.file) <= MaxSize /\ Verified
       THEN up' = [up EXCEPT !.pc = "stored"] /\ objects' = Append(objects, up.file)
       ELSE Refuse /\ UNCHANGED objects
  /\ UNCHANGED down

Answer ==
  /\ up.pc \in {"stored", "refused"}
  /\ up' = NoUpload
  /\ UNCHANGED <<objects, down>>

-----------------------------------------------------------------------------
(* GetObject with a Range header, and a client that puts the pieces together. *)

Numbers == 0..MaxBytes
Ranges ==
  [form : {"from"}, first : Numbers] \cup [form : {"span"}, first : Numbers, last : Numbers]
    \cup [form : {"suffix"}, length : Numbers] \cup [form : {"none", "other"}]

\* parseRange: the first and last byte, and if they are to be served; first is -1 if no
\* byte of the object is asked for.
ByteRange(s, e, ok) == [first |-> s, last |-> e, ok |-> ok]
ParseRange(r, size) ==
  CASE r.form = "suffix" ->
         IF r.length = 0 \/ size = 0 THEN ByteRange(-1, 0, FALSE)
         ELSE ByteRange(size - Min({r.length, size}), size - 1, TRUE)
    [] r.form \in {"from", "span"} ->
         IF r.form = "span" /\ r.last < r.first THEN ByteRange(0, 0, FALSE)
         ELSE IF r.first >= size THEN ByteRange(-1, 0, FALSE)
         ELSE ByteRange(r.first, IF r.form = "from" THEN size - 1 ELSE Min({r.last, size - 1}), TRUE)
    [] OTHER -> ByteRange(0, 0, FALSE)

\* A client that has a piece asks for more of the same, by If-Range or If-Match, or
\* whether there is anything new, by If-None-Match.
Ask ==
  /\ down.pc = "idle" /\ up.pc = "idle"
  /\ \E r \in Ranges, c \in {"none", "if-range", "if-match", "if-none-match"} :
       /\ (c = "none") = (down.etag = None)
       /\ c = "if-none-match" => r.form = "none"
       /\ down' = [down EXCEPT !.pc = "lookup", !.range = r, !.if = c]
  /\ UNCHANGED <<objects, up>>

\* lookupObject: the row of the latest version.
Lookup ==
  /\ down.pc = "lookup" /\ objects # <<>>
  /\ down' = [down EXCEPT !.pc = "serve", !.row = Len(objects)]
  /\ UNCHANGED <<objects, up>>

\* Faulty variant: a range is served of whatever object there is now.
Partial_OfAny(etag) == down.range.form # "none"

\* ifRangeMatches, with an ETag.
Partial(etag) == down.range.form # "none" /\ (down.if = "if-range" => down.etag = etag)

Joined(f, g) == [i \in DOMAIN f \cup DOMAIN g |-> IF i \in DOMAIN f THEN f[i] ELSE g[i]]

\* An answer with body, which is of the object from byte first on; the connection may
\* break in it.
Reply(status, first, body) ==
  \E n \in 0..Len(body) :
    LET piece == [i \in first..(first + n - 1) |-> body[i - first + 1]]
        fresh == status = 200 \/ down.etag = None
    IN down' = [down EXCEPT !.pc = "answered",
                            !.etag = IF fresh THEN objects[down.row] ELSE @,
                            !.got  = IF fresh THEN piece ELSE Joined(piece, @),
                            !.status = status, !.first = first, !.sent = body]

\* An answer without the object changes nothing that the client has.
Decline(status) ==
  down' = [down EXCEPT !.pc = "answered", !.status = status]

\* checkConditional, with ETags.
Precondition(etag) ==
  CASE down.if = "if-match" /\ down.etag # etag -> 412
    [] down.if = "if-none-match" /\ down.etag = etag -> 304
    [] OTHER -> 200

\* checkConditional, then serveRange or all of the object.
Serve ==
  /\ down.pc = "serve"
  /\ LET bytes == objects[down.row]
         range == ParseRange(down.range, Len(bytes))
     IN IF Precondition(bytes) # 200 THEN Decline(Precondition(bytes))
        ELSE IF ~ Partial(bytes) THEN Reply(200, 0, bytes)
        ELSE IF range.ok
          THEN Reply(206, range.first, SubSeq(bytes, range.first + 1, range.last + 1))
        ELSE IF range.first = -1 THEN Decline(416) ELSE Reply(200, 0, bytes)
  /\ UNCHANGED <<objects, up>>

Receive ==
  /\ down.pc = "answered"
  /\ down' = [NoDownload EXCEPT !.etag = down.etag, !.got = down.got]
  /\ UNCHANGED <<objects, up>>

\* Meanwhile another version is written.
Overwrite ==
  /\ up.pc = "idle" /\ Len(objects) < MaxObjects
  /\ \E b \in Bodies : Len(b) <= MaxSize /\ objects' = Append(objects, b)
  /\ UNCHANGED <<up, down>>

Init == objects = <<>> /\ up = NoUpload /\ down = NoDownload

Upload == Send \/ ReadPlain \/ ReadHeader \/ ReadData \/ ReadTrailers \/ EndCopy \/ Commit \/ Answer
Download == Ask \/ Lookup \/ Serve \/ Receive

Next == Upload \/ Download \/ Overwrite

TransferSpec == Init /\ [][Next]_transferVars

-----------------------------------------------------------------------------
\* Harm that nothing in the request gives away: to a plain body with no digest, and in an
\* unsigned stream without a checksum, unless a length shows that a chunk is missing.
Unnoticed ==
  /\ up.harm # "none" /\ up.end = "eof"
  /\ up.has \cap {"sha256", "md5", "sum"} = {}
  /\ \/ up.mode = "plain"
     \/ /\ up.mode = "unsigned" /\ "trailer" \notin up.has
        /\ up.harm \in {"changed", "moved"} \/ (up.harm = "lost" /\ "length" \notin up.has)

\* "compares them once the bytes are on disk (before they become visible)"
\* (handler/common.go:387) and "incomplete aws-chunked body" (handler/chunked.go:24):
\* however reads, chunks and the limit fall, what is stored is what the client sent, to
\* the last byte, and a body that arrives unharmed and within the limits is not refused.
StoredAsSent ==
  /\ up.pc = "stored" => up.file = up.body \/ Unnoticed
  /\ up.pc = "refused" =>
       \/ up.harm # "none"
       \/ Len(up.body) > MaxSize
       \/ \E i \in DOMAIN up.chunks : Len(up.chunks[i]) > MaxChunk

\* The positions a range asks for.
Asked(r, size) ==
  {i \in 0..(size - 1) : CASE r.form = "from" -> i >= r.first
                           [] r.form = "span" -> i >= r.first /\ i <= r.last
                           [] r.form = "suffix" -> i >= size - r.length}

\* Range, If-Range and If-Match (handler/object.go:391, handler/object.go:218,
\* handler/s3_compat.go:282): an answer has exactly the bytes of the object that were
\* asked for, 416 only if it has none of them, and the pieces a client puts together over
\* several requests are of one object, whatever is written in between.
PiecesAreOfOneObject ==
  /\ \A i \in DOMAIN down.got : i < Len(down.etag) /\ down.got[i] = down.etag[i + 1]
  /\ down.pc = "answered" =>
       LET bytes == objects[down.row]
       IN /\ down.status = 200 => down.sent = bytes
          /\ down.status = 416 => Asked(down.range, Len(bytes)) = {}
          /\ down.status = 206 =>
               /\ Asked(down.range, Len(bytes))
                    = down.first..(down.first + Len(down.sent) - 1)
               /\ \A i \in DOMAIN down.sent : down.sent[i] = bytes[down.first + i]
=============================================================================
