---------------------------- MODULE Relay_proofs ----------------------------
(***************************************************************************)
(* The answer that reaches the client implements the abstract one of the   *)
(* module Answer, for any pieces, answers of any length and any reads.     *)
(***************************************************************************)
EXTENDS Relay, SequenceTheorems, TLAPS

-----------------------------------------------------------------------------
(* Facts about sequences of pieces.                                        *)

(* s is how the words of the backend begin.                                *)
Agrees(s) == Len(s) <= Len(said) /\ \A i \in 1 .. Len(s) : s[i] = said[i]

LEMMA AgreesIsPrefix ==
  ASSUME NEW S, NEW s \in Seq(S), NEW t \in Seq(S), Len(s) <= Len(t),
         \A i \in 1 .. Len(s) : s[i] = t[i]
  PROVE  IsPrefix(s, t)
<1>1. Len(s) \in Nat /\ Len(t) \in Nat
  BY LenProperties
<1>2. \A i \in 1 .. Len(s) : s[i] \in S /\ t[i] \in S
  BY <1>1, ElementOfSeq
<1>3. /\ SubSeq(s, 1, Len(s)) \in Seq(S) /\ SubSeq(t, 1, Len(s)) \in Seq(S)
      /\ Len(SubSeq(s, 1, Len(s))) = Len(s) /\ Len(SubSeq(t, 1, Len(s))) = Len(s)
      /\ \A i \in 1 .. Len(s) : SubSeq(s, 1, Len(s))[i] = s[i] /\ SubSeq(t, 1, Len(s))[i] = t[i]
  BY <1>1, <1>2, SubSeqProperties
<1>4. SubSeq(s, 1, Len(s)) = SubSeq(t, 1, Len(s))
  BY <1>3, SeqEqual
<1> QED
  BY <1>4 DEF IsPrefix

LEMMA PrefixOfConcat ==
  ASSUME NEW S, NEW s \in Seq(S), NEW t \in Seq(S)
  PROVE  IsPrefix(s, s \o t)
<1>1. /\ s \o t \in Seq(S) /\ Len(s) \in Nat /\ Len(t) \in Nat /\ Len(s \o t) = Len(s) + Len(t)
      /\ \A i \in 1 .. Len(s) : (s \o t)[i] = s[i]
  BY ConcatProperties, LenProperties
<1>2. Len(s) <= Len(s \o t) /\ \A i \in 1 .. Len(s) : s[i] = (s \o t)[i]
  BY <1>1
<1> DEFINE u == s \o t
<1> HIDE DEF u
<1>3. u \in Seq(S) /\ Len(s) <= Len(u) /\ \A i \in 1 .. Len(s) : s[i] = u[i]
  BY <1>1, <1>2 DEF u
<1>4. IsPrefix(s, u)
  BY <1>3, AgreesIsPrefix
<1> QED
  BY <1>4 DEF u

(* What has not been read.                                                 *)
LEMMA UnreadProperties ==
  ASSUME RelayTypeOK
  PROVE  /\ Unread \in Seq(Pieces) /\ Len(Unread) = Len(said) - read
         /\ \A i \in 1 .. Len(Unread) : Unread[i] = said[read + i]
<1>1. said \in Seq(Pieces) /\ Len(said) \in Nat /\ read \in 0 .. Len(said)
  BY LenProperties DEF RelayTypeOK
<1>2. \A i \in read + 1 .. Len(said) : said[i] \in Pieces
  BY <1>1, ElementOfSeq
<1>3. /\ SubSeq(said, read + 1, Len(said)) \in Seq(Pieces)
      /\ Len(SubSeq(said, read + 1, Len(said)))
           = IF read + 1 <= Len(said) THEN Len(said) - (read + 1) + 1 ELSE 0
      /\ \A i \in 1 .. Len(said) - (read + 1) + 1 :
           SubSeq(said, read + 1, Len(said))[i] = said[(read + 1) + i - 1]
  BY <1>1, <1>2, SubSeqProperties
<1> QED
  BY <1>1, <1>3 DEF Unread

(* What a read of k pieces returns.                                        *)
LEMMA ReadProperties ==
  ASSUME RelayTypeOK, NEW k \in 0 .. Len(Unread)
  PROVE  /\ SubSeq(Unread, 1, k) \in Seq(Pieces) /\ Len(SubSeq(Unread, 1, k)) = k
         /\ \A i \in 1 .. k : SubSeq(Unread, 1, k)[i] = said[read + i]
<1>1. /\ Unread \in Seq(Pieces) /\ Len(Unread) \in Nat
      /\ \A i \in 1 .. Len(Unread) : Unread[i] = said[read + i] /\ Unread[i] \in Pieces
  BY UnreadProperties, LenProperties, ElementOfSeq
<1>2. /\ SubSeq(Unread, 1, k) \in Seq(Pieces)
      /\ Len(SubSeq(Unread, 1, k)) = IF 1 <= k THEN k - 1 + 1 ELSE 0
      /\ \A i \in 1 .. k - 1 + 1 : SubSeq(Unread, 1, k)[i] = Unread[1 + i - 1]
  BY <1>1, SubSeqProperties
<1> QED
  BY <1>1, <1>2

(* The next piece.                                                         *)
LEMMA HeadProperties ==
  ASSUME RelayTypeOK, Unread # <<>>
  PROVE  /\ Len(Unread) >= 1 /\ read < Len(said)
         /\ Head(Unread) \in Pieces /\ Head(Unread) = said[read + 1]
         /\ <<Head(Unread)>> \in Seq(Pieces) /\ Len(<<Head(Unread)>>) = 1
         /\ <<Head(Unread)>>[1] = said[read + 1]
<1>1. /\ Unread \in Seq(Pieces) /\ Len(Unread) \in Nat \ {0} /\ Len(Unread) = Len(said) - read
      /\ Unread[1] = said[read + 1] /\ Head(Unread) \in Pieces
  BY UnreadProperties, EmptySeq, HeadTailProperties
<1>2. said \in Seq(Pieces) /\ Len(said) \in Nat /\ read \in 0 .. Len(said)
  BY LenProperties DEF RelayTypeOK
<1>3. Head(Unread) = Unread[1]
  BY <1>1
<1> QED
  BY <1>1, <1>2, <1>3

(* Nothing unread means that all has been read.                            *)
LEMMA AllRead ==
  ASSUME RelayTypeOK, Unread = <<>>
  PROVE  read = Len(said)
<1>1. Len(said) - read = 0 /\ Len(said) \in Nat /\ read \in 0 .. Len(said)
  BY UnreadProperties, EmptySeq, LenProperties DEF RelayTypeOK
<1> QED
  BY <1>1

-----------------------------------------------------------------------------
(* The inductive invariant.                                                *)

Passed == heard \o out

(* A handler at the label has the route it belongs to and nothing done     *)
(* before its turn.                                                        *)
Control ==
  /\ at = "send" => said = <<>> /\ backend.status = "none"
  /\ at \in {"send", "parse"} => heard = <<>> /\ out = <<>> /\ read = 0
  /\ at = "stream" => route = "sse"
  /\ at = "copy" => route \in {"plain", "sse"}
  /\ at = "translate" => route = "translate"
  /\ at = "parse" => route = "oneshot" /\ status = backend.status
  /\ backend.sized => route \in {"plain", "sse"}

(* While the connection is open nothing of what was read is missing from   *)
(* what was handed on, or nothing more will be read.                       *)
Consistent ==
  /\ Agrees(heard)
  /\ conn = "open" => Agrees(Passed)
  /\ conn = "open" /\ at \in {"stream", "copy", "translate"} =>
       Len(Passed) = read \/ (backend.end = "broken" /\ read = Len(said))

RelayInv == RelayTypeOK /\ Control /\ Consistent

LEMMA PassedType ==
  ASSUME RelayTypeOK
  PROVE  /\ Passed \in Seq(Pieces) /\ Len(Passed) \in Nat
         /\ Len(said) \in Nat /\ said \in Seq(Pieces) /\ read \in 0 .. Len(said)
BY ConcatProperties, LenProperties DEF RelayTypeOK, Passed

(* Handing on what comes next.                                             *)
LEMMA AgreesWithNext ==
  ASSUME RelayTypeOK, Agrees(Passed), Len(Passed) = read,
         NEW data \in Seq(Pieces), Len(data) <= Len(said) - read,
         \A i \in 1 .. Len(data) : data[i] = said[read + i]
  PROVE  Agrees(Passed \o data) /\ Len(Passed \o data) = read + Len(data)
<1>1. /\ Passed \in Seq(Pieces) /\ Len(said) \in Nat /\ read \in 0 .. Len(said) /\ Len(data) \in Nat
  BY PassedType, LenProperties
<1>2. /\ Len(Passed \o data) = read + Len(data)
      /\ \A i \in 1 .. read + Len(data) :
           (Passed \o data)[i] = IF i <= read THEN Passed[i] ELSE data[i - read]
  BY <1>1, ConcatProperties
<1>3. ASSUME NEW i \in 1 .. read + Len(data) PROVE (Passed \o data)[i] = said[i]
  <2>1. CASE i <= read
    BY <1>1, <1>2, <2>1 DEF Agrees
  <2>2. CASE i > read
    <3>1. i - read \in 1 .. Len(data) /\ read + (i - read) = i
      BY <1>1, <2>2
    <3> QED
      BY <1>1, <1>2, <2>2, <3>1
  <2> QED
    BY <1>1, <2>1, <2>2
<1> QED
  BY <1>1, <1>2, <1>3 DEF Agrees

(* A write to the client: all that was handed on and the new data arrive,  *)
(* or nothing does, and the connection does not come back.                 *)
LEMMA WriteArrives ==
  ASSUME RelayInv, NEW data \in Seq(Pieces), Write(data), said' = said,
         conn = "open" => Agrees(Passed \o data)
  PROVE  /\ out' = <<>> /\ heard' \in Seq(Pieces) /\ conn' \in {"open", "expired", "gone"}
         /\ conn = "open" => heard' = Passed \o data /\ conn' = "open" /\ Passed' = Passed \o data
         /\ conn # "open" => heard' = heard /\ conn' # "open"
         /\ Agrees(heard)' /\ (conn' = "open" => Agrees(Passed)')
         /\ IsPrefix(heard, heard')
<1>1. heard \in Seq(Pieces) /\ out \in Seq(Pieces) /\ conn \in {"open", "expired", "gone"}
  BY DEF RelayInv, RelayTypeOK
<1>2. heard \o (out \o data) = Passed \o data /\ out \o data \in Seq(Pieces)
  BY <1>1, ConcatAssociative, ConcatProperties DEF Passed
<1>3. /\ out' = <<>>
      /\ heard' = IF conn = "open" THEN Passed \o data ELSE heard
      /\ conn' \in IF conn = "expired" THEN {"expired", "gone"} ELSE {conn}
  BY <1>2 DEF Write, Flush
<1>4. Passed \o data \in Seq(Pieces) /\ IsPrefix(heard, Passed \o data)
  BY <1>1, <1>2, PrefixOfConcat, ConcatProperties
<1>5. IsPrefix(heard, heard)
  BY <1>1, AgreesIsPrefix, LenProperties
<1>6. heard' \in Seq(Pieces)
  BY <1>1, <1>3, <1>4
<1>7. Passed' = heard'
  BY <1>3, <1>6, ConcatEmptySeq DEF Passed
<1>8. Agrees(heard)' /\ (conn' = "open" => Agrees(Passed)')
  <2>1. CASE conn = "open"
    BY <1>3, <1>7, <2>1 DEF Agrees
  <2>2. CASE conn # "open"
    BY <1>1, <1>3, <2>2 DEF RelayInv, Consistent, Agrees
  <2> QED
    BY <2>1, <2>2
<1> QED
  BY <1>1, <1>3, <1>4, <1>5, <1>6, <1>7, <1>8

(* Data that is kept in the server's buffer.                               *)
LEMMA BufferedKept ==
  ASSUME RelayInv, NEW data \in Seq(Pieces), WriteBuffered(data), said' = said,
         conn = "open" => Agrees(Passed \o data)
  PROVE  /\ out' \in Seq(Pieces) /\ Passed' = Passed \o data
         /\ Agrees(heard)' /\ (conn' = "open" => Agrees(Passed)')
<1>1. heard \in Seq(Pieces) /\ out \in Seq(Pieces)
  BY DEF RelayInv, RelayTypeOK
<1>2. heard \o (out \o data) = Passed \o data /\ out \o data \in Seq(Pieces)
  BY <1>1, ConcatAssociative, ConcatProperties DEF Passed
<1>3. Passed' = Passed \o data /\ heard' = heard /\ conn' = conn /\ out' = out \o data
  BY <1>2 DEF WriteBuffered, Passed
<1> QED
  BY <1>2, <1>3 DEF RelayInv, Consistent, Agrees

-----------------------------------------------------------------------------
(* One step.                                                               *)

(* The words of the backend that the client is to hear.                    *)
Source == IF route = "oneshot" /\ backend.status = "ok" THEN FirstOf(said) ELSE said

(* A step of the handler, as the client sees it.                           *)
Hears ==
  /\ Source' = Source
  /\ IsPrefix(heard, heard') /\ IsPrefix(heard', Source)
  /\ Told' = "whole" => heard' = Source \/ Done \in ToSet(heard')

(* A read of a body that is handed on while the connection is open.        *)
LEMMA ReadAndPass ==
  ASSUME RelayInv, at \in {"stream", "copy", "translate"}, NEW data \in Seq(Pieces),
         Len(data) <= Len(said) - read, Len(data) >= 1, Len(data) \in Nat,
         \A i \in 1 .. Len(data) : data[i] = said[read + i]
  PROVE  conn = "open" =>
           Agrees(Passed \o data) /\ Len(Passed \o data) = read + Len(data)
<1> SUFFICES ASSUME conn = "open"
             PROVE  Agrees(Passed \o data) /\ Len(Passed \o data) = read + Len(data)
  OBVIOUS
<1>1. RelayTypeOK /\ Agrees(Passed) /\ Len(said) \in Nat /\ read \in 0 .. Len(said)
  BY PassedType DEF RelayInv, Consistent
<1>2. Len(Passed) = read
  BY <1>1 DEF RelayInv, Consistent
<1> QED
  BY <1>1, <1>2, AgreesWithNext

(* The end of the body: if it is the backend's own, and the connection is  *)
(* open, all of it was handed on.                                          *)
LEMMA BodyOverProperties ==
  ASSUME RelayInv, at \in {"stream", "copy", "translate", "parse"}, BodyOver
  PROVE  /\ backend' \in BackendType /\ UNCHANGED <<route, said>>
         /\ backend'.status = backend.status /\ backend'.sized = backend.sized
         /\ read' = Len(said) /\ read' \in 0 .. Len(said)
         /\ conn = "open" /\ at # "parse" =>
              \/ Len(Passed) = read' /\ Passed = said
              \/ backend'.end = "broken"
<1>1. /\ RelayTypeOK /\ backend \in BackendType /\ Len(said) \in Nat /\ read \in 0 .. Len(said)
      /\ Passed \in Seq(Pieces) /\ said \in Seq(Pieces) /\ UNCHANGED <<route, said>>
  BY PassedType DEF RelayInv, RelayTypeOK, BodyOver
<1>2. CASE AtEOF /\ UNCHANGED <<backend, read>>
  <2>1. read = Len(said) /\ backend.end = "eof"
    BY <1>1, <1>2, AllRead DEF AtEOF
  <2>2. ASSUME conn = "open", at # "parse" PROVE Len(Passed) = read /\ Passed = said
    <3>1. Len(Passed) = read /\ Agrees(Passed)
      BY <2>1, <2>2 DEF RelayInv, Consistent
    <3> QED
      BY <1>1, <2>1, <3>1, SeqEqual DEF Agrees
  <2> QED
    BY <1>1, <1>2, <2>1, <2>2
<1>3. CASE Abandon
  <2> DEFINE new == [backend EXCEPT !.end = "broken"]
  <2>1. /\ new \in BackendType /\ new.end = "broken"
        /\ new.status = backend.status /\ new.sized = backend.sized
    BY <1>1 DEF BackendType
  <2>2. backend' = new /\ read' = Len(said)
    BY <1>3 DEF Abandon
  <2> HIDE DEF new
  <2> QED
    BY <1>1, <2>1, <2>2
<1> QED
  BY <1>2, <1>3 DEF BodyOver

(* What the handler does is seen as it is.                                 *)
LEMMA SeenAsHeard ==
  ASSUME RelayInv, RelayTypeOK', Agrees(heard)', IsPrefix(heard, heard'),
         at \in {"stream", "copy", "translate"}, UNCHANGED <<route, said>>,
         backend'.status = backend.status,
         Told' = "whole" => heard' = said \/ Done \in ToSet(heard')
  PROVE  Hears
<1>1. route # "oneshot"
  BY DEF RelayInv, Control
<1>2. Source = said /\ Source' = said
  BY <1>1 DEF Source
<1>3. IsPrefix(heard', said)
  <2>1. heard' \in Seq(Pieces) /\ said \in Seq(Pieces)
    BY DEF RelayInv, RelayTypeOK
  <2> QED
    BY <2>1, AgreesIsPrefix DEF Agrees
<1> QED
  BY <1>2, <1>3 DEF Hears

LEMMA StreamReadHears ==
  ASSUME RelayInv, NEW k \in 1 .. MaxSaid, StreamRead(k)
  PROVE  RelayInv' /\ Hears
<1> DEFINE data == SubSeq(Unread, 1, k)
<1>1. /\ at = "stream" /\ k \in 1 .. Len(Unread) /\ read' = read + k
      /\ Write(data) /\ at' \in {"stream", "copy"}
      /\ UNCHANGED <<route, backend, said, status, ended>>
  BY DEF StreamRead, Take, backendVars
<1>2. /\ RelayTypeOK /\ Control /\ Consistent /\ Len(said) \in Nat /\ read \in 0 .. Len(said)
      /\ Len(Unread) = Len(said) - read
  BY PassedType, UnreadProperties DEF RelayInv
<1>3. /\ data \in Seq(Pieces) /\ Len(data) = k
      /\ \A i \in 1 .. k : data[i] = said[read + i]
  BY <1>1, <1>2, ReadProperties
<1> HIDE DEF data
<1>4. conn = "open" => Agrees(Passed \o data) /\ Len(Passed \o data) = read + k
  BY <1>1, <1>2, <1>3, ReadAndPass
<1>5. /\ out' = <<>> /\ heard' \in Seq(Pieces) /\ conn' \in {"open", "expired", "gone"}
      /\ conn = "open" => Passed' = Passed \o data
      /\ conn # "open" => conn' # "open"
      /\ Agrees(heard)' /\ (conn' = "open" => Agrees(Passed)')
      /\ IsPrefix(heard, heard')
  BY <1>1, <1>3, <1>4, WriteArrives
<1>6. RelayTypeOK'
  BY <1>1, <1>2, <1>5, EmptySeq DEF RelayTypeOK, Labels
<1>7. Control'
  BY <1>1, <1>2 DEF Control
<1>8. Consistent'
  BY <1>1, <1>2, <1>4, <1>5 DEF Consistent
<1>9. Told' = "nothing"
  BY <1>1, <1>2 DEF Told, RelayTypeOK
<1>10. Hears
  BY <1>1, <1>5, <1>6, <1>9, SeenAsHeard
<1> QED
  BY <1>6, <1>7, <1>8, <1>10 DEF RelayInv

LEMMA CopyReadHears ==
  ASSUME RelayInv, NEW k \in 1 .. MaxSaid, CopyRead(k)
  PROVE  RelayInv' /\ Hears
<1> DEFINE data == SubSeq(Unread, 1, k)
<1>1. /\ at = "copy" /\ k \in 1 .. Len(Unread) /\ read' = read + k
      /\ Write(data) \/ WriteBuffered(data)
      /\ UNCHANGED <<route, backend, said, at, status, ended>>
  BY DEF CopyRead, Take, backendVars
<1>2. /\ RelayTypeOK /\ Control /\ Consistent /\ Len(said) \in Nat /\ read \in 0 .. Len(said)
      /\ Len(Unread) = Len(said) - read
  BY PassedType, UnreadProperties DEF RelayInv
<1>3. /\ data \in Seq(Pieces) /\ Len(data) = k
      /\ \A i \in 1 .. k : data[i] = said[read + i]
  BY <1>1, <1>2, ReadProperties
<1> HIDE DEF data
<1>4. conn = "open" => Agrees(Passed \o data) /\ Len(Passed \o data) = read + k
  BY <1>1, <1>2, <1>3, ReadAndPass
<1>5. /\ out' \in Seq(Pieces) /\ heard' \in Seq(Pieces) /\ conn' \in {"open", "expired", "gone"}
      /\ conn = "open" => Passed' = Passed \o data
      /\ conn # "open" => conn' # "open"
      /\ Agrees(heard)' /\ (conn' = "open" => Agrees(Passed)')
      /\ IsPrefix(heard, heard')
  <2>1. CASE Write(data)
    BY <1>1, <1>3, <1>4, <2>1, WriteArrives, EmptySeq
  <2>2. CASE WriteBuffered(data)
    <3>1. /\ heard' = heard /\ conn' = conn /\ heard \in Seq(Pieces)
          /\ conn \in {"open", "expired", "gone"}
      BY <1>2, <2>2 DEF WriteBuffered, RelayTypeOK
    <3>2. IsPrefix(heard, heard)
      BY <3>1, AgreesIsPrefix, LenProperties
    <3>3. /\ out' \in Seq(Pieces) /\ Passed' = Passed \o data
          /\ Agrees(heard)' /\ (conn' = "open" => Agrees(Passed)')
      BY <1>1, <1>3, <1>4, <2>2, BufferedKept
    <3> QED
      BY <3>1, <3>2, <3>3
  <2> QED
    BY <1>1, <2>1, <2>2
<1>6. RelayTypeOK'
  BY <1>1, <1>2, <1>5 DEF RelayTypeOK
<1>7. Control'
  BY <1>1, <1>2 DEF Control
<1>8. Consistent'
  BY <1>1, <1>2, <1>4, <1>5 DEF Consistent
<1>9. Told' = "nothing"
  BY <1>1, <1>2 DEF Told, RelayTypeOK
<1>10. Hears
  BY <1>1, <1>5, <1>6, <1>9, SeenAsHeard
<1> QED
  BY <1>6, <1>7, <1>8, <1>10 DEF RelayInv

LEMMA StreamEndsHears ==
  ASSUME RelayInv, StreamEnds
  PROVE  RelayInv' /\ Hears
<1>1. at = "stream" /\ at' = "copy" /\ BodyOver /\ UNCHANGED <<out, heard, conn, status, ended>>
  BY DEF StreamEnds
<1>2. RelayTypeOK /\ Control /\ Consistent
  BY DEF RelayInv
<1>3. /\ backend' \in BackendType /\ UNCHANGED <<route, said>>
      /\ backend'.status = backend.status /\ backend'.sized = backend.sized
      /\ read' = Len(said) /\ read' \in 0 .. Len(said)
      /\ conn = "open" => Len(Passed) = read' \/ backend'.end = "broken"
  BY <1>1, BodyOverProperties
<1>4. RelayTypeOK'
  BY <1>1, <1>2, <1>3 DEF RelayTypeOK, Labels
<1>5. Control'
  BY <1>1, <1>2, <1>3 DEF Control
<1>6. Passed' = Passed /\ heard \in Seq(Pieces)
  BY <1>1, <1>2 DEF Passed, RelayTypeOK
<1>7. Consistent'
  BY <1>1, <1>2, <1>3, <1>6 DEF Consistent, Agrees
<1>8. IsPrefix(heard, heard')
  BY <1>1, <1>6, AgreesIsPrefix, LenProperties
<1>9. Told' = "nothing" /\ Agrees(heard)'
  BY <1>1, <1>2, <1>7 DEF Told, RelayTypeOK, Consistent
<1>10. Hears
  BY <1>1, <1>3, <1>4, <1>8, <1>9, SeenAsHeard
<1> QED
  BY <1>4, <1>5, <1>7, <1>10 DEF RelayInv

(* A handler that returns with nothing more to hand on.                    *)
LEMMA ReturnArrives ==
  ASSUME RelayInv, NEW short \in BOOLEAN, Return(<<>>, short), UNCHANGED said
  PROVE  /\ at' = "finished" /\ out' = <<>> /\ heard' \in Seq(Pieces)
         /\ conn' \in {"open", "expired", "gone"}
         /\ ended' = IF conn = "open" /\ ~short THEN "complete" ELSE "cut"
         /\ conn = "open" => heard' = Passed
         /\ Agrees(heard)' /\ (conn' = "open" => Agrees(Passed)')
         /\ IsPrefix(heard, heard')
<1>1. Passed \o <<>> = Passed /\ <<>> \in Seq(Pieces)
  BY PassedType, ConcatEmptySeq, EmptySeq DEF RelayInv
<1>2. conn = "open" => Agrees(Passed \o <<>>)
  BY <1>1 DEF RelayInv, Consistent
<1>3. /\ Write(<<>>) /\ at' = "finished"
      /\ ended' = IF conn = "open" /\ ~short THEN "complete" ELSE "cut"
  BY DEF Return
<1> QED
  BY <1>1, <1>2, <1>3, WriteArrives

LEMMA CopyEndsHears ==
  ASSUME RelayInv, CopyEnds
  PROVE  RelayInv' /\ Hears
<1> DEFINE short == backend.sized /\ backend'.end # "eof"
<1>1. at = "copy" /\ BodyOver /\ Return(<<>>, short) /\ UNCHANGED status
  BY DEF CopyEnds
<1>2. RelayTypeOK /\ Control /\ Consistent /\ Passed \in Seq(Pieces) /\ short \in BOOLEAN
  BY PassedType DEF RelayInv, RelayTypeOK, BackendType
<1>3. /\ backend' \in BackendType /\ UNCHANGED <<route, said>>
      /\ backend'.status = backend.status /\ backend'.sized = backend.sized
      /\ read' = Len(said) /\ read' \in 0 .. Len(said)
      /\ conn = "open" => Passed = said \/ backend'.end = "broken"
  BY <1>1, BodyOverProperties
<1>4. /\ at' = "finished" /\ out' = <<>> /\ heard' \in Seq(Pieces)
      /\ conn' \in {"open", "expired", "gone"}
      /\ ended' = IF conn = "open" /\ ~short THEN "complete" ELSE "cut"
      /\ conn = "open" => heard' = Passed
      /\ Agrees(heard)' /\ (conn' = "open" => Agrees(Passed)')
      /\ IsPrefix(heard, heard')
  BY <1>1, <1>2, <1>3, ReturnArrives
<1>5. RelayTypeOK'
  BY <1>1, <1>2, <1>3, <1>4, EmptySeq DEF RelayTypeOK, Labels
<1>6. Control'
  BY <1>1, <1>2, <1>3, <1>4 DEF Control
<1>7. Consistent'
  BY <1>4 DEF Consistent
<1>8. Told' = "whole" => heard' = said \/ Done \in ToSet(heard')
  <2>1. CASE ended' = "complete" /\ backend.sized
    <3>1. conn = "open" /\ backend'.end = "eof"
      BY <1>4, <2>1
    <3> QED
      BY <1>3, <1>4, <3>1
  <2>2. CASE ended' = "complete" /\ ~backend.sized
    BY <1>1, <1>2, <1>3, <2>2 DEF Told, Control
  <2>3. CASE ended' = "cut"
    BY <2>3 DEF Told
  <2> QED
    BY <1>4, <2>1, <2>2, <2>3
<1>9. Hears
  BY <1>1, <1>3, <1>4, <1>5, <1>8, SeenAsHeard
<1> QED
  BY <1>5, <1>6, <1>7, <1>9 DEF RelayInv

LEMMA TranslateEndsHears ==
  ASSUME RelayInv, TranslateEnds
  PROVE  RelayInv' /\ Hears
<1>1. at = "translate" /\ BodyOver /\ Return(<<>>, FALSE) /\ UNCHANGED status
  BY DEF TranslateEnds
<1>2. RelayTypeOK /\ Control /\ Consistent
  BY DEF RelayInv
<1>3. /\ backend' \in BackendType /\ UNCHANGED <<route, said>>
      /\ backend'.status = backend.status /\ backend'.sized = backend.sized
      /\ read' \in 0 .. Len(said)
  BY <1>1, BodyOverProperties
<1>4. /\ at' = "finished" /\ out' = <<>> /\ heard' \in Seq(Pieces)
      /\ conn' \in {"open", "expired", "gone"} /\ ended' \in {"complete", "cut"}
      /\ Agrees(heard)' /\ (conn' = "open" => Agrees(Passed)')
      /\ IsPrefix(heard, heard')
  BY <1>1, <1>2, <1>3, ReturnArrives
<1>5. RelayTypeOK'
  BY <1>1, <1>2, <1>3, <1>4, EmptySeq DEF RelayTypeOK, Labels
<1>6. Control'
  BY <1>1, <1>2, <1>3, <1>4 DEF Control
<1>7. Consistent'
  BY <1>4 DEF Consistent
<1>8. Told' = "whole" => Done \in ToSet(heard')
  BY <1>1, <1>2, <1>3, <1>4 DEF Told, Control
<1>9. Hears
  BY <1>1, <1>3, <1>4, <1>5, <1>8, SeenAsHeard
<1> QED
  BY <1>5, <1>6, <1>7, <1>9 DEF RelayInv

LEMMA TranslateEventHears ==
  ASSUME RelayInv, TranslateEvent
  PROVE  RelayInv' /\ Hears
<1>1. /\ at = "translate" /\ Unread # <<>> /\ read' = read + 1
      /\ UNCHANGED <<route, backend, said, status>>
  BY DEF TranslateEvent, Take, backendVars
<1>2. /\ RelayTypeOK /\ Control /\ Consistent /\ Len(said) \in Nat /\ read \in 0 .. Len(said)
      /\ route = "translate" /\ ~backend.sized /\ ended = "no"
  BY <1>1, PassedType DEF RelayInv, Control, RelayTypeOK
<1>3. /\ read < Len(said) /\ Head(Unread) \in Pieces /\ <<Head(Unread)>> \in Seq(Pieces)
      /\ Len(<<Head(Unread)>>) = 1 /\ <<Head(Unread)>>[1] = said[read + 1]
  BY <1>1, <1>2, HeadProperties
<1>4. ASSUME NEW data \in Seq(Pieces), Write(data), conn = "open" => Agrees(Passed \o data),
             \/ at' = at /\ ended' = ended /\ Len(Passed \o data) = read + 1
             \/ at' = at /\ ended' = ended /\ conn # "open"
             \/ at' = "finished" /\ ended' \in {"complete", "cut"}
      PROVE  RelayInv' /\ Hears
  <2>1. /\ out' = <<>> /\ heard' \in Seq(Pieces) /\ conn' \in {"open", "expired", "gone"}
        /\ conn = "open" => Passed' = Passed \o data
        /\ conn # "open" => conn' # "open"
        /\ Agrees(heard)' /\ (conn' = "open" => Agrees(Passed)')
        /\ IsPrefix(heard, heard')
    BY <1>1, <1>4, WriteArrives
  <2>2. RelayTypeOK'
    BY <1>1, <1>2, <1>3, <1>4, <2>1, EmptySeq DEF RelayTypeOK, Labels
  <2>3. Control'
    BY <1>1, <1>2, <1>4 DEF Control
  <2>4. Consistent'
    BY <1>1, <1>2, <1>4, <2>1 DEF Consistent
  <2>5. Told' = "whole" => Done \in ToSet(heard')
    <3>1. route' = "translate" /\ backend'.sized = FALSE
      BY <1>1, <1>2 DEF RelayTypeOK, BackendType
    <3> QED
      BY <3>1 DEF Told
  <2>6. Hears
    BY <1>1, <2>1, <2>2, <2>5, SeenAsHeard
  <2> QED
    BY <2>2, <2>3, <2>4, <2>6 DEF RelayInv
<1>5. conn = "open" => /\ Agrees(Passed \o <<Head(Unread)>>)
                       /\ Len(Passed \o <<Head(Unread)>>) = read + 1
  <2> DEFINE data == <<Head(Unread)>>
  <2>1. /\ data \in Seq(Pieces) /\ Len(data) = 1 /\ data[1] = said[read + 1]
    BY <1>3
  <2> HIDE DEF data
  <2>2. /\ Len(data) \in Nat /\ Len(data) >= 1 /\ Len(data) <= Len(said) - read
        /\ \A i \in 1 .. Len(data) : data[i] = said[read + i]
    BY <1>2, <1>3, <2>1
  <2>3. conn = "open" => Agrees(Passed \o data) /\ Len(Passed \o data) = read + Len(data)
    BY <1>1, <2>1, <2>2, ReadAndPass
  <2> QED
    BY <2>1, <2>3 DEF data
<1>6. CASE Head(Unread) \in Texts
  <2>1. Write(<<Head(Unread)>>) /\ UNCHANGED <<at, ended>>
    BY <1>6, RelayAssumption DEF TranslateEvent
  <2> QED
    BY <1>3, <1>4, <1>5, <2>1
<1>7. CASE Head(Unread) = Done
  <2>1. Write(<<Head(Unread)>>) /\ at' = "finished" /\ ended' \in {"complete", "cut"}
    BY <1>7, RelayAssumption DEF TranslateEvent, Return
  <2> QED
    BY <1>3, <1>4, <1>5, <2>1
<1>8. CASE Head(Unread) = Junk
  <2>1. Write(<<>>) /\ at' = "finished" /\ ended' \in {"complete", "cut"}
    BY <1>8, RelayAssumption DEF TranslateEvent, Return
  <2>2. <<>> \in Seq(Pieces) /\ Passed \o <<>> = Passed
    BY <1>2, PassedType, EmptySeq, ConcatEmptySeq
  <2>3. conn = "open" => Agrees(Passed \o <<>>)
    BY <1>2, <2>2 DEF Consistent
  <2> QED
    BY <1>4, <2>1, <2>2, <2>3
<1> QED
  BY <1>3, <1>6, <1>7, <1>8 DEF Pieces

LEMMA SourceType ==
  ASSUME RelayTypeOK
  PROVE  /\ Source \in Seq(Pieces) /\ Len(Source) \in Nat /\ Len(Source) <= Len(said)
         /\ \A i \in 1 .. Len(Source) : Source[i] = said[i]
         /\ route = "oneshot" /\ backend.status = "ok" /\ said # <<>> => Source = <<said[1]>>
<1>1. said \in Seq(Pieces) /\ Len(said) \in Nat
  BY LenProperties DEF RelayTypeOK
<1>2. CASE said = <<>>
  BY <1>1, <1>2, EmptySeq DEF Source, FirstOf
<1>3. CASE said # <<>>
  <2>1. Len(said) >= 1 /\ Head(said) = said[1] /\ Head(said) \in Pieces
    BY <1>1, <1>3, EmptySeq, HeadTailProperties
  <2> QED
    BY <1>1, <1>3, <2>1 DEF Source, FirstOf
<1> QED
  BY <1>2, <1>3

LEMMA EmptyAgrees ==
  ASSUME RelayTypeOK, NEW s \in Seq(Pieces)
  PROVE  Agrees(<<>>) /\ IsPrefix(<<>>, s) /\ IsPrefix(<<>>, <<>>)
<1>1. Len(said) \in Nat /\ Len(s) \in Nat /\ <<>> \in Seq(Pieces) /\ Len(<<>>) = 0
  BY LenProperties, EmptySeq DEF RelayTypeOK
<1>2. IsPrefix(<<>>, s) /\ IsPrefix(<<>>, <<>>)
  <2> DEFINE e == <<>>
  <2>1. e \in Seq(Pieces) /\ Len(e) = 0
    BY <1>1
  <2> HIDE DEF e
  <2>2. /\ Len(e) <= Len(s) /\ \A i \in 1 .. Len(e) : e[i] = s[i]
        /\ Len(e) <= Len(e) /\ \A i \in 1 .. Len(e) : e[i] = e[i]
    BY <1>1, <2>1
  <2>3. IsPrefix(e, s)
    BY <2>1, <2>2, AgreesIsPrefix
  <2>4. IsPrefix(e, e)
    BY <2>1, <2>2, AgreesIsPrefix
  <2> QED
    BY <2>3, <2>4 DEF e
<1> QED
  BY <1>1, <1>2 DEF Agrees

(* An answer of MSAKI's own comes before any word of the backend.          *)
LEMMA FailHears ==
  ASSUME RelayInv, at \in {"send", "parse"}, Fail, UNCHANGED <<route, said>>,
         backend' \in BackendType, backend'.status = backend.status,
         backend'.sized = backend.sized, read' \in 0 .. Len(said)
  PROVE  RelayInv' /\ Hears
<1>1. RelayTypeOK /\ Control /\ Consistent /\ heard = <<>> /\ out = <<>>
  BY DEF RelayInv, Control
<1>2. /\ at' = "finished" /\ status' = "gatewayError" /\ ended' \in {"complete", "cut"}
      /\ heard' = <<>> /\ out' = <<>> /\ conn' = conn
  BY <1>1 DEF Fail
<1>3. RelayTypeOK'
  BY <1>1, <1>2 DEF RelayTypeOK, Labels
<1>4. Control'
  BY <1>1, <1>2 DEF Control
<1>5. Passed' = <<>> /\ Agrees(<<>>)
  BY <1>1, <1>2, EmptySeq, ConcatEmptySeq, EmptyAgrees DEF Passed
<1>6. Agrees(heard)' /\ Agrees(Passed)'
  BY <1>2, <1>5 DEF Agrees
<1>7. Consistent'
  BY <1>2, <1>6 DEF Consistent
<1>8. Told' = "refused" /\ Source' = Source
  BY <1>2 DEF Told, Source
<1>9. IsPrefix(<<>>, Source) /\ IsPrefix(<<>>, <<>>)
  BY <1>1, SourceType, EmptyAgrees
<1> QED
  BY <1>1, <1>2, <1>3, <1>4, <1>7, <1>8, <1>9 DEF RelayInv, Hears

LEMMA ParseFailsHears ==
  ASSUME RelayInv, ParseFails
  PROVE  RelayInv' /\ Hears
BY BodyOverProperties, FailHears DEF ParseFails

(* A return with the beginning of the body, none of which was handed on    *)
(* before.                                                                 *)
LEMMA FirstReturnHears ==
  ASSUME RelayInv, at = "parse", NEW data \in Seq(Pieces), Return(data, FALSE),
         Len(data) <= Len(Source), \A i \in 1 .. Len(data) : data[i] = Source[i],
         status = "ok" => data = Source,
         UNCHANGED <<route, backend, said, status>>, read' \in 0 .. Len(said)
  PROVE  RelayInv' /\ Hears
<1>1. /\ RelayTypeOK /\ Control /\ Consistent /\ heard = <<>> /\ out = <<>> /\ Len(said) \in Nat
      /\ route = "oneshot" /\ status = backend.status /\ Len(data) \in Nat
  BY PassedType, LenProperties DEF RelayInv, Control
<1>2. Passed \o data = data
  BY <1>1, EmptySeq, ConcatEmptySeq DEF Passed
<1>3. /\ Source \in Seq(Pieces) /\ Len(Source) \in Nat /\ Len(Source) <= Len(said)
      /\ \A i \in 1 .. Len(Source) : Source[i] = said[i]
  BY <1>1, SourceType
<1>4. Agrees(data) /\ IsPrefix(data, Source) /\ IsPrefix(<<>>, Source)
  BY <1>1, <1>3, AgreesIsPrefix, EmptyAgrees DEF Agrees
<1>5. /\ Write(data) /\ at' = "finished" /\ ended' = IF conn = "open" THEN "complete" ELSE "cut"
  BY DEF Return
<1>6. /\ out' = <<>> /\ heard' \in Seq(Pieces) /\ conn' \in {"open", "expired", "gone"}
      /\ conn = "open" => heard' = data
      /\ conn # "open" => heard' = <<>>
      /\ Agrees(heard)' /\ (conn' = "open" => Agrees(Passed)')
      /\ IsPrefix(heard, heard')
  BY <1>1, <1>2, <1>4, <1>5, WriteArrives
<1>7. RelayTypeOK'
  BY <1>1, <1>5, <1>6, EmptySeq DEF RelayTypeOK, Labels
<1>8. Control'
  BY <1>1, <1>5 DEF Control
<1>9. Consistent'
  BY <1>5, <1>6 DEF Consistent
<1>10. Source' = Source
  BY DEF Source
<1>11. Told' = "whole" => heard' = Source
  <2>1. Told' = "whole" => status' = "ok" /\ ended' = "complete"
    BY DEF Told
  <2> QED
    BY <1>5, <1>6, <2>1
<1> QED
  BY <1>4, <1>6, <1>7, <1>8, <1>9, <1>10, <1>11 DEF RelayInv, Hears

LEMMA ParseAnswerHears ==
  ASSUME RelayInv, ParseAnswer
  PROVE  RelayInv' /\ Hears
<1>1. /\ at = "parse" /\ backend.status = "ok" /\ Unread # <<>> /\ read' = read + 1
      /\ UNCHANGED <<route, backend, said>>
  BY DEF ParseAnswer, Take, backendVars
<1>2. /\ RelayTypeOK /\ Control /\ read = 0 /\ route = "oneshot" /\ Len(said) \in Nat
      /\ said \in Seq(Pieces) /\ backend \in BackendType
  BY <1>1, PassedType DEF RelayInv, Control, RelayTypeOK
<1>3. /\ read < Len(said) /\ Head(Unread) = said[1] /\ <<Head(Unread)>> \in Seq(Pieces)
  BY <1>1, <1>2, HeadProperties
<1>4. read' \in 0 .. Len(said)
  BY <1>1, <1>2, <1>3
<1>5. CASE Fail
  BY <1>1, <1>2, <1>4, <1>5, FailHears
<1>6. CASE Return(<<Head(Unread)>>, FALSE) /\ UNCHANGED status
  <2>1. Source = <<Head(Unread)>>
    BY <1>1, <1>2, <1>3, SourceType, EmptySeq
  <2> DEFINE data == <<Head(Unread)>>
  <2>2. data \in Seq(Pieces) /\ Source = data /\ Return(data, FALSE)
    BY <1>3, <1>6, <2>1
  <2>3. Len(data) \in Nat
    BY <2>2, LenProperties
  <2> HIDE DEF data
  <2>4. Len(data) <= Len(Source) /\ \A i \in 1 .. Len(data) : data[i] = Source[i]
    BY <2>2, <2>3
  <2> QED
    BY <1>1, <1>4, <1>6, <2>2, <2>4, FirstReturnHears
<1> QED
  BY <1>5, <1>6 DEF ParseAnswer

LEMMA PassErrorOnHears ==
  ASSUME RelayInv, PassErrorOn
  PROVE  RelayInv' /\ Hears
<1>1. at = "parse" /\ backend.status = "error" /\ UNCHANGED <<route, backend, said, status>>
  BY DEF PassErrorOn, backendVars
<1>2. PICK k \in 0 .. Len(Unread) : read' = read + k /\ Return(SubSeq(Unread, 1, k), FALSE)
  BY DEF PassErrorOn, Take
<1> DEFINE data == SubSeq(Unread, 1, k)
<1>3. /\ RelayTypeOK /\ read = 0 /\ status = "error" /\ Len(said) \in Nat
      /\ Len(Unread) = Len(said) /\ Source = said
  <2>1. RelayTypeOK /\ read = 0 /\ status = "error"
    BY <1>1 DEF RelayInv, Control
  <2> QED
    BY <1>1, <2>1, PassedType, UnreadProperties DEF Source
<1>4. /\ data \in Seq(Pieces) /\ Len(data) = k
      /\ \A i \in 1 .. k : data[i] = said[read + i]
  BY <1>3, ReadProperties
<1>5. Return(data, FALSE)
  BY <1>2
<1> HIDE DEF data
<1>6. read' = k /\ k \in 0 .. Len(said)
  BY <1>2, <1>3
<1>7. Len(data) <= Len(Source) /\ \A i \in 1 .. Len(data) : data[i] = Source[i]
  BY <1>3, <1>4, <1>6
<1>8. read' \in 0 .. Len(said) /\ status # "ok"
  BY <1>3, <1>6
<1> QED
  BY <1>1, <1>4, <1>5, <1>7, <1>8, FirstReturnHears

LEMMA HandlerHears ==
  ASSUME RelayInv, HandlerStep
  PROVE  RelayInv' /\ Hears /\ at # "finished"
<1>1. at # "finished"
  BY DEF HandlerStep, StreamRead, CopyRead, StreamEnds, CopyEnds, TranslateEvent, TranslateEnds,
     ParseAnswer, ParseFails, PassErrorOn
<1> QED
  BY <1>1, StreamReadHears, CopyReadHears, StreamEndsHears, CopyEndsHears, TranslateEventHears,
     TranslateEndsHears, ParseAnswerHears, ParseFailsHears, PassErrorOnHears DEF HandlerStep

(* The backend says one more word: what it said before stays as it was.    *)
LEMMA SaySpeaks ==
  ASSUME RelayInv, NEW e \in Pieces, Say(e)
  PROVE  /\ RelayInv' /\ UNCHANGED <<heard, Told>>
         /\ Source' = Append(Source, e) \/ Source' = Source
<1>1. /\ said' = Append(said, e) /\ backend.status # "none" /\ backend.end = "open"
      /\ Len(said) < MaxSaid
      /\ UNCHANGED <<route, backend, at, read, out, heard, conn, status, ended>>
  BY DEF Say
<1>2. /\ RelayTypeOK /\ Control /\ Consistent /\ said \in Seq(Pieces) /\ Len(said) \in Nat
      /\ read \in 0 .. Len(said) /\ Passed \in Seq(Pieces) /\ Len(Passed) \in Nat
  BY PassedType DEF RelayInv
<1>3. /\ said' \in Seq(Pieces) /\ said' # <<>> /\ Len(said') = Len(said) + 1
      /\ \A i \in 1 .. Len(said) : said'[i] = said[i]
  BY <1>1, <1>2, AppendProperties
<1>4. RelayTypeOK'
  BY <1>1, <1>2, <1>3, RelayAssumption DEF RelayTypeOK
<1>5. Control'
  BY <1>1, <1>2 DEF Control
<1>6. Passed' = Passed /\ heard \in Seq(Pieces) /\ Len(heard) \in Nat
  BY <1>1, <1>2, LenProperties DEF Passed, RelayTypeOK
<1>7. ASSUME NEW s, Len(s) \in Nat, Agrees(s)
      PROVE  Len(s) <= Len(said') /\ \A i \in 1 .. Len(s) : s[i] = said'[i]
  BY <1>2, <1>3, <1>7 DEF Agrees
<1>8. Agrees(heard)' /\ (Agrees(Passed) => Agrees(Passed)')
  BY <1>1, <1>2, <1>6, <1>7 DEF Agrees, Consistent
<1>9. Consistent'
  BY <1>1, <1>2, <1>6, <1>8 DEF Consistent
<1>10. UNCHANGED Told
  BY <1>1 DEF Told
<1>11. Source' = Append(Source, e) \/ Source' = Source
  <2>1. CASE ~(route = "oneshot" /\ backend.status = "ok")
    BY <1>1, <2>1 DEF Source
  <2>2. CASE said = <<>>
    <3>1. said' = <<e>> /\ Head(said') = e
      BY <1>1, <2>2
    <3> QED
      BY <1>1, <1>3, <2>2, <3>1 DEF Source, FirstOf
  <2>3. CASE route = "oneshot" /\ backend.status = "ok" /\ said # <<>>
    <3>1. Len(said) >= 1
      BY <1>2, <2>3, EmptySeq
    <3>2. said'[1] = said[1]
      BY <1>2, <1>3, <3>1
    <3>3. Head(said') = said'[1] /\ Head(said) = said[1]
      BY <1>2, <1>3
    <3> QED
      BY <1>1, <1>3, <2>3, <3>2, <3>3 DEF Source, FirstOf
  <2> QED
    BY <2>1, <2>2, <2>3
<1> QED
  BY <1>1, <1>4, <1>5, <1>9, <1>10, <1>11 DEF RelayInv

(* What neither the handler nor the backend's words take part in.          *)
LEMMA SurroundingsStutter ==
  ASSUME RelayInv,
         \/ \E how \in {"eof", "broken"} : EndBody(how)
         \/ HangUp \/ PassDeadline
         \/ \E st \in {"ok", "error"}, sized \in BOOLEAN : Respond(st, sized)
         \/ UNCHANGED relayVars
  PROVE  RelayInv' /\ UNCHANGED <<Source, heard, Told>>
<1>1. RelayTypeOK /\ Control /\ Consistent
  BY DEF RelayInv
<1>2. CASE \E how \in {"eof", "broken"} : EndBody(how)
  <2>1. PICK how \in {"eof", "broken"} : EndBody(how)
    BY <1>2
  <2> DEFINE new == [backend EXCEPT !.end = how]
  <2>2. /\ backend' = new /\ backend.end = "open" /\ backend.status # "none"
        /\ UNCHANGED <<route, said, at, read, out, heard, conn, status, ended>>
    BY <2>1 DEF EndBody
  <2>3. new \in BackendType /\ new.status = backend.status /\ new.sized = backend.sized
    BY <1>1 DEF RelayTypeOK, BackendType
  <2> HIDE DEF new
  <2>4. RelayTypeOK'
    BY <1>1, <2>2, <2>3 DEF RelayTypeOK
  <2>5. Control'
    BY <1>1, <2>2, <2>3 DEF Control
  <2>6. Consistent'
    BY <1>1, <2>2 DEF Consistent, Agrees, Passed
  <2>7. UNCHANGED <<Source, heard, Told>>
    BY <2>2, <2>3 DEF Source, Told
  <2> QED
    BY <2>4, <2>5, <2>6, <2>7 DEF RelayInv
<1>3. CASE HangUp \/ PassDeadline
  <2>1. /\ conn' \in {"expired", "gone"}
        /\ UNCHANGED <<route, backend, said, at, read, out, heard, status, ended>>
    BY <1>3 DEF HangUp, PassDeadline, backendVars
  <2>2. RelayTypeOK'
    BY <1>1, <2>1 DEF RelayTypeOK
  <2>3. Control'
    BY <1>1, <2>1 DEF Control
  <2>4. Consistent'
    BY <1>1, <2>1 DEF Consistent, Agrees
  <2>5. UNCHANGED <<Source, heard, Told>>
    BY <2>1 DEF Source, Told
  <2> QED
    BY <2>2, <2>3, <2>4, <2>5 DEF RelayInv
<1>4. CASE \E st \in {"ok", "error"}, sized \in BOOLEAN : Respond(st, sized)
  <2>1. PICK st \in {"ok", "error"}, sized \in BOOLEAN : Respond(st, sized)
    BY <1>4
  <2> DEFINE new == [backend EXCEPT !.status = st, !.sized = sized]
  <2>2. /\ at = "send" /\ backend' = new /\ (sized => route \in {"plain", "sse"})
        /\ status' = IF route = "translate" THEN "ok" ELSE st
        /\ UNCHANGED <<route, said, read, out, heard, conn, ended>>
    BY <2>1 DEF Respond
  <2>3. /\ at' \in {"copy", "stream", "translate", "parse"}
        /\ route = "plain" => at' = "copy"
        /\ route = "sse" => at' = "stream"
        /\ route = "translate" => at' = "translate"
        /\ route = "oneshot" => at' = "parse"
    BY <1>1, <2>1 DEF Respond, RelayTypeOK, Routes
  <2>4. new \in BackendType /\ new.status = st /\ new.sized = sized
    BY <1>1 DEF RelayTypeOK, BackendType
  <2> HIDE DEF new
  <2>5. /\ said = <<>> /\ heard = <<>> /\ out = <<>> /\ read = 0 /\ ended = "no"
        /\ route \in Routes
    BY <1>1, <2>2 DEF Control, RelayTypeOK
  <2>6. RelayTypeOK'
    BY <1>1, <2>2, <2>3, <2>4, <2>5 DEF RelayTypeOK, Labels
  <2>7. Control'
    BY <1>1, <2>2, <2>3, <2>4, <2>5 DEF Control, Routes
  <2>8. Passed = <<>> /\ Passed' = <<>> /\ Len(<<>>) = 0
    BY <2>2, <2>5, EmptySeq, ConcatEmptySeq DEF Passed
  <2>9. Consistent'
    BY <1>1, <2>2, <2>5, <2>8 DEF Consistent, Agrees
  <2>10. UNCHANGED <<Source, heard, Told>>
    BY <2>2, <2>5 DEF Source, FirstOf, Told
  <2> QED
    BY <2>6, <2>7, <2>9, <2>10 DEF RelayInv
<1>5. CASE UNCHANGED relayVars
  BY <1>5 DEF relayVars, backendVars, RelayInv, RelayTypeOK, Control, Consistent, Agrees, Passed,
     Source, Told
<1> QED
  BY <1>2, <1>3, <1>4, <1>5

LEMMA RelayInvInitial == RelayInit => RelayInv
<1> SUFFICES ASSUME RelayInit PROVE RelayInv
  OBVIOUS
<1>1. <<>> \in Seq(Pieces) /\ Len(<<>>) = 0 /\ <<>> \o <<>> = <<>>
  BY EmptySeq, ConcatEmptySeq
<1>2. RelayTypeOK
  BY <1>1, RelayAssumption DEF RelayInit, RelayTypeOK, Labels, BackendType
<1>3. Control
  BY DEF RelayInit, Control
<1>4. Consistent
  BY <1>1 DEF RelayInit, Consistent, Agrees, Passed
<1> QED
  BY <1>2, <1>3, <1>4 DEF RelayInv

-----------------------------------------------------------------------------
(* Every step keeps the invariant, and is one of Answer or a stutter.      *)
LEMMA RefusalHears ==
  ASSUME RelayInv, Refuse
  PROVE  RelayInv' /\ Hears /\ at # "finished"
<1>1. at = "send" /\ Fail /\ UNCHANGED <<route, backend, said, read>>
  BY DEF Refuse, backendVars
<1>2. backend' \in BackendType /\ read' \in 0 .. Len(said)
  BY <1>1 DEF RelayInv, RelayTypeOK
<1> QED
  BY <1>1, <1>2, FailHears

LEMMA RelayStep ==
  ASSUME RelayInv, [RelayNext]_relayVars
  PROVE  \/ RelayInv' /\ Hears /\ at # "finished"
         \/ \E e \in Pieces : Say(e)
         \/ RelayInv' /\ UNCHANGED <<Source, heard, Told>>
BY RefusalHears, HandlerHears, SurroundingsStutter DEF RelayNext

LEMMA RelayInvStep ==
  ASSUME RelayInv, [RelayNext]_relayVars
  PROVE  RelayInv'
BY RelayStep, SaySpeaks

LEMMA RefineStep ==
  ASSUME RelayInv, [RelayNext]_relayVars
  PROVE  [Promise!Speak \/ Promise!Hear]_<<Source, heard, Told>>
<1>1. CASE RelayInv' /\ Hears /\ at # "finished"
  <2>1. Told = "nothing" /\ Told' \in Promise!Verdicts
    BY <1>1 DEF RelayInv, RelayTypeOK, Told, Promise!Verdicts
  <2>2. Told' = "whole" => heard' = Source \/ Done \in Range(heard')
    BY <1>1 DEF Hears, ToSet, Range
  <2> QED
    BY <1>1, <2>1, <2>2 DEF Hears, Promise!Hear, Promise!IsWhole, Promise!IsPrefix, Promise!Range,
       IsPrefix, Range, Source
<1>2. ASSUME NEW e \in Pieces, Say(e)
      PROVE  [Promise!Speak \/ Promise!Hear]_<<Source, heard, Told>>
  BY <1>2, SaySpeaks DEF Promise!Speak, Source
<1> QED
  BY <1>1, <1>2, RelayStep

(* Whatever reads return and whoever breaks off, the variables have their  *)
(* types, no handler reads more than there is, and it returns once and     *)
(* with a status (proxy.go:252-281, ollama.go:203-406).                    *)
THEOREM RelayTypeCorrect == RelaySpec => []RelayTypeOK
<1>1. RelayInv => RelayTypeOK
  BY DEF RelayInv
<1> QED
  BY <1>1, RelayInvInitial, RelayInvStep, PTL DEF RelaySpec

(* The client hears a prefix of what its backend says, in order and        *)
(* nothing twice, and is told that the answer is whole only if it is, for  *)
(* answers of any length (proxy.go:262-278, ollama.go:315-355, 371-380).   *)
THEOREM RelayCorrect == RelaySpec => RelayPromise
<1>1. RelayInit => Promise!Init
  BY DEF RelayInit, Promise!Init, FirstOf, Told
<1>2. RelayInv /\ [RelayNext]_relayVars => [Promise!Speak \/ Promise!Hear]_<<Source, heard, Told>>
  BY RefineStep
<1> QED
  BY <1>1, <1>2, RelayInvInitial, RelayInvStep, PTL DEF RelaySpec, RelayPromise, Promise!Spec, Source

-----------------------------------------------------------------------------
(* Nothing is lost: the invariant of a handler that has returned.          *)

(* The first event that ends a translation, if there is one.               *)
StopsAt(k) ==
  /\ k \in 1 .. Len(said) /\ said[k] \in {Done, Junk}
  /\ \A i \in 1 .. k - 1 : said[i] \in Texts

(* NothingLost alone is not inductive: the backend may go on speaking      *)
(* after its handler returned.  What was handed on is the whole body,      *)
(* which is closed, or what comes before a word that stays where it is.    *)
Whole ==
  \/ /\ backend.end = "eof" /\ heard = said
     /\ route = "oneshot" => backend.status # "ok"
     /\ route = "translate" => \A i \in 1 .. Len(said) : said[i] \in Texts
  \/ /\ route = "oneshot" /\ backend.status = "ok"
     /\ said # <<>> /\ heard = <<Head(said)>>
  \/ /\ route = "translate"
     /\ \E k \in 1 .. Len(said) : StopsAt(k) /\ Len(heard) = IF said[k] = Done THEN k ELSE k - 1

ReadOn == at = "translate" => \A i \in 1 .. read : said[i] \in Texts

Unharmed == conn = "open" /\ backend.end # "broken" /\ status # "gatewayError"

HeardInv == RelayInv /\ ReadOn /\ (at = "finished" /\ Unharmed => Whole)

(* What `relayed' means where a translation was stopped, and where not.    *)
LEMMA StopFound ==
  ASSUME RelayTypeOK, NEW k, StopsAt(k)
  PROVE  SelectInSeq(said, LAMBDA e : e \in {Done, Junk}) = k
<1> DEFINE I == {i \in 1 .. Len(said) : said[i] \in {Done, Junk}}
<1>1. Len(said) \in Nat /\ k \in 1 .. Len(said)
  BY PassedType DEF StopsAt
<1>2. k \in I /\ I \in SUBSET Nat
  BY <1>1 DEF StopsAt
<1>3. \A i \in I : k <= i
  <2> SUFFICES ASSUME NEW i \in 1 .. Len(said), said[i] \in {Done, Junk}, i < k PROVE FALSE
    BY <1>1
  <2>1. i \in 1 .. k - 1
    BY <1>1
  <2> QED
    BY <2>1, RelayAssumption DEF StopsAt
<1>4. Min(I) = k
  <2> HIDE DEF I
  <2>1. \A i \in I : k <= i /\ i \in Nat
    BY <1>2, <1>3
  <2>2. \A x \in I : (\A y \in I : x <= y) => x = k
    BY <1>2, <2>1
  <2>3. \E x \in I : \A y \in I : x <= y
    BY <1>2, <2>1
  <2> QED
    BY <2>2, <2>3 DEF Min
<1>5. SelectInSeq(said, LAMBDA e : e \in {Done, Junk}) = IF I # {} THEN Min(I) ELSE 0
  BY DEF SelectInSeq
<1> HIDE DEF I
<1> QED
  BY <1>2, <1>4, <1>5

LEMMA NoStopFound ==
  ASSUME \A i \in 1 .. Len(said) : said[i] \in Texts
  PROVE  SelectInSeq(said, LAMBDA e : e \in {Done, Junk}) = 0
<1> DEFINE I == {i \in 1 .. Len(said) : said[i] \in {Done, Junk}}
<1>1. I = {}
  BY RelayAssumption
<1>2. SelectInSeq(said, LAMBDA e : e \in {Done, Junk}) = IF I # {} THEN Min(I) ELSE 0
  BY DEF SelectInSeq
<1> QED
  BY <1>1, <1>2

LEMMA WholeIsRelayed ==
  ASSUME RelayInv, Whole
  PROVE  heard = Relayed
<1> DEFINE last == SelectInSeq(said, LAMBDA e : e \in {Done, Junk})
<1>1. /\ RelayTypeOK /\ heard \in Seq(Pieces) /\ said \in Seq(Pieces) /\ Len(heard) \in Nat
      /\ Len(said) \in Nat /\ Len(heard) <= Len(said)
      /\ \A i \in 1 .. Len(heard) : heard[i] = said[i]
  BY PassedType, LenProperties DEF RelayInv, RelayTypeOK, Consistent, Agrees
<1>2. Relayed = CASE route = "translate" /\ last # 0 ->
                       SubSeq(said, 1, IF said[last] = Done THEN last ELSE last - 1)
                  [] route = "oneshot" /\ backend.status = "ok" -> FirstOf(said)
                  [] OTHER -> said
  BY DEF Relayed
<1>3. ASSUME route = "translate", NEW k \in 1 .. Len(said), StopsAt(k),
             Len(heard) = IF said[k] = Done THEN k ELSE k - 1
      PROVE  heard = Relayed
  <2>1. last = k
    BY <1>1, <1>3, StopFound
  <2> HIDE DEF last
  <2>2. Relayed = SubSeq(said, 1, Len(heard))
    BY <1>2, <1>3, <2>1
  <2>3. \A i \in 1 .. Len(said) : said[i] \in Pieces
    BY <1>1, ElementOfSeq
  <2>4. /\ SubSeq(said, 1, Len(heard)) \in Seq(Pieces)
        /\ Len(SubSeq(said, 1, Len(heard))) = Len(heard)
        /\ \A i \in 1 .. Len(heard) : SubSeq(said, 1, Len(heard))[i] = said[i]
    BY <1>1, <2>3, SubSeqProperties
  <2> QED
    BY <1>1, <2>2, <2>4, SeqEqual
<1>4. ASSUME heard = said, route = "oneshot" => backend.status # "ok",
             route = "translate" => \A i \in 1 .. Len(said) : said[i] \in Texts
      PROVE  heard = Relayed
  <2>1. route = "translate" => last = 0
    BY <1>4, NoStopFound
  <2> HIDE DEF last
  <2> QED
    BY <1>2, <1>4, <2>1
<1>5. ASSUME route = "oneshot", backend.status = "ok", said # <<>>, heard = <<Head(said)>>
      PROVE  heard = Relayed
  <2> HIDE DEF last
  <2> QED
    BY <1>2, <1>5 DEF FirstOf
<1> QED
  BY <1>3, <1>4, <1>5 DEF Whole

(* One more word changes nothing of what was heard.                        *)
LEMMA WholeStays ==
  ASSUME HeardInv, NEW e \in Pieces, Say(e)
  PROVE  HeardInv'
<1>1. /\ said' = Append(said, e) /\ backend.end = "open" /\ backend.status # "none"
      /\ UNCHANGED <<route, backend, at, read, out, heard, conn, status, ended>>
  BY DEF Say
<1>2. /\ RelayInv' /\ said \in Seq(Pieces) /\ Len(said) \in Nat /\ read \in 0 .. Len(said)
  BY SaySpeaks, PassedType DEF HeardInv, RelayInv
<1>3. /\ Len(said') = Len(said) + 1 /\ said' \in Seq(Pieces)
      /\ \A i \in 1 .. Len(said) : said'[i] = said[i]
  BY <1>1, <1>2, AppendProperties
<1>4. ReadOn'
  BY <1>1, <1>2, <1>3 DEF HeardInv, ReadOn
<1>5. ASSUME Whole PROVE Whole'
  <2>1. ASSUME said # <<>> PROVE said' # <<>> /\ Head(said') = Head(said)
    <3>1. Len(said) >= 1
      BY <1>2, <2>1, EmptySeq
    <3>2. said'[1] = said[1] /\ Len(said') # 0
      BY <1>2, <1>3, <3>1
    <3> QED
      BY <1>2, <1>3, <3>2, EmptySeq
  <2>2. ASSUME NEW k \in 1 .. Len(said), StopsAt(k)
        PROVE  k \in 1 .. Len(said') /\ StopsAt(k)' /\ said'[k] = said[k]
    BY <1>2, <1>3, <2>2 DEF StopsAt
  <2>3. CASE /\ route = "oneshot" /\ backend.status = "ok"
             /\ said # <<>> /\ heard = <<Head(said)>>
    BY <1>1, <2>1, <2>3 DEF Whole
  <2>4. ASSUME route = "translate", NEW k \in 1 .. Len(said), StopsAt(k),
               Len(heard) = IF said[k] = Done THEN k ELSE k - 1
        PROVE  Whole'
    <3>1. k \in 1 .. Len(said') /\ StopsAt(k)' /\ said'[k] = said[k]
      BY <2>2, <2>4
    <3>2. route' = "translate" /\ Len(heard') = IF said'[k] = Done THEN k ELSE k - 1
      BY <1>1, <2>4, <3>1
    <3> QED
      BY <3>1, <3>2 DEF Whole
  <2> QED
    BY <1>1, <1>5, <2>3, <2>4 DEF Whole
<1> QED
  BY <1>1, <1>2, <1>4, <1>5 DEF HeardInv, Unharmed

(* The handler goes on.                                                    *)
LEMMA NotYetWhole ==
  ASSUME HeardInv, RelayInv', at' # "finished", UNCHANGED said,
         at' = "translate" => \/ at = "translate" /\ read' = read
                              \/ /\ at = "translate" /\ read' = read + 1
                                 /\ said[read + 1] \in Texts
                              \/ read' = 0
  PROVE  HeardInv'
<1>1. read \in Nat
  BY DEF HeardInv, RelayInv, RelayTypeOK
<1>2. ReadOn'
  BY <1>1 DEF HeardInv, ReadOn
<1> QED
  BY <1>2 DEF HeardInv

LEMMA CopyEndsWhole ==
  ASSUME HeardInv, CopyEnds
  PROVE  HeardInv'
<1> DEFINE short == backend.sized /\ backend'.end # "eof"
<1>1. at = "copy" /\ BodyOver /\ Return(<<>>, short) /\ UNCHANGED <<status, route, said>>
      /\ backend \in BackendType
  BY DEF CopyEnds, BodyOver, HeardInv, RelayInv, RelayTypeOK
<1>2. RelayInv' /\ RelayInv /\ short \in BOOLEAN
  BY <1>1, CopyEndsHears DEF HeardInv, BackendType
<1>3. /\ at' = "finished" /\ (conn = "open" => heard' = Passed)
      /\ conn' = "open" => conn = "open"
  <2>1. Write(<<>>)
    BY <1>1 DEF Return
  <2>2. conn' = "open" => conn = "open"
    BY <2>1 DEF Write, Flush
  <2> HIDE DEF short
  <2> QED
    BY <1>1, <1>2, <2>2, ReturnArrives
<1>4. /\ conn = "open" => Passed = said \/ backend'.end = "broken"
      /\ route \in {"plain", "sse"}
  BY <1>1, <1>2, BodyOverProperties DEF RelayInv, Control
<1>5. backend'.end \in {"eof", "broken"}
  BY <1>1 DEF BodyOver, AtEOF, Abandon, BackendType
<1>6. Unharmed' => Whole'
  BY <1>1, <1>3, <1>4, <1>5 DEF Unharmed, Whole
<1> QED
  BY <1>2, <1>3, <1>6 DEF HeardInv, ReadOn

LEMMA TranslateEndsWhole ==
  ASSUME HeardInv, TranslateEnds
  PROVE  HeardInv'
<1>1. at = "translate" /\ BodyOver /\ Return(<<>>, FALSE) /\ UNCHANGED <<status, route, said>>
      /\ backend \in BackendType
  BY DEF TranslateEnds, BodyOver, HeardInv, RelayInv, RelayTypeOK
<1>2. RelayInv' /\ RelayInv
  BY TranslateEndsHears DEF HeardInv
<1>3. /\ at' = "finished" /\ (conn = "open" => heard' = Passed)
      /\ conn' = "open" => conn = "open"
  <2>1. Write(<<>>)
    BY <1>1 DEF Return
  <2>2. conn' = "open" => conn = "open"
    BY <2>1 DEF Write, Flush
  <2> QED
    BY <1>1, <1>2, <2>2, ReturnArrives
<1>4. /\ conn = "open" => Passed = said \/ backend'.end = "broken"
      /\ route = "translate"
  BY <1>1, <1>2, BodyOverProperties DEF RelayInv, Control
<1>5. \/ backend'.end = "broken"
      \/ backend'.end = "eof" /\ \A i \in 1 .. Len(said) : said[i] \in Texts
  <2>1. CASE AtEOF /\ UNCHANGED <<backend, read>>
    <3>1. read = Len(said)
      BY <1>2, <2>1, AllRead DEF AtEOF, RelayInv
    <3> QED
      BY <1>1, <2>1, <3>1 DEF AtEOF, HeardInv, ReadOn
  <2>2. CASE Abandon
    BY <1>1, <2>2 DEF Abandon, BackendType
  <2> QED
    BY <1>1, <2>1, <2>2 DEF BodyOver
<1>6. Unharmed' => Whole'
  BY <1>1, <1>3, <1>4, <1>5 DEF Unharmed, Whole
<1> QED
  BY <1>2, <1>3, <1>6 DEF HeardInv, ReadOn

LEMMA TranslateEventWhole ==
  ASSUME HeardInv, TranslateEvent
  PROVE  HeardInv'
<1>1. /\ at = "translate" /\ Unread # <<>> /\ read' = read + 1
      /\ UNCHANGED <<route, backend, said, status>>
  BY DEF TranslateEvent, Take, backendVars
<1>2. /\ RelayInv' /\ RelayInv /\ RelayTypeOK /\ Len(said) \in Nat /\ read \in 0 .. Len(said)
      /\ route = "translate"
  BY <1>1, TranslateEventHears, PassedType DEF HeardInv, RelayInv, Control
<1>3. /\ read < Len(said) /\ Head(Unread) \in Pieces /\ Head(Unread) = said[read + 1]
      /\ <<Head(Unread)>> \in Seq(Pieces) /\ Len(<<Head(Unread)>>) = 1
      /\ <<Head(Unread)>>[1] = said[read + 1]
  BY <1>1, <1>2, HeadProperties
<1>4. \A i \in 1 .. read : said[i] \in Texts
  BY <1>1 DEF HeardInv, ReadOn
<1>5. CASE Head(Unread) \in Texts
  <2>1. at' = at
    BY <1>5, RelayAssumption DEF TranslateEvent
  <2> QED
    BY <1>1, <1>2, <1>3, <1>5, <2>1, NotYetWhole
<1>6. ASSUME Head(Unread) \in {Done, Junk}, Unharmed, at' = "finished",
             Len(heard') = IF Head(Unread) = Done THEN read + 1 ELSE read
      PROVE  Whole'
  <2>1. PICK k \in 1 .. Len(said) : k = read + 1 /\ k - 1 = read
    BY <1>2, <1>3
  <2>2. StopsAt(k)' /\ said'[k] = said[k] /\ k \in 1 .. Len(said') /\ route' = "translate"
    BY <1>1, <1>2, <1>3, <1>4, <1>6, <2>1 DEF StopsAt
  <2>3. Len(heard') = IF said'[k] = Done THEN k ELSE k - 1
    BY <1>1, <1>3, <1>6, <2>1
  <2> QED
    BY <2>2, <2>3 DEF Whole
<1>7. conn = "open" /\ backend.end # "broken" => Len(Passed) = read /\ Agrees(Passed)
  BY <1>1, <1>2 DEF RelayInv, Consistent
<1>8. CASE Head(Unread) = Done
  <2> DEFINE data == <<Head(Unread)>>
  <2>1. Return(data, FALSE)
    BY <1>8, RelayAssumption DEF TranslateEvent
  <2>2. data \in Seq(Pieces) /\ Len(data) = 1 /\ data[1] = said[read + 1]
    BY <1>3
  <2> HIDE DEF data
  <2>3. Write(data) /\ at' = "finished"
    BY <2>1 DEF Return
  <2>4. /\ Len(data) \in Nat /\ Len(data) >= 1 /\ Len(data) <= Len(said) - read
        /\ \A i \in 1 .. Len(data) : data[i] = said[read + i]
    BY <1>2, <1>3, <2>2
  <2>5. conn = "open" => Agrees(Passed \o data) /\ Len(Passed \o data) = read + 1
    BY <1>1, <1>2, <2>2, <2>4, ReadAndPass
  <2>6. /\ conn = "open" => heard' = Passed \o data
        /\ conn' = "open" => conn = "open"
    BY <1>1, <1>2, <2>2, <2>3, <2>5, WriteArrives
  <2>7. Unharmed' => Whole'
    BY <1>1, <1>6, <1>8, <2>3, <2>5, <2>6 DEF Unharmed
  <2> QED
    BY <1>2, <2>3, <2>7 DEF HeardInv, ReadOn
<1>9. CASE Head(Unread) = Junk
  <2>1. Return(<<>>, FALSE)
    BY <1>9, RelayAssumption DEF TranslateEvent
  <2>2. Write(<<>>)
    BY <2>1 DEF Return
  <2>3. conn' = "open" => conn = "open"
    BY <2>2 DEF Write, Flush
  <2>4. at' = "finished" /\ (conn = "open" => heard' = Passed)
    BY <1>1, <1>2, <2>1, ReturnArrives
  <2>5. Unharmed' => Whole'
    BY <1>1, <1>6, <1>7, <1>9, <2>3, <2>4, RelayAssumption DEF Unharmed
  <2> QED
    BY <1>2, <2>4, <2>5 DEF HeardInv, ReadOn
<1> QED
  BY <1>3, <1>5, <1>8, <1>9 DEF Pieces

(* The first write of all, when nothing is in a buffer.                    *)
LEMMA FirstWriteArrives ==
  ASSUME RelayInv, at = "parse", NEW data \in Seq(Pieces), Return(data, FALSE), conn' = "open"
  PROVE  conn = "open" /\ heard' = data
<1>1. heard = <<>> /\ out = <<>>
  BY DEF RelayInv, Control
<1>2. Flush(<<>> \o data)
  BY <1>1 DEF Return, Write
<1>3. <<>> \o data = data /\ <<>> \o (<<>> \o data) = data
  BY ConcatEmptySeq
<1> QED
  BY <1>1, <1>2, <1>3 DEF Flush

LEMMA ParseAnswerWhole ==
  ASSUME HeardInv, ParseAnswer
  PROVE  HeardInv'
<1>1. /\ at = "parse" /\ backend.status = "ok" /\ Unread # <<>>
      /\ UNCHANGED <<route, backend, said>>
  BY DEF ParseAnswer, backendVars
<1>2. RelayInv' /\ RelayInv /\ RelayTypeOK /\ read = 0 /\ route = "oneshot" /\ said \in Seq(Pieces)
  BY <1>1, ParseAnswerHears DEF HeardInv, RelayInv, Control, RelayTypeOK
<1>3. /\ read < Len(said) /\ Head(Unread) = said[1] /\ <<Head(Unread)>> \in Seq(Pieces)
      /\ Len(said) \in Nat
  BY <1>1, <1>2, HeadProperties, LenProperties
<1>4. said # <<>> /\ Head(said) = Head(Unread)
  BY <1>2, <1>3, EmptySeq
<1>5. CASE Fail
  BY <1>2, <1>5 DEF Fail, HeardInv, ReadOn, Unharmed
<1>6. CASE Return(<<Head(Unread)>>, FALSE)
  <2>1. conn' = "open" => heard' = <<Head(Unread)>>
    BY <1>1, <1>2, <1>3, <1>6, FirstWriteArrives
  <2>2. at' = "finished"
    BY <1>6 DEF Return
  <2>3. Unharmed' => Whole'
    BY <1>1, <1>2, <1>4, <2>1 DEF Unharmed, Whole
  <2> QED
    BY <1>2, <2>2, <2>3 DEF HeardInv, ReadOn
<1> QED
  BY <1>5, <1>6 DEF ParseAnswer

LEMMA PassErrorOnWhole ==
  ASSUME HeardInv, PassErrorOn
  PROVE  HeardInv'
<1>1. /\ at = "parse" /\ backend.status = "error" /\ UNCHANGED <<route, backend, said, status>>
      /\ backend.end # "open" \/ conn = "gone"
  BY DEF PassErrorOn, backendVars
<1>2. PICK k \in 0 .. Len(Unread) :
        /\ backend.end = "eof" => k = Len(Unread)
        /\ Return(SubSeq(Unread, 1, k), FALSE)
  BY DEF PassErrorOn
<1> DEFINE data == SubSeq(Unread, 1, k)
<1>3. /\ RelayInv' /\ RelayInv /\ RelayTypeOK /\ read = 0 /\ route = "oneshot"
      /\ said \in Seq(Pieces) /\ Len(said) \in Nat /\ backend \in BackendType
  BY <1>1, PassErrorOnHears, PassedType DEF HeardInv, RelayInv, Control, RelayTypeOK
<1>4. /\ data \in Seq(Pieces) /\ Len(data) = k /\ Len(Unread) = Len(said)
      /\ \A i \in 1 .. k : data[i] = said[i]
  BY <1>3, ReadProperties, UnreadProperties
<1>5. Return(data, FALSE)
  BY <1>2
<1> HIDE DEF data
<1>6. conn' = "open" => conn = "open" /\ heard' = data
  BY <1>1, <1>3, <1>4, <1>5, FirstWriteArrives
<1>7. backend.end = "eof" => data = said
  BY <1>2, <1>3, <1>4, SeqEqual
<1>8. at' = "finished"
  BY <1>5 DEF Return
<1>9. Unharmed' => Whole'
  BY <1>1, <1>3, <1>6, <1>7 DEF Unharmed, Whole, BackendType
<1> QED
  BY <1>3, <1>8, <1>9 DEF HeardInv, ReadOn

LEMMA HeardInvStep ==
  ASSUME HeardInv, [RelayNext]_relayVars
  PROVE  HeardInv'
<1>1. RelayInv' /\ RelayInv
  BY RelayInvStep DEF HeardInv
<1>2. CASE \/ \E k \in 1 .. MaxSaid : StreamRead(k) \/ CopyRead(k)
           \/ StreamEnds
  <2>1. at' \in {"stream", "copy"} /\ UNCHANGED said
    BY <1>2 DEF StreamRead, CopyRead, StreamEnds, BodyOver, backendVars
  <2> QED
    BY <1>1, <2>1, NotYetWhole
<1>3. CASE ParseFails \/ Refuse
  BY <1>1, <1>3 DEF ParseFails, Refuse, Fail, HeardInv, ReadOn, Unharmed
<1>4. CASE \E st \in {"ok", "error"}, sized \in BOOLEAN : Respond(st, sized)
  <2>1. /\ at = "send" /\ UNCHANGED <<said, read>>
        /\ route \in Routes => at' \in {"copy", "stream", "translate", "parse"}
    BY <1>4 DEF Respond, Routes
  <2>2. read = 0 /\ route \in Routes
    BY <1>1, <2>1 DEF RelayInv, Control, RelayTypeOK
  <2> QED
    BY <1>1, <2>1, <2>2, NotYetWhole
<1>5. CASE HangUp \/ PassDeadline
  BY <1>1, <1>5, NotYetWhole DEF HangUp, PassDeadline, backendVars
<1>6. ASSUME NEW how \in {"eof", "broken"}, EndBody(how) PROVE HeardInv'
  <2> DEFINE new == [backend EXCEPT !.end = how]
  <2>1. /\ backend' = new /\ backend.end = "open"
        /\ UNCHANGED <<route, said, at, read, out, heard, conn, status, ended>>
    BY <1>6 DEF EndBody
  <2>2. new.status = backend.status
    BY <1>1 DEF RelayInv, RelayTypeOK, BackendType
  <2> HIDE DEF new
  <2>3. ReadOn' /\ (Unharmed' => Unharmed)
    BY <2>1 DEF HeardInv, ReadOn, Unharmed
  <2>4. \A k : StopsAt(k)' <=> StopsAt(k)
    BY <2>1 DEF StopsAt
  <2>5. Whole => Whole'
    BY <2>1, <2>2, <2>4 DEF Whole
  <2> QED
    BY <1>1, <2>1, <2>3, <2>5 DEF HeardInv
<1>7. CASE UNCHANGED relayVars
  <2>1. UNCHANGED <<route, backend, said, at, read, out, heard, conn, status, ended>>
    BY <1>7 DEF relayVars, backendVars
  <2>2. \A k : StopsAt(k)' <=> StopsAt(k)
    BY <2>1 DEF StopsAt
  <2> QED
    BY <1>1, <2>1, <2>2 DEF HeardInv, ReadOn, Unharmed, Whole
<1> QED
  BY <1>2, <1>3, <1>4, <1>5, <1>6, <1>7, WholeStays, CopyEndsWhole, TranslateEventWhole,
     TranslateEndsWhole, ParseAnswerWhole, PassErrorOnWhole DEF RelayNext, HandlerStep

(* Unless the backend or the client breaks off or the server's own write   *)
(* deadline passes (server.go:299), the client hears all that its route is *)
(* there to hand on, for answers of any length and reads of any size: what *)
(* one read returns together with the end of the body, the last event of a *)
(* stream, the part that ModifyResponse copied and the part it left        *)
(* (proxy.go:262-276, ollama.go:315-355).                                  *)
THEOREM RelayComplete == RelaySpec => []NothingLost
<1>1. RelayInit => HeardInv
  BY RelayInvInitial DEF HeardInv, ReadOn, RelayInit
<1>2. HeardInv => NothingLost
  BY WholeIsRelayed DEF HeardInv, Unharmed, NothingLost
<1> QED
  BY <1>1, <1>2, HeardInvStep, PTL DEF RelaySpec
=============================================================================
