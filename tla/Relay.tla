------------------------------- MODULE Relay --------------------------------
(***************************************************************************)
(* One request from the choice of its target on: how the answer of the     *)
(* backend gets to the client (internal/proxy/proxy.go, ollama.go and the  *)
(* last part of the handlers in openai.go).  Requests share nothing here.  *)
(*                                                                         *)
(* Four routes: "plain" is httputil.ReverseProxy; "sse" is handleStreaming, *)
(* whose ModifyResponse copies the body itself before the ReverseProxy     *)
(* gets to copy it; "translate" and "oneshot" turn the answer of an Ollama *)
(* backend into OpenAI's format, as a stream of events or as one object.   *)
(*                                                                         *)
(* A piece is what one read may return and one write may carry: an event,  *)
(* or a run of bytes.  Done is the event that ends an answer, Junk what no *)
(* decoder accepts.  A read may return data and the end of the body at     *)
(* once.  Metrics and headers other than the length are left out.          *)
(***************************************************************************)
EXTENDS Naturals, Sequences, SequencesExt

CONSTANTS
  Texts,     \* pieces of an answer
  Done,      \* the event with `done', or the line `data: [DONE]'
  Junk,      \* what is not JSON
  MaxSaid    \* how many pieces a backend sends at most

ASSUME RelayAssumption ==
  /\ Done \notin Texts \cup {Junk} /\ Junk \notin Texts
  /\ MaxSaid \in Nat

VARIABLES
  route,     \* how the request is answered
  at,        \* how far its handler is
  backend,   \* the backend's side: its status, whether it gave a length, its end
  said,      \* the pieces the backend has sent
  read,      \* how many of them have been read
  out,       \* written, and still in a buffer of the HTTP server
  heard,     \* what has reached the client
  conn,      \* the client's connection
  status,    \* the status of the answer to the client
  ended      \* how the answer ended for the client

backendVars == <<route, backend, said>>
relayVars == <<backendVars, at, read, out, heard, conn, status, ended>>

Routes == {"plain", "sse", "translate", "oneshot"}
Labels == {"send", "stream", "copy", "translate", "parse", "finished"}
Pieces == Texts \cup {Done, Junk}
BackendType ==
  [status : {"none", "ok", "error"}, sized : BOOLEAN, end : {"open", "eof", "broken"}]

Unread == SubSeq(said, read + 1, Len(said))

(* The request may have waited for its model until after the deadline for  *)
(* writing, which runs from its arrival (WriteTimeout).                    *)
RelayInit ==
  /\ route \in Routes
  /\ at = "send"
  /\ backend = [status |-> "none", sized |-> FALSE, end |-> "open"]
  /\ said = <<>> /\ read = 0
  /\ out = <<>> /\ heard = <<>>
  /\ conn \in {"open", "expired"}
  /\ status = "none" /\ ended = "no"

-----------------------------------------------------------------------------
(* The backend, and the client's side of the connection.                   *)
Say(e) ==
  /\ backend.status # "none" /\ backend.end = "open"
  /\ Len(said) < MaxSaid
  /\ said' = Append(said, e)
  /\ UNCHANGED <<route, backend, at, read, out, heard, conn, status, ended>>

(* The body ends, or breaks off: the backend is killed, or the five minute *)
(* timeout of createHTTPClient runs out.                                   *)
EndBody(how) ==
  /\ backend.status # "none" /\ backend.end = "open"
  /\ backend' = [backend EXCEPT !.end = how]
  /\ UNCHANGED <<route, said, at, read, out, heard, conn, status, ended>>

(* Hanging up cancels the context of the request.                          *)
HangUp ==
  /\ at # "finished" /\ conn # "gone"
  /\ conn' = "gone"
  /\ UNCHANGED <<backendVars, at, read, out, heard, status, ended>>

PassDeadline ==
  /\ at # "finished" /\ conn = "open"
  /\ conn' = "expired"
  /\ UNCHANGED <<backendVars, at, read, out, heard, status, ended>>

-----------------------------------------------------------------------------
(* Writing to the client.  What is flushed to a connection that is not     *)
(* open is lost; a flush that meets the deadline may cancel the context.   *)
Flush(data) ==
  /\ out' = <<>>
  /\ heard' = IF conn = "open" THEN heard \o data ELSE heard
  /\ conn' \in IF conn = "expired" THEN {"expired", "gone"} ELSE {conn}

Write(data) == Flush(out \o data)

WriteBuffered(data) == out' = out \o data /\ UNCHANGED <<heard, conn>>

(* The handler returns, and the server flushes what is left.  It closes    *)
(* the connection early if the body falls short of the declared length.    *)
Return(data, short) ==
  /\ at' = "finished"
  /\ Write(data)
  /\ ended' = IF conn = "open" /\ ~short THEN "complete" ELSE "cut"

(* An answer of MSAKI's own instead of the backend's.                      *)
Fail ==
  /\ at' = "finished"
  /\ status' = "gatewayError"
  /\ ended' = IF conn = "open" THEN "complete" ELSE "cut"
  /\ UNCHANGED <<out, heard, conn>>

-----------------------------------------------------------------------------
(* Sending the request.                                                    *)

(* Mutant: an early return without an answer. *)
RefuseSilently ==
  /\ at = "send"
  /\ at' = "finished" /\ ended' = "complete"
  /\ UNCHANGED <<backendVars, read, out, heard, conn, status>>

(* No target, an Anthropic model, a refused connection, no header in time, *)
(* or a client that hung up: an error of the gateway.                      *)
Refuse ==
  /\ at = "send"
  /\ Fail
  /\ UNCHANGED <<backendVars, read>>

(* The header of the answer.  An Ollama stream is answered with 200        *)
(* whatever the backend's status; translated answers have no length.       *)
Respond(st, sized) ==
  /\ at = "send" /\ conn # "gone"
  /\ backend' = [backend EXCEPT !.status = st, !.sized = sized]
  /\ sized => route \in {"plain", "sse"}
  /\ at' = CASE route = "plain" -> "copy" [] route = "sse" -> "stream"
             [] route = "translate" -> "translate" [] route = "oneshot" -> "parse"
  /\ status' = IF route = "translate" THEN "ok" ELSE st
  /\ UNCHANGED <<route, said, read, out, heard, conn, ended>>

-----------------------------------------------------------------------------
(* Reading the body.                                                       *)
Take(k) == read' = read + k

AtEOF == backend.end = "eof" /\ Unread = <<>>

(* Mutant: the request to the backend does not carry the client's context. *)
AbandonOnlyWhenBroken ==
  /\ backend.end = "broken"
  /\ read' = Len(said)
  /\ UNCHANGED backend

(* A read fails: the body broke off, or the context of the request, which  *)
(* the request to the backend carries, is cancelled.  Every further read   *)
(* fails, and what was under way is lost.                                  *)
Abandon ==
  /\ backend.end = "broken" \/ conn = "gone"
  /\ backend' = [backend EXCEPT !.end = "broken"]
  /\ read' = Len(said)

BodyOver ==
  /\ \/ AtEOF /\ UNCHANGED <<backend, read>>
     \/ Abandon
  /\ UNCHANGED <<route, said>>

(* Mutant: a read that returns data and the end is taken for the end. *)
StreamReadsEndFirst(k) ==
  /\ at = "stream" /\ k \in 1 .. Len(Unread)
  /\ Take(k)
  /\ IF backend.end = "eof" /\ k = Len(Unread)
     THEN at' = "copy" /\ UNCHANGED <<out, heard, conn>>
     ELSE Write(SubSeq(Unread, 1, k)) /\ UNCHANGED at
  /\ UNCHANGED <<backendVars, status, ended>>

(* ModifyResponse: each read is written and flushed, errors of Write are   *)
(* not looked at, and an error of Read is taken for the end.               *)
StreamRead(k) ==
  /\ at = "stream" /\ k \in 1 .. Len(Unread)
  /\ Take(k)
  /\ Write(SubSeq(Unread, 1, k))
  /\ at' \in IF backend.end = "eof" /\ k = Len(Unread) THEN {"stream", "copy"} ELSE {"stream"}
  /\ UNCHANGED <<backendVars, status, ended>>

StreamEnds ==
  /\ at = "stream"
  /\ at' = "copy"
  /\ BodyOver
  /\ UNCHANGED <<out, heard, conn, status, ended>>

(* copyResponse of the ReverseProxy: after ModifyResponse it finds nothing. *)
CopyRead(k) ==
  /\ at = "copy" /\ k \in 1 .. Len(Unread)
  /\ Take(k)
  /\ Write(SubSeq(Unread, 1, k)) \/ WriteBuffered(SubSeq(Unread, 1, k))
  /\ UNCHANGED <<backendVars, at, status, ended>>

(* A failed copy panics with ErrAbortHandler.  gin's Recovery takes the    *)
(* panic, so that only a length tells the client that something is missing. *)
CopyEnds ==
  /\ at = "copy"
  /\ BodyOver
  /\ Return(<<>>, backend.sized /\ backend'.end # "eof")
  /\ UNCHANGED status

(* streamOllamaToOpenAI, one decoded event: a chunk, or the last chunk and *)
(* [DONE]; what cannot be decoded ends the stream.                         *)
TranslateEvent ==
  /\ at = "translate" /\ Unread # <<>>
  /\ Take(1)
  /\ CASE Head(Unread) \in Texts ->
            Write(<<Head(Unread)>>) /\ UNCHANGED <<at, ended>>
       [] Head(Unread) = Done -> Return(<<Done>>, FALSE)
       [] Head(Unread) = Junk -> Return(<<>>, FALSE)
  /\ UNCHANGED <<backendVars, status>>

(* Mutant: [DONE] is sent whatever ended the stream. *)
TranslateEndsWithDone ==
  /\ at = "translate"
  /\ BodyOver
  /\ Return(<<Done>>, FALSE)
  /\ UNCHANGED status

(* The end of the body, or an error, ends the stream without [DONE].       *)
TranslateEnds ==
  /\ at = "translate"
  /\ BodyOver
  /\ Return(<<>>, FALSE)
  /\ UNCHANGED status

(* translateOllamaResponse: the first object of the body is the answer.    *)
ParseAnswer ==
  /\ at = "parse" /\ backend.status = "ok" /\ Unread # <<>>
  /\ Take(1)
  /\ \/ Head(Unread) = Junk /\ Fail
     \/ Head(Unread) # Junk /\ Return(<<Head(Unread)>>, FALSE) /\ UNCHANGED status
  /\ UNCHANGED backendVars

ParseFails ==
  /\ at = "parse" /\ backend.status = "ok"
  /\ BodyOver
  /\ Fail

(* An error of the backend is handed on, with as much of its body as       *)
(* ReadAll got before it failed.                                           *)
PassErrorOn ==
  /\ at = "parse" /\ backend.status = "error"
  /\ backend.end # "open" \/ conn = "gone"
  /\ \E k \in 0 .. Len(Unread) :
       /\ backend.end = "eof" => k = Len(Unread)
       /\ Take(k)
       /\ Return(SubSeq(Unread, 1, k), FALSE)
  /\ UNCHANGED <<backendVars, status>>

-----------------------------------------------------------------------------
HandlerStep ==
  \/ \E k \in 1 .. MaxSaid : StreamRead(k) \/ CopyRead(k)
  \/ StreamEnds \/ CopyEnds
  \/ TranslateEvent \/ TranslateEnds
  \/ ParseAnswer \/ ParseFails \/ PassErrorOn

RelayNext ==
  \/ \E e \in Pieces : Say(e)
  \/ \E how \in {"eof", "broken"} : EndBody(how)
  \/ HangUp \/ PassDeadline
  \/ Refuse
  \/ \E st \in {"ok", "error"}, sized \in BOOLEAN : Respond(st, sized)
  \/ HandlerStep

(* The handler runs, and a header that does not come is timed out           *)
(* (ResponseHeaderTimeout).  Nothing obliges the backend or the client.    *)
RelaySpec == RelayInit /\ [][RelayNext]_relayVars
RelayFairSpec == RelaySpec /\ WF_relayVars(HandlerStep) /\ WF_relayVars(Refuse)
-----------------------------------------------------------------------------
(* Every variable has its type; a handler returns with a status, and once. *)
RelayTypeOK ==
  /\ route \in Routes /\ at \in Labels
  /\ backend \in BackendType
  /\ said \in Seq(Pieces) /\ Len(said) <= MaxSaid
  /\ read \in 0 .. Len(said)
  /\ out \in Seq(Pieces) /\ heard \in Seq(Pieces)
  /\ conn \in {"open", "expired", "gone"}
  /\ status \in {"none", "ok", "error", "gatewayError"}
  /\ ended \in {"no", "complete", "cut"}
  /\ at = "finished" <=> ended # "no"
  /\ at = "send" <=> status = "none"

FirstOf(s) == IF s = <<>> THEN <<>> ELSE <<Head(s)>>

(* What of the backend's words each route is there to hand on.             *)
Relayed ==
  LET last == SelectInSeq(said, LAMBDA e : e \in {Done, Junk}) IN
  CASE route = "translate" /\ last # 0 ->
         SubSeq(said, 1, IF said[last] = Done THEN last ELSE last - 1)
    [] route = "oneshot" /\ backend.status = "ok" -> FirstOf(said)
    [] OTHER -> said

(* If neither the backend nor the client breaks off, and the server's      *)
(* write deadline (server.go:299) does not pass before the end, the client *)
(* hears all of it, whatever the reads return: ModifyResponse's own copy   *)
(* and that of the ReverseProxy together drop nothing and repeat nothing   *)
(* (proxy.go:262-276), and no last event is lost (ollama.go:315-355).      *)
NothingLost ==
  at = "finished" /\ conn = "open" /\ backend.end # "broken" /\ status # "gatewayError"
    => heard = Relayed

(* What the client can tell: an error from the status, a whole answer from *)
(* the length, from [DONE], or from an object that parses.                 *)
Told ==
  CASE ended = "no" -> "nothing"
    [] ended # "no" /\ status # "ok" -> "refused"
    [] /\ status = "ok" /\ ended = "complete"
       /\ backend.sized \/ route = "oneshot" \/ Done \in ToSet(heard) -> "whole"
    [] OTHER -> "cut"

(* The client hears a prefix of what the backend says, in order, and is    *)
(* told that it is whole only if it is: no [DONE] after a backend that     *)
(* died, nothing after a hole left by the write deadline                   *)
(* (proxy.go:262-278, ollama.go:315-355, 371-380, server.go:299).          *)
Promise == INSTANCE Answer WITH
  said <- IF route = "oneshot" /\ backend.status = "ok" THEN FirstOf(said) ELSE said,
  told <- Told
RelayPromise == Promise!Spec

(* A handler ends once its client has hung up or the backend's answer has  *)
(* ended, even if a backend that still holds the connection says nothing   *)
(* more (proxy.go:264-275, ollama.go:232, 315-321).                        *)
HandlerEnds == conn = "gone" \/ backend.end # "open" ~> at = "finished"
=============================================================================
