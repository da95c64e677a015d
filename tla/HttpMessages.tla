---------------------------- MODULE HttpMessages ----------------------------
(***************************************************************************)
(* The order in which http_parser_execute promises its callbacks, whatever *)
(* bytes come and wherever calls cut them: a message begins, its URL and   *)
(* its headers follow, each name with its value, then its body, in one     *)
(* piece or in chunks with a trailer behind the last of them, and its end  *)
(* before the next message begins.  HttpParser implements it.              *)
(***************************************************************************)
EXTENDS Sequences

VARIABLES
  calls,    \* the callbacks made, pieces of the same data counted once
  framing   \* how the body in turn is framed: "plain", "chunked", then "trailer"

vars == <<calls, framing>>

Init == calls = <<>> /\ framing = "plain"

last == IF calls = <<>> THEN "none" ELSE calls[Len(calls)]

\* The callbacks that cb may come behind in a message with the framing f.
InHeaders(f) == IF f = "trailer" THEN {"chunk_header", "header_value"} ELSE {"url", "header_value"}
Before(cb, f) ==
  CASE cb = "message_begin" -> {"none", "message_complete"}
    [] cb = "url" /\ f = "plain" -> {"message_begin"}
    [] cb = "header_field" -> InHeaders(f)
    [] cb = "header_value" -> {"header_field"}
    [] cb = "headers_complete" /\ f # "trailer" -> InHeaders(f)
    [] cb = "body" /\ f = "plain" -> {"headers_complete"}
    [] cb = "body" /\ f = "chunked" -> {"chunk_header"}
    [] cb = "chunk_header" /\ f = "chunked" -> {"headers_complete", "chunk_complete"}
    [] cb = "chunk_complete" /\ f = "chunked" -> {"body"}
    [] cb = "chunk_complete" /\ f = "trailer" -> InHeaders(f)
    [] cb = "message_complete" /\ f = "plain" -> {"headers_complete", "body"}
    [] cb = "message_complete" /\ f = "chunked" -> {"headers_complete"}   \* of CONNECT
    [] cb = "message_complete" /\ f = "trailer" -> {"chunk_complete"}
    [] OTHER -> {}

Call(cb) == last \in Before(cb, framing) /\ calls' = Append(calls, cb)

\* A header has said that the body comes in chunks.
SayChunked ==
  /\ last = "header_value" /\ framing = "plain"
  /\ framing' = "chunked" /\ UNCHANGED calls

Begin == Call("message_begin") /\ framing' = "plain"
\* The header of a chunk, of the last one perhaps.
ChunkHeader == Call("chunk_header") /\ framing' \in {"chunked", "trailer"}
Other ==
  /\ \E cb \in {"url", "header_field", "header_value", "headers_complete", "body", "chunk_complete",
                "message_complete"} : Call(cb)
  /\ UNCHANGED framing

Next == Begin \/ ChunkHeader \/ Other \/ SayChunked

Spec == Init /\ [][Next]_vars
=============================================================================
