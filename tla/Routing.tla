------------------------------- MODULE Routing -------------------------------
(***************************************************************************)
(* What the proxy decides about a request before it forwards it: which     *)
(* protocol it speaks, whether its answer will be a stream, whose request  *)
(* it is and where it goes.                                                *)
(* Modelled from crates/agentland-proxy/src/proxy/handler.rs,              *)
(* agent_detect.rs and upstream.rs, and from                               *)
(* crates/agentland-common/src/protocols.                                  *)
(*                                                                         *)
(* A request is                                                            *)
(*   [route : the provider named by /proxy/<provider>/, or "other",        *)
(*    a2a   : it has the header x-a2a-protocol-version,                    *)
(*    sse   : its accept header names text/event-stream,                   *)
(*    headers : the agent's id, its name and the bearer token, each a      *)
(*              sequence and empty when the header is missing,             *)
(*    address : where it comes from,                                       *)
(*    body : [readable, stream, model]].                                   *)
(* A body is readable when it has the fields and the types the program     *)
(* declares: an Anthropic request whose system prompt is a list of blocks  *)
(* is none.                                                                *)
(***************************************************************************)
EXTENDS Integers, Sequences

CONSTANTS
    Loopback,       \* the addresses of this host
    HintLength      \* how much of a token makes a hint: 8

ASSUME RoutingAssumption == HintLength \in Nat \ {0}

\* The protocols whose streaming flag is a field of the request.
Chatting == {"openai", "anthropic"}

-----------------------------------------------------------------------------
(* Protocol                                                                *)

Protocol(kind, streaming) == [kind |-> kind, streaming |-> streaming]

\* is_streaming_hint_from_headers, and detect_mcp_transport for MCP.
StreamingHint(request) == request.sse

\* detect_protocol_from_parts: the path comes before the header of A2A.
DetectProtocol(request) ==
    IF request.route \in Chatting \cup {"mcp"}
    THEN Protocol(request.route, StreamingHint(request))
    ELSE IF request.route = "a2a" \/ request.a2a THEN Protocol("a2a", FALSE)
    ELSE Protocol("unknown", FALSE)

\* openai::is_streaming, anthropic::is_streaming
IsStreaming(body) == body.readable /\ body.stream

\* Faulty variant: the flag is never taken from the body.
RefineFromHint(protocol, body) == protocol

\* refine_streaming_from_body
Refine(protocol, body) ==
    IF protocol.kind \in Chatting THEN Protocol(protocol.kind, IsStreaming(body)) ELSE protocol

ProtocolOf(request) == Refine(DetectProtocol(request), request.body)

-----------------------------------------------------------------------------
(* Agent                                                                   *)

\* extract_api_key_hint: the end of a token that is long enough.
KeyHint(token) ==
    IF Len(token) < HintLength THEN <<>>
    ELSE << "key", SubSeq(token, Len(token) - HintLength + 1, Len(token)) >>

\* resolve_agent_id: the first of the sources that says something.
ResolveAgentId(request) ==
    LET h == request.headers IN
    IF h.id # <<>> THEN h.id
    ELSE IF h.name # <<>> THEN h.name
    ELSE IF KeyHint(h.token) # <<>> THEN KeyHint(h.token)
    ELSE IF request.address \notin Loopback THEN << "ip", request.address >>
    ELSE << "unknown" >>

-----------------------------------------------------------------------------
(* Upstream                                                                *)

\* strip_proxy_prefix: an A2A request that is known by its header alone may
\* have no prefix to strip.
StripsPrefix(request, protocol) == request.route = protocol.kind

\* build_upstream_url
UpstreamUrl(request, protocol) ==
    [base |-> protocol.kind,
     path |-> IF StripsPrefix(request, protocol) THEN "api" ELSE request.route]
=============================================================================
