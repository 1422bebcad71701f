----------------------------- MODULE HttpChunks -----------------------------
(***************************************************************************)
(* The parser of HttpParser run twice on the same stream: first it is      *)
(* handed as much as its buffer takes in one piece, then it receives the   *)
(* stream in any pieces.                                                   *)
(***************************************************************************)
EXTENDS HttpParser

VARIABLE once   \* what the first run returned, NotYet before

NotYet == [status |-> 0, state |-> "none", req |-> Fresh]

AllAtOnce == IF Len(stream) < MaxRequestBytes THEN Len(stream) ELSE MaxRequestBytes

ChunksInit == Init /\ once = NotYet

Uncut ==
    /\ once = NotYet
    /\ \/ AllAtOnce # 0 /\ Recv(AllAtOnce)
       \/ RecvNothing
       \/ ChunkEnds
       \/ ParseByte
    /\ UNCHANGED once

Again ==
    /\ once = NotYet
    /\ pc = "done"
    /\ once' = [status |-> status, state |-> state, req |-> req]
    /\ got' = 0 /\ i' = 1 /\ pc' = "recv"
    /\ state' = "REQ_METHOD" /\ status' = 0 /\ req' = Fresh
    /\ UNCHANGED stream

Cut ==
    /\ once # NotYet
    /\ Next
    /\ UNCHANGED once

ChunksNext == Uncut \/ Again \/ Cut

ChunksSpec == ChunksInit /\ [][ChunksNext]_<<vars, once>>

\* What a request means does not depend on how the network cuts it up: when
\* both runs have returned, and neither because recv failed, they return the
\* same status and, if the request was complete, the same method, URI, headers
\* and body (parse_chunk resuming at http_request.c:160-186, 437-448).
ChunksDoNotMatter ==
    once # NotYet /\ pc = "done" /\ status # 500 =>
        /\ status = once.status
        /\ state = once.state
        /\ Accepted => req = once.req
=============================================================================
