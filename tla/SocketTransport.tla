--------------------------- MODULE SocketTransport ---------------------------
(***************************************************************************)
(* agentmesh.protocol.transport: SocketFrameTransport.send over a stream     *)
(* socket to a peer that answers with the same class.  A frame is a header   *)
(* with the length and the payload; either may arrive in pieces, and a       *)
(* timeout may strike between any two of them.  Nothing in a frame says      *)
(* which request a reply belongs to.                                         *)
(***************************************************************************)
EXTENDS Naturals, Sequences

CONSTANT N \* the requests are 1 .. N, one send each

ASSUME TransportAssumption == N \in Nat

VARIABLES
    asked,    \* the requests made so far
    result,   \* what each send has returned: the request its reply answers,
              \* Nothing as yet, or Failed when it has raised
    timed,    \* the timeout parameter of the call in progress is given
    limited,  \* the socket's own timeout is set
    previous, \* what gettimeout returned when the call began
    stage,    \* where the call stands
    got,      \* the pieces receive_frame has read
    sends,    \* TransportMetrics.send_count
    up,       \* the stream from the client to the peer
    down,     \* the stream back
    heard,    \* the pieces the peer has read of a frame
    peer,     \* whether the peer's socket is open
    late      \* a call has ended in a timeout (history)

vars == <<asked, result, timed, limited, previous, stage, got, sends, up, down,
          heard, peer, late>>
peerVars == <<up, down, heard, peer>>

-----------------------------------------------------------------------------
Requests == 1 .. N
Nothing == 0
Failed == N + 1

\* A frame: two pieces of header and two of payload, those of one message.
HeaderSize == 2
FrameSize == 4
Pieces == Requests \X (1 .. FrameSize)
Frame(m) == [n \in 1 .. FrameSize |-> <<m, n>>]

\* A header that is made of other pieces is a length that means nothing.
Misread(pieces) ==
    /\ Len(pieces) >= HeaderSize
    /\ SubSeq(pieces, 1, HeaderSize) # SubSeq(Frame(pieces[1][1]), 1, HeaderSize)

Complete(pieces) == Len(pieces) = FrameSize /\ ~Misread(pieces)

Parsed(pieces) == IF pieces = Frame(pieces[1][1]) THEN pieces[1][1] ELSE Nothing

Init ==
    /\ asked = 0
    /\ result = [r \in Requests |-> Nothing]
    /\ timed = FALSE
    /\ limited \in BOOLEAN
    /\ previous = limited
    /\ stage = "idle"
    /\ got = <<>>
    /\ sends = 0
    /\ up = <<>>
    /\ down = <<>>
    /\ heard = <<>>
    /\ peer = "open"
    /\ late = FALSE

-----------------------------------------------------------------------------
(* The client.                                                              *)

\* Faulty: the timeout of the call stays on the socket.
KeepTimeout == limited

\* finally: the socket gets its timeout back.
RestoredTimeout == IF timed THEN previous ELSE limited

\* Faulty: the chunks belong to the transport and outlive the call.
KeepChunks == got

\* The chunks are the call's own; what a failed call has read is gone.
Chunks == <<>>

Return(value) ==
    /\ result' = [result EXCEPT ![asked] = value]
    /\ stage' = "idle"
    /\ limited' = RestoredTimeout
    /\ got' = Chunks

Begin ==
    /\ stage = "idle"
    /\ asked < N
    /\ asked' = asked + 1
    /\ timed' \in BOOLEAN
    /\ previous' = limited
    /\ limited' = (limited \/ timed')
    /\ stage' = "send"
    /\ UNCHANGED <<result, got, sends, late, peerVars>>

\* send_frame: sendall and one more record in the metrics.
SendFrame ==
    /\ stage = "send"
    /\ peer = "open"
    /\ up' = up \o Frame(asked)
    /\ sends' = sends + 1
    /\ stage' = "receive"
    /\ UNCHANGED <<asked, result, timed, limited, previous, got, down, heard, peer, late>>

\* A part of the frame may have left when sendall gives up.
SendTimesOut ==
    /\ stage = "send"
    /\ limited
    /\ \E n \in 0 .. FrameSize - 1 : up' = up \o SubSeq(Frame(asked), 1, n)
    /\ Return(Failed)
    /\ late' = TRUE
    /\ UNCHANGED <<asked, timed, previous, sends, down, heard, peer>>

\* _recv_exact: one more piece, whatever it belongs to.
ReceivePiece ==
    /\ stage = "receive"
    /\ ~Complete(got)
    /\ down # <<>>
    /\ got' = Append(got, Head(down))
    /\ down' = Tail(down)
    /\ UNCHANGED <<asked, result, timed, limited, previous, stage, sends, up, heard, peer, late>>

\* The payload is parsed and returned; nothing compares it with the request.
ReturnReply ==
    /\ stage = "receive"
    /\ Complete(got)
    /\ Return(IF Parsed(got) = Nothing THEN Failed ELSE Parsed(got))
    /\ UNCHANGED <<asked, timed, previous, sends, late, peerVars>>

\* A length that means nothing is reached at some time, or never.
ReturnGarbage ==
    /\ stage = "receive"
    /\ Misread(got)
    /\ Return(Failed)
    /\ UNCHANGED <<asked, timed, previous, sends, late, peerVars>>

ReceiveTimesOut ==
    /\ stage = "receive"
    /\ limited
    /\ ~Complete(got)
    /\ Return(Failed)
    /\ late' = TRUE
    /\ UNCHANGED <<asked, timed, previous, sends, peerVars>>

\* A closed socket refuses what is sent; it is noticed at the end of the stream.
SocketClosed ==
    /\ peer = "closed"
    /\ \/ stage = "send"
       \/ stage = "receive" /\ ~Complete(got) /\ down = <<>>
    /\ Return(Failed)
    /\ UNCHANGED <<asked, timed, previous, sends, late, peerVars>>

-----------------------------------------------------------------------------
(* The peer: receive_frame, the handler, send_frame, without a timeout.     *)

PeerReads ==
    /\ peer = "open"
    /\ ~Complete(heard)
    /\ up # <<>>
    /\ heard' = Append(heard, Head(up))
    /\ up' = Tail(up)
    /\ UNCHANGED <<asked, result, timed, limited, previous, stage, got, sends, down, peer, late>>

\* The reply of a request; a payload that is no message ends the peer.
PeerReplies ==
    /\ peer = "open"
    /\ Complete(heard)
    /\ IF Parsed(heard) # Nothing
       THEN down' = down \o Frame(Parsed(heard)) /\ UNCHANGED peer
       ELSE peer' = "closed" /\ UNCHANGED down
    /\ heard' = <<>>
    /\ UNCHANGED <<asked, result, timed, limited, previous, stage, got, sends, up, late>>

PeerCloses ==
    /\ peer = "open"
    /\ peer' = "closed"
    /\ UNCHANGED <<asked, result, timed, limited, previous, stage, got, sends, up, down,
                   heard, late>>

Client ==
    \/ SendFrame \/ SendTimesOut \/ ReceivePiece \/ ReturnReply
    \/ ReturnGarbage \/ ReceiveTimesOut \/ SocketClosed

Peer == PeerReads \/ PeerReplies \/ PeerCloses

Next == Begin \/ Client \/ Peer

Spec == Init /\ [][Next]_vars

\* The client's thread runs and a socket's timeout strikes; nothing is assumed
\* of the peer, nor that a length that means nothing is ever reached.
FairSpec ==
    /\ Spec
    /\ WF_vars(SendFrame \/ SendTimesOut \/ ReceivePiece \/ ReturnReply
                \/ ReceiveTimesOut \/ SocketClosed)

-----------------------------------------------------------------------------
(* Properties.                                                              *)

TypeOK ==
    /\ asked \in 0 .. N
    /\ result \in [Requests -> 0 .. Failed]
    /\ timed \in BOOLEAN /\ limited \in BOOLEAN /\ previous \in BOOLEAN /\ late \in BOOLEAN
    /\ stage \in {"idle", "send", "receive"}
    /\ got \in Seq(Pieces) /\ heard \in Seq(Pieces)
    /\ up \in Seq(Pieces) /\ down \in Seq(Pieces)
    /\ sends \in 0 .. N
    /\ peer \in {"open", "closed"}

\* Replies are the requests' own until a call ends in a timeout, which only a
\* call or a socket with a timeout does; after it they may be late but keep
\* their order, and none comes twice.
Channel == INSTANCE RequestReply WITH sound <- ~late

ImplementsRequestReply == Channel!Spec

\* A call with a timeout ends, whatever the peer does and whatever an earlier
\* call has left in the stream; a later call without one keeps the socket's.
TimedSendsEnd ==
    /\ \A r \in Requests : (asked = r /\ timed) ~> (result[r] # Nothing)
    /\ [](stage = "idle" => limited = previous)
=============================================================================
