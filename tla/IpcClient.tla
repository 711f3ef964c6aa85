------------------------------ MODULE IpcClient ------------------------------
(***************************************************************************)
(* The blocking client of the broker's socket, which the command line and  *)
(* the MCP transport share: it checks the socket, connects, checks again,  *)
(* sends one request and reads one response or one text stream, all before *)
(* a response deadline.  The socket's file may be replaced around the      *)
(* connect; the peer may answer with any frame, stop in the middle of one, *)
(* or never answer.                                                        *)
(***************************************************************************)
EXTENDS Integers, Sequences

CONSTANTS Owners,      \* users that may own a socket
          Trusted,     \* the owner of the broker's own socket
          Kinds,       \* call, stream
          MaxFrames    \* bound: frames the peer sends

ClientAssumption == Trusted \in Owners /\ MaxFrames \in Nat

VARIABLES kind, file, checked, peer, pc, told, wire, received, sequence, output,
          late, result

vars == <<kind, file, checked, peer, pc, told, wire, received, sequence, output,
          late, result>>

\* A socket file: which one it is and who owns it.  Any owner but the trusted
\* one may put another file in the place of the broker's, and put it back.
Files == [file : {1, 2}, owner : Owners]
BrokerFile == [file |-> 1, owner |-> Trusted]
NoFile == [file |-> 0, owner |-> Trusted]

\* What a frame is to the reader: for this request and within the limits
\* (mine), well formed (valid), with or without a body; the sequence number of a
\* chunk or terminal, the status of a terminal, what an error says of a retry.
Frame(type) == [type |-> type, mine |-> TRUE, valid |-> TRUE, body |-> type \in {"ok", "chunk"},
                seq |-> 0, status |-> "completed", retryable |-> FALSE]
Frames ==
    {[Frame(t) EXCEPT !.seq = n, !.mine = m, !.valid = v] :
        t \in {"ok", "chunk"}, n \in 0..MaxFrames, m \in BOOLEAN, v \in BOOLEAN}
    \cup {[Frame("terminal") EXCEPT !.seq = n, !.status = s, !.body = b] :
        n \in 0..MaxFrames, s \in {"completed", "incomplete", "failed"}, b \in BOOLEAN}
    \cup {[Frame("error") EXCEPT !.retryable = r, !.body = b, !.valid = v] :
        r \in BOOLEAN, b \in BOOLEAN, v \in BOOLEAN}

NoResult == [code |-> "none", retryable |-> FALSE]

Init ==
    /\ kind \in Kinds
    /\ file = BrokerFile /\ checked = NoFile /\ peer = NoFile
    /\ pc = "check"
    /\ told = <<>> /\ wire = <<>>
    /\ received = FALSE
    /\ sequence = 0 /\ output = <<>>
    /\ late = FALSE
    /\ result = NoResult

End(r) == pc' = "done" /\ result' = r
\* CliError::local and CliError::remote.
Local(code) == [code |-> code, retryable |-> FALSE]
Remote(f) == [code |-> "REMOTE", retryable |-> f.retryable]
Success == [code |-> "OK", retryable |-> FALSE]

-----------------------------------------------------------------------------
ReplaceFile ==
    /\ pc \in {"check", "connect", "verify"}
    /\ file' \in Files \ {file}
    /\ UNCHANGED <<kind, checked, peer, pc, told, wire, received, sequence, output, late, result>>

\* verify_socket_contract: what the file is before the connect.
Check ==
    /\ pc = "check"
    /\ IF file.owner = Trusted
       THEN checked' = file /\ pc' = "connect" /\ UNCHANGED result
       ELSE End(Local("IPC_UNAVAILABLE")) /\ UNCHANGED checked
    /\ UNCHANGED <<kind, file, peer, told, wire, received, sequence, output, late>>

Connect ==
    /\ pc = "connect"
    /\ peer' = file
    /\ pc' = "verify"
    /\ UNCHANGED <<kind, file, checked, told, wire, received, sequence, output, late, result>>

SameSocketOnly == file = checked
\* verify_connected_peer: the same file as before, and a peer of its owner.
SamePeer == file = checked /\ peer.owner = file.owner

Verify ==
    /\ pc = "verify"
    /\ IF SamePeer THEN pc' = "send" /\ UNCHANGED result ELSE End(Local("IPC_UNAVAILABLE"))
    /\ UNCHANGED <<kind, file, checked, peer, told, wire, received, sequence, output, late>>

\* send_request: refused before a byte when it is too large; a write may fail
\* with the request received or not.
Send ==
    /\ pc = "send"
    /\ \/ pc' = "header" /\ received' = TRUE /\ UNCHANGED result
       \/ received' \in BOOLEAN /\ End(Local("IPC_UNAVAILABLE"))
       \/ UNCHANGED received /\ End(Local("INVALID_FRAME"))
    /\ UNCHANGED <<kind, file, checked, peer, told, wire, sequence, output, late>>

\* The peer's side: the next frame, of which the reader may find only the
\* header before the connection closes.
PeerSends ==
    /\ received /\ Len(told) < MaxFrames /\ pc # "done"
    /\ \E f \in Frames : told' = Append(told, f) /\ wire' = Append(wire, f)
    /\ UNCHANGED <<kind, file, checked, peer, pc, received, sequence, output, late, result>>

\* read_exact_until of a header and FrameHeader::decode: another request's frame,
\* another channel's or one over the limit ends the call.
ReadHeader ==
    /\ pc = "header" /\ wire # <<>>
    /\ IF Head(wire).mine THEN pc' = "frame" /\ UNCHANGED result
       ELSE End(Local("INVALID_FRAME"))
    /\ UNCHANGED <<kind, file, checked, peer, told, wire, received, sequence, output, late>>

\* The rest of the frame, as call reads it ...
CallResult(f) ==
    IF f.type = "ok" THEN Success
    ELSE IF f.type = "error" /\ ~ f.body /\ f.valid THEN Remote(f)
    ELSE Local("INVALID_FRAME")

ReadResponse ==
    /\ kind = "call" /\ pc = "frame"
    /\ wire' = Tail(wire)
    /\ End(CallResult(Head(wire)))
    /\ UNCHANGED <<kind, file, checked, peer, told, received, sequence, output, late>>

\* ... and as text_stream reads it: a chunk is written out at once, and only a
\* completed terminal with the next number is a success.
NextChunk(f) == f.type = "chunk" /\ f.seq = sequence /\ f.body /\ f.valid

LastFrame(f) == f.type = "terminal" /\ f.seq = sequence /\ ~ f.body

StreamResult(f) ==
    IF LastFrame(f)
    THEN IF f.status = "completed" THEN Success
         ELSE Local(IF f.status = "incomplete" THEN "STREAM_INCOMPLETE" ELSE "STREAM_FAILED")
    ELSE IF f.type = "error" /\ sequence = 0 /\ ~ f.body /\ f.valid THEN Remote(f)
    ELSE Local("INVALID_FRAME")

ReadChunk ==
    /\ kind = "stream" /\ pc = "frame" /\ NextChunk(Head(wire))
    /\ wire' = Tail(wire)
    /\ \/ /\ output' = Append(output, Head(wire))
          /\ sequence' = sequence + 1
          /\ pc' = "header" /\ UNCHANGED result
       \/ End(Local("OUTPUT_FAILED")) /\ UNCHANGED <<output, sequence>>
    /\ UNCHANGED <<kind, file, checked, peer, told, received, late>>

ReadLast ==
    /\ kind = "stream" /\ pc = "frame" /\ ~ NextChunk(Head(wire))
    /\ wire' = Tail(wire)
    /\ End(StreamResult(Head(wire)))
    /\ UNCHANGED <<kind, file, checked, peer, told, received, sequence, output, late>>

\* The peer closes, in the middle of a frame too, or the poll's time is over.
PeerCloses ==
    /\ pc \in {"header", "frame"}
    /\ End(Local("IPC_UNAVAILABLE"))
    /\ UNCHANGED <<kind, file, checked, peer, told, wire, received, sequence, output, late>>

DeadlinePasses ==
    /\ ~ late /\ pc \in {"header", "frame"}
    /\ late' = TRUE
    /\ UNCHANGED <<kind, file, checked, peer, pc, told, wire, received, sequence, output, result>>

Timeout ==
    /\ late /\ pc \in {"header", "frame"}
    /\ End(Local("IPC_UNAVAILABLE"))
    /\ UNCHANGED <<kind, file, checked, peer, told, wire, received, sequence, output, late>>

Done == pc = "done" /\ UNCHANGED vars

ClientStep ==
    \/ Check \/ Connect \/ Verify \/ Send
    \/ ~ late /\ (ReadHeader \/ ReadResponse \/ ReadChunk \/ ReadLast)
    \/ Timeout

Next == ReplaceFile \/ PeerSends \/ PeerCloses \/ DeadlinePasses \/ ClientStep \/ Done

Spec == Init /\ [][Next]_vars

\* The client runs and time passes; the peer need do nothing.
FairSpec == Spec /\ WF_vars(ClientStep) /\ WF_vars(DeadlinePasses)

-----------------------------------------------------------------------------
\* A request is sent only to a peer of the user who owns the broker's socket,
\* even when the file is replaced for the connect and put back before the second
\* check.
SentToOwner == received => peer.owner = Trusted

\* What was written out is, at every moment, the stream's text from its start
\* without a gap: chunk i is number i - 1, of this request and well formed.  The
\* reader's count is the number of chunks written.
TypeOK ==
    /\ pc \in {"check", "connect", "verify", "send", "header", "frame", "done"}
    /\ pc = "frame" => wire # <<>>
    /\ sequence = Len(output)
    /\ \A i \in 1..Len(output) :
          output[i].type = "chunk" /\ output[i].seq = i - 1 /\ output[i].mine /\ output[i].valid

\* A success means that the peer sent the whole answer: one response, or every
\* chunk in order and then a completed terminal that counts them.
SuccessIsWhole ==
    result.code = "OK" =>
       IF kind = "call" THEN told[1].type = "ok" /\ told[1].mine
       ELSE /\ SubSeq(told, 1, Len(output)) = output
            /\ told[Len(output) + 1].type = "terminal"
            /\ told[Len(output) + 1].seq = Len(output)
            /\ told[Len(output) + 1].status = "completed"

\* A failure of the transport after the request was sent is never reported as
\* repeatable: only the broker can say that, in an error of its own.
UnknownIsNotRepeatable ==
    (received /\ result.retryable) =>
       told # <<>> /\ told[1].type = "error" /\ told[1].retryable

=============================================================================
