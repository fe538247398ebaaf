---------------------------- MODULE StreamClient ----------------------------
(***************************************************************************)
(* The reader of a StreamUpdates response: the native and the browser      *)
(* client's stream_updates (longtrader-proto) over the Connect framing     *)
(* (longtrader-contract, envelope.rs), and the loop of the terminal's      *)
(* `stream` command that consumes it.                                      *)
(*                                                                         *)
(* The response body is a sequence of bytes that arrives in chunks cut     *)
(* anywhere.  A frame is a flags byte, four length bytes and a payload;    *)
(* a byte counts to ByteBase, so that small lengths use several of them.   *)
(***************************************************************************)
EXTENDS Integers, Sequences, SequencesExt, FiniteSets

CONSTANTS
    ByteBase,   \* 256
    Updates,    \* payloads that decode as an UpdateEnvelope
    Undecodable,    \* payloads that do not
    Rejections, \* end-of-stream bodies with an error object
    Clean,      \* end-of-stream bodies without one
    MaxFrames   \* bound: the updates of one response

ASSUME FramingAssumption ==
    /\ ByteBase \in Nat \ {0, 1}
    /\ MaxFrames \in Nat
    /\ Updates \cap Undecodable = {} /\ Rejections \cap Clean = {}

VARIABLES
    reader,     \* "idle", "reading" or "ended", or "failed" with an error
    sent,       \* the payloads of the response's message frames
    verdict,    \* its end-of-stream body
    wire,       \* the bytes of the response not yet received
    link,       \* "open", "closed" (the body ended) or "broken"
    buf,        \* the reader's buffer
    shown       \* the updates the command has shown

readerVars == <<reader, sent, verdict, wire, link, buf, shown>>

-----------------------------------------------------------------------------
(* Framing                                                                 *)

FLAG_MESSAGE == 0

FLAG_EOS == 2

LengthBytes(n) == [i \in 1 .. 4 |-> (n \div ByteBase ^ (4 - i)) % ByteBase]

encode_envelope(flags, payload) == <<flags>> \o LengthBytes(Len(payload)) \o payload

LengthOf(b) == b[2] * ByteBase ^ 3 + b[3] * ByteBase ^ 2 + b[4] * ByteBase + b[5]

\* Mutant: a frame counts as whole only once something follows it.
CompleteLate(b) == Len(b) >= 5 /\ Len(b) > 5 + LengthOf(b)

\* Neither TooShort nor Truncated.
Complete(b) == Len(b) >= 5 /\ Len(b) >= 5 + LengthOf(b)

decode_envelope_result(b) ==
    [flags |-> b[1], payload |-> SubSeq(b, 6, 5 + LengthOf(b)), consumed |-> 5 + LengthOf(b)]

\* Mutant: every frame is taken for a message.
IgnoresFlags(frame) == FALSE

EndsStream(frame) == (frame.flags \div FLAG_EOS) % 2 = 1

\* Mutant: the body of the last frame is not looked at.
NoVerdict(payload) == FALSE

\* A body that is not JSON, or has no error object, is a clean end.
end_of_stream_error(payload) == payload \in Rejections

-----------------------------------------------------------------------------
ReaderInit ==
    /\ reader = "idle" /\ link = "open"
    /\ sent = <<>> /\ verdict = <<>> /\ wire = <<>> /\ buf = <<>> /\ shown = <<>>

Body(messages, last) ==
    FlattenSeq([i \in DOMAIN messages |-> encode_envelope(FLAG_MESSAGE, messages[i])])
        \o encode_envelope(FLAG_EOS, last)

\* stream_updates is answered 200; a refusal with another status is an error
\* of the call, and there is no stream.
Connect ==
    /\ reader = "idle"
    /\ \/ reader' = "failed" /\ UNCHANGED <<sent, verdict, wire>>
       \/ /\ reader' = "reading"
          /\ \E n \in 0 .. MaxFrames : sent' \in [1 .. n -> Updates \cup Undecodable]
          /\ verdict' \in Rejections \cup Clean
          /\ wire' = Body(sent', verdict')
    /\ UNCHANGED <<link, buf, shown>>

\* One poll of the unfold that finds a complete frame, and what the command's
\* loop does with the item: an update is shown, an error returned, and a clean
\* end leaves the loop.
Decode ==
    /\ reader = "reading"
    /\ Complete(buf)
    /\ LET frame == decode_envelope_result(buf)
       IN  /\ buf' = SubSeq(buf, frame.consumed + 1, Len(buf))
           /\ \/ /\ EndsStream(frame)
                 /\ reader' = IF end_of_stream_error(frame.payload) THEN "failed" ELSE "ended"
                 /\ UNCHANGED shown
              \/ /\ ~EndsStream(frame)
                 /\ frame.payload \in Updates
                 /\ shown' = Append(shown, frame.payload)
                 /\ UNCHANGED reader
              \/ /\ ~EndsStream(frame)
                 /\ frame.payload \notin Updates
                 /\ reader' = "failed"
                 /\ UNCHANGED shown
    /\ UNCHANGED <<sent, verdict, wire, link>>

\* The frame is not whole yet: the poll reads the next chunk.
Read ==
    /\ reader = "reading"
    /\ ~Complete(buf)
    /\ \/ /\ wire # <<>> /\ link = "open"
          /\ \E k \in 1 .. Len(wire) : /\ buf' = buf \o SubSeq(wire, 1, k)
                                       /\ wire' = SubSeq(wire, k + 1, Len(wire))
          /\ UNCHANGED reader
       \/ /\ link = "broken"
          /\ reader' = "failed"
          /\ UNCHANGED <<buf, wire>>
       \/ /\ link = "closed"
          /\ reader' = "ended"
          /\ UNCHANGED <<buf, wire>>
    /\ UNCHANGED <<sent, verdict, link, shown>>

\* The connection is lost, or the body ends, perhaps early.
LinkEnds ==
    /\ reader = "reading" /\ link = "open"
    /\ link' \in {"closed", "broken"}
    /\ UNCHANGED <<reader, sent, verdict, wire, buf, shown>>

\* Ctrl+C.
Interrupt ==
    /\ reader = "reading"
    /\ reader' = "ended"
    /\ link' = "closed"
    /\ UNCHANGED <<sent, verdict, wire, buf, shown>>

ReaderNext == Connect \/ Decode \/ Read \/ LinkEnds \/ Interrupt
-----------------------------------------------------------------------------
(* Properties                                                              *)

\* Wherever the network cuts the body, what is shown is a prefix of the
\* updates sent, each with its own payload: no frame is split, merged, lost or
\* shown out of order, and the end-of-stream body is never taken for an update
\* (envelope.rs, decode_envelope_result, and the buffer of stream_updates).
FramesAreWhole == IsPrefix(shown, sent)

\* A rejected stream never looks like one that ended: as long as the link holds
\* the command leaves its loop only for a clean end-of-stream frame, and only
\* after every update before it (end_of_stream_error).
RejectionIsSeen ==
    (reader = "ended" /\ link = "open") =>
        verdict \in Clean /\ shown = sent

\* The terminal shows the stream the venue sent: whole updates in order, and an
\* end only where there was one (stream_updates, end_of_stream_error).
StreamIsFaithful == FramesAreWhole /\ RejectionIsSeen

\* Once the stream is open every update that can be shown is: the command stops
\* only when it has shown the updates before the first garbled one, unless the
\* link ends or the user interrupts it.
StreamRunsOut ==
    (reader = "reading") ~>
        \/ link # "open"
        \/ reader \in {"ended", "failed"} /\ (shown = sent \/ sent[Len(shown) + 1] \in Undecodable)
=============================================================================
