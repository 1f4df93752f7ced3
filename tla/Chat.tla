-------------------------------- MODULE Chat --------------------------------
(***************************************************************************)
(* A planning conversation.  The question is stored, the model is asked,   *)
(* and its answer comes as a stream: one goroutine reads it off the wire,  *)
(* one passes it on and stores the answer at the end, and the handler      *)
(* writes it to the client, with a bounded channel between each two.       *)
(* What the messages say, the system prompt and spans are left out.        *)
(***************************************************************************)
EXTENDS Naturals, Sequences

CONSTANTS Questions,    \* requests to handleChat, in one conversation
          Capacity,     \* of the channels
          MaxDeltas     \* bound: pieces of an answer

VARIABLES talk,    \* the conversation: [live, messages]
          chat     \* question -> its request

chatVars == <<talk, chat>>

Said(who, q) == <<who, q>>

Moves(q, c) == chat' = [chat EXCEPT ![q] = c]

(***************************************************************************)
(* The handler                                                             *)
(***************************************************************************)
StoreMessage(m) == talk' = IF talk.live THEN [talk EXCEPT !.messages = Append(@, m)] ELSE talk

\* The store may fail, and the handler ends with an error.
Question(q) ==
  /\ chat[q].handler = "new"
  /\ \/ /\ StoreMessage(Said("user", q))
        /\ Moves(q, [chat[q] EXCEPT !.handler = IF talk.live THEN "load" ELSE "gone"])
     \/ UNCHANGED talk /\ Moves(q, [chat[q] EXCEPT !.handler = "gone"])

\* The conversation may have been deleted since, and any of the reads and the
\* request to the model may fail: the question then stays without an answer.
StreamComplete(q) ==
  /\ chat[q].handler = "load"
  /\ \/ /\ talk.live
        /\ Moves(q, [chat[q] EXCEPT !.handler = "flush", !.reader = "on", !.pipe = "on"])
     \/ Moves(q, [chat[q] EXCEPT !.handler = "gone"])
  /\ UNCHANGED talk

\* When the first flush fails the handler leaves, and nobody reads the stream.
Flush(q) ==
  /\ chat[q].handler = "flush"
  /\ \/ Moves(q, [chat[q] EXCEPT !.handler = "read"])
     \/ Moves(q, [chat[q] EXCEPT !.handler = "left"])
  /\ UNCHANGED talk

\* The client may be gone: what is written to it is not looked at.
Relay(q) ==
  /\ chat[q].handler = "read" /\ chat[q].out # <<>>
  /\ Moves(q, [chat[q] EXCEPT !.out = Tail(@),
                              !.handler = IF Head(chat[q].out) = "done" THEN "gone" ELSE @])
  /\ UNCHANGED talk

(***************************************************************************)
(* The goroutine that reads the stream                                     *)
(***************************************************************************)
\* A channel without a buffer takes an event only for somebody who waits for it.
RoomForWaiting(q) == chat[q].events = <<>> /\ chat[q].pipe = "on"

RoomToRead(q) == Len(chat[q].events) < Capacity

Reads(q, reader, e) ==
  /\ RoomToRead(q)
  /\ Moves(q, [chat[q] EXCEPT !.reader = reader, !.events = Append(@, e),
                              !.deltas = IF e = "delta" THEN @ + 1 ELSE @])
  /\ UNCHANGED talk

\* When the handler has returned its context is cancelled, and reading off the
\* wire fails; the lines read before are still passed on.
ReadDelta(q) ==
  /\ chat[q].reader \in {"on", "finishing"} /\ chat[q].deltas < MaxDeltas
  /\ Reads(q, chat[q].reader, "delta")

\* The last piece carries a reason to finish, but the reader goes on to whatever follows.
ReadFinish(q) ==
  /\ chat[q].reader \in {"on", "finishing"}
  /\ Reads(q, "finishing", "done")

\* [DONE], the end of the stream, or an error
ReadEnd(q) ==
  /\ chat[q].reader \in {"on", "finishing"}
  /\ Reads(q, "ended", "done")

(***************************************************************************)
(* The goroutine that passes the stream on and stores the answer           *)
(***************************************************************************)
\* An event the goroutine holds while the channel is full counts as unread.
PassOn(q) ==
  /\ chat[q].pipe = "on" /\ chat[q].events # <<>> /\ Len(chat[q].out) < Capacity
  /\ Moves(q, [chat[q] EXCEPT !.events = Tail(@), !.out = Append(@, Head(chat[q].events)),
                              !.pipe = IF Head(chat[q].events) = "done" THEN "store" ELSE @])
  /\ UNCHANGED talk

\* Not in the context of the request, which is cancelled by now.  An error of the
\* store is ignored, and the answer is lost.
StoreAnswer(q) ==
  /\ chat[q].pipe = "store"
  /\ \/ StoreMessage(Said("assistant", q)) /\ Moves(q, [chat[q] EXCEPT !.pipe = "ended"])
     \/ UNCHANGED talk /\ Moves(q, [chat[q] EXCEPT !.pipe = "lost"])

DeleteConversation ==
  /\ talk.live
  /\ talk' = [live |-> FALSE, messages |-> <<>>] /\ UNCHANGED chat

ChatInit ==
  /\ talk = [live |-> TRUE, messages |-> <<>>]
  /\ chat = [q \in Questions |-> [handler |-> "new", reader |-> "off", pipe |-> "off",
                                  events |-> <<>>, out |-> <<>>, deltas |-> 0]]

ChatStep(q) ==
  \/ StreamComplete(q) \/ Flush(q) \/ Relay(q)
  \/ ReadDelta(q) \/ ReadFinish(q) \/ ReadEnd(q)
  \/ PassOn(q) \/ StoreAnswer(q)

ChatNext == DeleteConversation \/ \E q \in Questions : Question(q) \/ ChatStep(q)

\* The model at the other end goes on, or its connection breaks.
ChatFairness ==
  \A q \in Questions :
    /\ WF_chatVars(Flush(q)) /\ WF_chatVars(Relay(q))
    /\ WF_chatVars(ReadDelta(q) \/ ReadFinish(q) \/ ReadEnd(q))
    /\ WF_chatVars(PassOn(q)) /\ WF_chatVars(StoreAnswer(q))

ChatSpec == ChatInit /\ [][ChatNext]_chatVars /\ ChatFairness

-----------------------------------------------------------------------------
Answered(q) == \E i \in DOMAIN talk.messages : talk.messages[i] = Said("assistant", q)

\* The handler left at its first flush and the answer has filled the channel to it.
Unread(q) == chat[q].handler = "left" /\ chat[q].pipe = "on" /\ Len(chat[q].out) = Capacity

\* The provider sent more than the channel holds after the piece that finishes the answer.
Overrun(q) ==
  chat[q].reader = "finishing" /\ chat[q].pipe # "on" /\ Len(chat[q].events) = Capacity

(***************************************************************************)
(* A stream that was opened ends although the goroutine that stores the    *)
(* answer stops at the first "done" and the one that reads goes on: both   *)
(* return, and unless the store refused it the answer is stored or the     *)
(* conversation deleted.  The exceptions are leaks of the code: a stream   *)
(* whose handler left before it read and that fills the channel, so that   *)
(* the answer is lost, and a provider that goes on for a whole channel     *)
(* after the end.                                                          *)
(***************************************************************************)
ChatEnds ==
  \A q \in Questions :
    (chat[q].reader = "on") ~>
      \/ Unread(q)
      \/ /\ \/ chat[q].pipe = "ended" /\ (Answered(q) \/ ~ talk.live)
            \/ chat[q].pipe = "lost"
         /\ chat[q].reader = "ended" \/ Overrun(q)

=============================================================================
