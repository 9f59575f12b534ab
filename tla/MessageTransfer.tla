---------------------------- MODULE MessageTransfer ----------------------------
(***************************************************************************)
(* One direction of a connection, in bytes: send_message() at one end,     *)
(* recv_and_extract_communication_message() at the other one               *)
(* (Share/socket_send_recv.c).                                             *)
(*                                                                         *)
(* TCP keeps the order of the bytes and nothing else of how they were      *)
(* sent: a send takes a part of what it is given, a receive returns a part *)
(* of what has arrived.  A word without ":", ";" and newline is one symbol *)
(* here; what happens between two of its bytes happens between two         *)
(* symbols, too.                                                           *)
(***************************************************************************)
EXTENDS Naturals, SequencesExt

CONSTANTS
  Messages,     (* the messages, as records of a type and its parameters, *)
                (* which are sequences of words                           *)
  MaxMessages   (* bound: the messages sent in a run                      *)

VARIABLES
  sending,      (* the message send_message() is sending, or <<>>         *)
  to_send,      (* the symbols of it that have not been sent yet          *)
  wire,         (* the symbols that have not been received yet            *)
  peer,         (* the sender's end: open, closed or reset                *)
  buffer,       (* what recv_communication_message() has so far           *)
  reader,       (* the receiver: receiving, or failed                     *)
  sent,         (* history: the messages sent as a whole                  *)
  received      (* the messages returned to the caller                    *)

vars == <<sending, to_send, wire, peer, buffer, reader, sent, received>>

(* How many parameters a message of a type has. *)
NumOfParameters(type) ==
  CASE type = "GAME_VIEW" -> 3
    [] type \in {"CLIENT_PLAYER_MOVE", "CLIENT_REQUEST", "TURN_SWITCH", "GAME_ENDED"} -> 1
    [] OTHER -> 0

EndOfParameter == {";", "newline"}

(* A ":" in a parameter does no harm, a ";" splits the parameter in two. *)
ASSUME MessagesAssumption ==
  \A m \in Messages :
    /\ Len(m.parameters) = NumOfParameters(m.type)
    /\ \A i \in DOMAIN m.parameters : EndOfParameter \cap Range(m.parameters[i]) = {}

-----------------------------------------------------------------------------
(* format_communication_message(): TYPE, TYPE:p or TYPE:p;q;r, and a newline. *)
format_communication_message(m) ==
  LET separated(i) == <<IF i = 1 THEN ":" ELSE ";">> \o m.parameters[i]
  IN  <<m.type>>
        \o FlattenSeq([i \in 1..NumOfParameters(m.type) |-> separated(i)])
        \o <<"newline">>

(* extract_parameters_from_communication_message(): the type ends at the
   first ":" or newline, a parameter at the next ";" or newline. *)
extract_parameters(text) ==
  LET isEnd(i) == \/ text[i] \in EndOfParameter
                  \/ text[i] = ":" /\ ~\E k \in 1..(i - 1) : text[k] = ":"
      end == SetToSortSeq({i \in DOMAIN text : isEnd(i)}, <)
  IN  [type       |-> text[1],
       parameters |-> [i \in 1..(Len(end) - 1) |-> SubSeq(text, end[i] + 1, end[i + 1] - 1)]]

-----------------------------------------------------------------------------
Init ==
  /\ sending = <<>>
  /\ to_send = <<>>
  /\ wire = <<>>
  /\ peer = "open"
  /\ buffer = <<>>
  /\ reader = "receiving"
  /\ sent = <<>>
  /\ received = <<>>

StartSending(m) ==
  /\ peer = "open"
  /\ sending = <<>>
  /\ Len(sent) < MaxMessages
  /\ sending' = <<m>>
  /\ to_send' = format_communication_message(m)
  /\ UNCHANGED <<wire, peer, buffer, reader, sent, received>>

(* mutant: send() is taken to send everything *)
RemainingNothing(n) == <<>>

Remaining(n) == SubSeq(to_send, n + 1, Len(to_send))

(* One send() of SendBuffer(), which may take any part of the rest. *)
SendBytes ==
  /\ peer = "open"
  /\ \E n \in 1..Len(to_send) :
       /\ wire' = wire \o SubSeq(to_send, 1, n)
       /\ to_send' = Remaining(n)
  /\ IF to_send' = <<>> THEN sending' = <<>> /\ sent' = sent \o sending
                        ELSE UNCHANGED <<sending, sent>>
  /\ UNCHANGED <<peer, buffer, reader, received>>

(* The sender closes the connection, its process ends, or a send() fails,
   perhaps in the middle of a message: what has been sent arrives, or is lost
   with the connection. *)
Close ==
  /\ peer = "open"
  /\ \/ peer' = "closed" /\ UNCHANGED wire
     \/ peer' = "reset" /\ wire' = <<>>
  /\ UNCHANGED <<sending, to_send, buffer, reader, sent, received>>

-----------------------------------------------------------------------------
(* mutant: the comment of HardCodedData.h:28 is not heeded *)
RECV_IN_PAIRS == 2

RECV_IN_CHUNKS == 1

(* A receive of recv_communication_message().  A newline at the end of what
   has come makes it a message. *)
RecvBytes ==
  /\ reader = "receiving"
  /\ \E n \in 1..RECV_IN_CHUNKS :
       /\ n <= Len(wire)
       /\ wire' = SubSeq(wire, n + 1, Len(wire))
       /\ LET text == buffer \o SubSeq(wire, 1, n)
          IN  IF Last(text) = "newline"
                THEN /\ received' = Append(received, extract_parameters(text))
                     /\ buffer' = <<>>
                ELSE /\ buffer' = text
                     /\ UNCHANGED received
  /\ UNCHANGED <<sending, to_send, peer, reader, sent>>

(* mutant: realloc() to a size of 0 returns a buffer, as the C standard allows *)
ReallocOfNothing == FALSE

(* recv() returns 0.  realloc() to a size of 0 frees the buffer and returns
   NULL, which is taken for a failure; but with a part of a message in the
   buffer the loop goes on for ever. *)
ReallocFails == buffer = <<>>

(* recv() fails, by a reset or its timeout, or returns 0 for a connection
   that is closed. *)
RecvFails ==
  /\ reader = "receiving"
  /\ wire = <<>>
  /\ peer = "closed" => ReallocFails
  /\ reader' = "failed"
  /\ UNCHANGED <<sending, to_send, wire, peer, buffer, sent, received>>

(* The program at the other end is still in its loop. *)
Spins ==
  /\ reader = "receiving"
  /\ wire = <<>>
  /\ peer = "closed"
  /\ ~ReallocFails
  /\ UNCHANGED vars

Next == (\E m \in Messages : StartSending(m)) \/ SendBytes \/ Close \/ RecvBytes \/ RecvFails \/ Spins

Spec == Init /\ [][Next]_vars

(* A sender goes on with a message it has begun, bytes that have arrived are
   received, and the end of a connection is noticed.  The timeout (a failure
   with the connection open) may strike or not. *)
FairSpec ==
  /\ Spec
  /\ WF_vars(SendBytes)
  /\ WF_vars(RecvBytes)
  /\ WF_vars(peer # "open" /\ RecvFails)

-----------------------------------------------------------------------------
(***************************************************************************)
(* Properties.                                                             *)
(***************************************************************************)
TypeOK ==
  /\ sending \in {<<>>} \cup {<<m>> : m \in Messages}
  /\ peer \in {"open", "closed", "reset"}
  /\ reader \in {"receiving", "failed"}
  /\ sent \in Seq(Messages)
  /\ received \in Seq(Messages)

(* "we are guaranteed to receive the excat meseage sent"
   (socket_send_recv.c:15): whatever parts sends take and receives return,
   and wherever a connection ends, what is received is what was sent, whole
   and in order. *)
Channel == INSTANCE MessageChannel

ImplementsChannel == Channel!Spec

(* What has been sent is received, unless the connection is reset or the
   receiver has failed. *)
MessagesArrive ==
  \A n \in 1..MaxMessages :
    Len(sent) = n ~> Len(received) >= n \/ peer = "reset" \/ reader = "failed"

(* A receiver notices the end of a connection that is closed between two
   messages (or is reset).  In the middle of a message it does not: the loop
   spins on recv() returning 0. *)
Between == buffer \o wire = <<>> \/ Last(buffer \o wire) = "newline"

CloseIsNoticed ==
  peer # "open" /\ (peer = "reset" \/ Between) ~> reader = "failed"
=============================================================================
