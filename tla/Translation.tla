----------------------------- MODULE Translation -----------------------------
(***************************************************************************)
(* src/src/translator.rs: the task of Translator::new between its two      *)
(* bounded channels.  send() and recv() wait for room and for a message;   *)
(* the task is the only one that translates, one message after another.    *)
(***************************************************************************)
EXTENDS Integers, Sequences, FiniteSets

CONSTANTS Sendable,          \* the messages clients send
          buffer_size,       \* of both channels
          MaxSent            \* bound: messages sent

VARIABLES input, hand, output,
          open,              \* the Translator has not been dropped
          sent, received     \* history

vars == <<input, hand, output, open, sent, received>>

F == INSTANCE Frames

Init ==
    /\ input = <<>> /\ hand = <<>> /\ output = <<>> /\ open = TRUE
    /\ sent = <<>> /\ received = <<>>

send(m) ==
    /\ open /\ Len(sent) < MaxSent /\ Len(input) < buffer_size
    /\ input' = Append(input, [id |-> Len(sent) + 1, msg |-> m])
    /\ sent' = Append(sent, m)
    /\ UNCHANGED <<hand, output, open, received>>

\* Only the protocols that pass through keep the times of the message: the others make
\* a new one.
translate_message(item) ==
    [id |-> item.id, kept |-> F!decode(item.msg),
     own_times |-> item.msg.frame.protocol \in {"NIDD", "ASTSpaceMobile", "LoRaMesh"}]

\* A message that does not decode is dropped without a word.
Take ==
    /\ hand = <<>> /\ input # <<>>
    /\ input' = Tail(input)
    /\ LET t == translate_message(Head(input))
       IN  hand' = IF t.kept = F!Err THEN <<>> ELSE <<t>>
    /\ UNCHANGED <<output, open, sent, received>>

\* The send fails, and is ignored, once the receiver is gone.
Give ==
    /\ hand # <<>> /\ (open => Len(output) < buffer_size)
    /\ output' = IF open THEN output \o hand ELSE output
    /\ hand' = <<>>
    /\ UNCHANGED <<input, open, sent, received>>

recv ==
    /\ open /\ output # <<>>
    /\ received' = Append(received, Head(output))
    /\ output' = Tail(output)
    /\ UNCHANGED <<input, hand, open, sent>>

\* The client drops the Translator: what is in the output goes with it, and the task
\* ends when the input is empty.
Drop ==
    /\ open
    /\ open' = FALSE /\ output' = <<>>
    /\ UNCHANGED <<input, hand, sent, received>>

Next ==
    \/ \E m \in Sendable : send(m)
    \/ Take \/ Give \/ recv \/ Drop
----------------------------------------------------------------------------
\* Protocols whose frames say how long they are, or prove that they are complete.
SelfDelimiting == {"IridiumSBD", "RockBLOCK", "InmarsatC", "Samsara"}
Legal(f) == F!Size(f) <= F!max_message_size[f.protocol]
Shortest == [VSAT |-> 16, HFVHF |-> 8]
LongEnough(f) == f.protocol \in DOMAIN Shortest => F!Size(f) >= Shortest[f.protocol]

\* What the task has put out and the client has not lost by dropping the translator.
Out == received \o output \o hand
Pending == {input[i].id : i \in DOMAIN input}

\* The pipeline keeps the order and repeats nothing, it only loses messages that do not
\* decode, and every legal frame decodes that is not too short for its parser (translator
\* .rs).  What it puts out holds the whole payload: a frame of a protocol that can tell
\* is never translated in part, although Message::new may have cut it (protocol.rs).  The
\* other decoders of the crate agree: SamsaraMessage::parse on what Message::new lets
\* through, NIDDMessage::parse on the legal frames.
TranslationsAreWhole ==
    /\ \A i, j \in DOMAIN Out : i < j => Out[i].id < Out[j].id
    /\ \A i \in DOMAIN Out :
         LET m == sent[Out[i].id]
         IN  m.frame.protocol \in SelfDelimiting /\ (Legal(m.frame) \/ m = F!New(m.frame))
               => Out[i].kept = m.frame.payload
    /\ open => \A k \in DOMAIN sent \ Pending :
         LET f == sent[k].frame
         IN  Legal(f) /\ f.intact /\ LongEnough(f)
               => \E i \in DOMAIN Out : Out[i].id = k
    /\ \A k \in DOMAIN sent :
         LET m == sent[k]
         IN  /\ m.frame.protocol = "Samsara" => F!SamsaraParse(m) = F!decode(m)
             /\ m.frame.protocol = "NIDD"
                  => (F!NIDDParse(m) = m.frame.payload <=> Legal(m.frame))
=============================================================================
