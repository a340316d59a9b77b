------------------------------ MODULE AtModem ------------------------------
(***************************************************************************)
(* The modem driver of src/src/hardware/gm02sp.rs and its user, the GNSS   *)
(* service of src/src/gnss/gnss.rs.  Every operation is a sequence of AT   *)
(* commands.  send_at writes a command and reads the serial line until the *)
(* text contains OK or ERROR, or 5 s are over; it never discards what is   *)
(* already on the line.                                                    *)
(*                                                                         *)
(* The modem (external) answers the commands in order, each after any      *)
(* delay.  An answer is a sequence of tokens, the parts of the text that   *)
(* the driver tells apart; a read() returns any number of them.  A token   *)
(* is known by the number of the command it answers.                       *)
(***************************************************************************)
EXTENDS Integers, Sequences

CONSTANTS MaxCommands   \* bound: how many commands are sent

VARIABLES state, network_type,  \* of GM02SPModem
          enabled,              \* of GnssService
          call, at,             \* the operation that runs; its current command
          sent,                 \* commands written so far
          asked,                \* those the modem has still to answer
          line,                 \* tokens that have not been read
          response,             \* the tokens send_at has read
          returned,             \* history: the command and response of the last send_at
          cut_off               \* history: a send_at ended without an OK or ERROR

vars == <<state, network_type, enabled, call, at, sent, asked, line, response,
          returned, cut_off>>

None == "none"

\* The commands of every operation; send_tcp's second one follows the data.
Commands ==
    [new |-> <<"ATE0", "AT">>,
     register_network |-> <<"AT+QNBIOTEURC=1", "AT+CREG?", "AT+QNWINFO">>,
     get_signal_quality |-> <<"AT+CSQ", "AT+QENG">>,
     open_tcp |-> <<"AT+QIOPEN">>,
     send_tcp |-> <<"AT+QISEND", "">>,
     enable_gnss |-> <<"AT+QGPS=1">>,
     get_gnss_fix |-> <<"AT+QGPSLOC=2">>,
     wait_for_fix |-> <<"AT+QGPSLOC=2">>,
     get_esim_status |-> <<"AT+CIMI">>]

\* What the modem may answer (external).
Answers(cmd) ==
    {<<"ERROR">>} \cup
    CASE cmd = "AT+CREG?" -> {<<"registered", "OK">>, <<"searching", "OK">>}
      [] cmd = "AT+QNWINFO" -> {<<"LTE_M", "OK">>, <<"NTN", "OK">>}
      [] cmd = "AT+QISEND" -> {<<">">>, <<">", "OK">>}
      [] cmd = "" -> {<<"SEND OK">>}
      [] cmd = "AT+QGPSLOC=2" -> {<<"fix", "OK">>, <<"no fix", "OK">>}
      [] OTHER -> {<<"OK">>}

Contains(r, text) == \E i \in DOMAIN r : r[i].text = text
Ok(r) == Contains(r, "OK") \/ Contains(r, "SEND OK")

command == Commands[call][at]

----------------------------------------------------------------------------
Init ==
    /\ state = "Off" /\ network_type = "Unknown" /\ enabled = FALSE
    /\ call = None /\ at = 1 /\ sent = 0
    /\ asked = <<>> /\ line = <<>> /\ response = <<>>
    /\ returned = [command |-> 0, response |-> <<>>] /\ cut_off = FALSE

\* send_at writes its command.
Write(op, i) ==
    /\ sent < MaxCommands
    /\ call' = op /\ at' = i /\ sent' = sent + 1
    /\ asked' = Append(asked, [id |-> sent + 1, cmd |-> Commands[op][i]])
    /\ response' = <<>>

\* The operation returns.
Return == call' = None /\ at' = 1 /\ UNCHANGED <<sent, asked>> /\ response' = <<>>

\* Which operation may be called: new() comes first, get_fix needs `enabled`.
Call(op) ==
    /\ call = None
    /\ (op = "new") = (state = "Off")
    /\ op \in {"get_gnss_fix", "wait_for_fix"} => enabled
    /\ Write(op, 1)
    /\ UNCHANGED <<state, network_type, enabled, line, returned, cut_off>>

\* reset: nothing is sent, and nothing on the line is discarded.
Reset ==
    /\ call = None /\ state # "Off"
    /\ state' = "Booting"
    /\ UNCHANGED <<network_type, enabled, call, at, sent, asked, line, response,
                   returned, cut_off>>

\* The modem answers the oldest command (external).
Answer ==
    /\ asked # <<>>
    /\ \E a \in Answers(Head(asked).cmd) :
         line' = line \o [i \in DOMAIN a |-> [id |-> Head(asked).id, text |-> a[i]]]
    /\ asked' = Tail(asked)
    /\ UNCHANGED <<state, network_type, enabled, call, at, sent, response, returned, cut_off>>

\* Faulty variant of Complete: any text is a response.
AnyText(r) == r # <<>>

\* The two tests after a read().
Complete(r) == Ok(r) \/ Contains(r, "ERROR")

\* The next command, unless it (or the data of send_tcp before it) cannot be written.
Continue == Write(call, at + 1) \/ Return

\* get_fix returns; wait_for_fix asks again until there is a fix or its timeout is over.
UseFix(r) ==
    \/ call = "wait_for_fix" /\ Contains(r, "no fix") /\ Write(call, at)
    \/ Return

\* What the operation does with an Ok response r.
UseResponse(r) ==
    \/ command = "AT" /\ state' = "Booting" /\ Return /\ UNCHANGED <<network_type, enabled>>
    \/ /\ command = "AT+CREG?" /\ Contains(r, "registered")
       /\ state' = "Registered" /\ Continue /\ UNCHANGED <<network_type, enabled>>
    \/ \* ask again, or REG_TIMEOUT_MS is over
       /\ command = "AT+CREG?" /\ ~Contains(r, "registered")
       /\ Write(call, at) \/ Return
       /\ UNCHANGED <<state, network_type, enabled>>
    \/ \* NB-IoT is one more case of the same kind
       /\ command = "AT+QNWINFO"
       /\ network_type' = IF Contains(r, "LTE_M") THEN "LTE_M"
                          ELSE IF Contains(r, "NTN") THEN "NTN" ELSE network_type
       /\ Return /\ UNCHANGED <<state, enabled>>
    \/ command = "AT+QIOPEN" /\ state' = "Connected" /\ Return /\ UNCHANGED <<network_type, enabled>>
    \/ \* without the prompt: SendFailed
       /\ command = "AT+QISEND"
       /\ IF Contains(r, ">") THEN Continue ELSE Return
       /\ UNCHANGED <<state, network_type, enabled>>
    \/ command = "AT+QGPS=1" /\ enabled' = TRUE /\ Return /\ UNCHANGED <<state, network_type>>
    \/ /\ command = "AT+QGPSLOC=2" /\ UseFix(r)
       /\ UNCHANGED <<state, network_type, enabled>>
    \/ /\ command \in {"ATE0", "AT+QNBIOTEURC=1", "AT+CSQ"}
       /\ Continue /\ UNCHANGED <<state, network_type, enabled>>
    \/ /\ command \in {"AT+QENG", "", "AT+CIMI"}
       /\ Return /\ UNCHANGED <<state, network_type, enabled>>

\* read() returns n tokens.
Read(n) ==
    LET r == response \o SubSeq(line, 1, n)
    IN  /\ call # None /\ n \in 1..Len(line)
        /\ line' = SubSeq(line, n + 1, Len(line))
        /\ \/ /\ ~Complete(r) /\ response' = r
              /\ UNCHANGED <<state, network_type, enabled, call, at, sent, asked, returned>>
           \/ /\ Complete(r) /\ returned' = [command |-> sent, response |-> r]
              /\ \/ Ok(r) /\ UseResponse(r)
                 \/ ~Ok(r) /\ Return /\ UNCHANGED <<state, network_type, enabled>>
        /\ UNCHANGED cut_off

\* AT_TIMEOUT_MS is over, or the port fails.
GiveUp ==
    /\ call # None
    /\ Return /\ cut_off' = TRUE
    /\ UNCHANGED <<state, network_type, enabled, line, returned>>

Next ==
    \/ \E op \in DOMAIN Commands : Call(op)
    \/ Reset \/ Answer \/ GiveUp
    \/ \E n \in 1..Len(line) : Read(n)

----------------------------------------------------------------------------
(* Properties *)

\* gm02sp.rs:137, "Send AT command and wait for response": as long as no command was
\* given up, the response of a command consists of tokens of its own answer, and its
\* whole answer was taken off the line, however the answers are cut into reads.
OwnAnswers ==
    ~cut_off =>
        /\ \A i \in DOMAIN returned.response : returned.response[i].id = returned.command
        /\ call = None => line = <<>> /\ asked = <<>>
=============================================================================
