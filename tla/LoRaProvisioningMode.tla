------------------------ MODULE LoRaProvisioningMode ------------------------
(***************************************************************************)
(* The LoRa provisioning mode of src/src/provisioning/lora_provisioning.rs *)
(* with the radio it uses: a task receives frames, registers the node of   *)
(* every join request with a session key, and answers with a join accept.  *)
(*                                                                         *)
(* The radio is behind a mutex.  The task locks it in the scrutinee of an  *)
(* `if let`, so the guard lives until the end of the `if let`: `guard` is  *)
(* released by EndIfLet only.  The locks of `active` and `nodes` are held  *)
(* within single statements and need no variable.                          *)
(***************************************************************************)
EXTENDS Integers, Sequences

CONSTANTS Tasks,          \* bound: the tasks of start() that run at the same time
          JoinRequests,   \* the frames that parse_join_request accepts, by number
          MaxHeard, MaxFaults

VARIABLES mode, fifo, irq, cs, op, size, data, result, heard, faults, returned,
          active, nodes,  \* of LoRaProvisioningMode; a node is the number of its request
          task,           \* task[t]: where the task is; "none": it does not run
          guard,          \* the tasks that hold the mutex of the radio: at most one
          node            \* node[t]: the node t is provisioning

Radio == INSTANCE LR1121

radio == <<mode, fifo, irq, cs, op, size, data, result, heard, faults, returned>>
vars == <<radio, active, nodes, task, guard, node>>

Init ==
    /\ Radio!Init
    /\ active = FALSE /\ nodes = {} /\ guard = {}
    /\ task = [t \in Tasks |-> "none"] /\ node = [t \in Tasks |-> 0]

Goto(t, now, next) == task[t] = now /\ task' = [task EXCEPT ![t] = next]

\* start(): every call spawns a task.
Start(t) ==
    /\ Goto(t, "none", "while")
    /\ active' = TRUE
    /\ UNCHANGED <<radio, nodes, guard, node>>

Stop ==
    /\ active' = FALSE
    /\ UNCHANGED <<radio, nodes, task, guard, node>>

\* The condition of the while loop.
While(t) ==
    /\ Goto(t, "while", IF active THEN "lock_rx" ELSE "none")
    /\ UNCHANGED <<radio, active, nodes, guard, node>>

\* lr1121.lock().await.rx_packet(): the guard is taken.
LockAndReceive(t) ==
    /\ Goto(t, "lock_rx", "receiving")
    /\ guard = {} /\ guard' = {t} /\ Radio!StartRx
    /\ UNCHANGED <<active, nodes, node>>

\* Whether the frame is parsed as a join request.  A frame that arrived between the
\* reads of its length and its data is torn, and may be or not.
IsJoinRequest == IF size = data THEN {data \in JoinRequests} ELSE BOOLEAN

\* rx_packet returned a join request: the node is registered.
Register(t) ==
    /\ Goto(t, "receiving", "lock_tx")
    /\ op = "idle" /\ result = "ok" /\ TRUE \in IsJoinRequest
    /\ nodes' = nodes \cup {data} /\ node' = [node EXCEPT ![t] = data]
    /\ UNCHANGED <<radio, active, guard>>

\* rx_packet returned an error or another frame.
Ignore(t) ==
    /\ Goto(t, "receiving", "end")
    /\ op = "idle" /\ (result = "err" \/ FALSE \in IsJoinRequest)
    /\ UNCHANGED <<radio, active, nodes, guard, node>>

\* lr1121.lock().await.tx_packet(&accept).
LockAndSend(t) ==
    /\ Goto(t, "lock_tx", "sending")
    /\ guard = {} /\ guard' = {t} /\ Radio!StartTx
    /\ UNCHANGED <<active, nodes, node>>

\* tx_packet returned; whatever it returned is ignored.
Sent(t) ==
    /\ Goto(t, "sending", "end")
    /\ op = "idle"
    /\ UNCHANGED <<radio, active, nodes, guard, node>>

\* The guard is dropped; 100 ms later the loop goes on.
EndIfLet(t) ==
    /\ Goto(t, "end", "while")
    /\ guard' = {}
    /\ UNCHANGED <<radio, active, nodes, node>>

RemoveNode(n) ==
    /\ nodes' = nodes \ {n}
    /\ UNCHANGED <<radio, active, task, guard, node>>

TaskStep(t) ==
    \/ While(t) \/ LockAndReceive(t) \/ Register(t) \/ Ignore(t)
    \/ LockAndSend(t) \/ Sent(t) \/ EndIfLet(t)

\* A frame on the air, or a transfer that fails.
Disturbance ==
    /\ Radio!Hear \/ (op # "idle" /\ Radio!SpiFails)
    /\ UNCHANGED <<active, nodes, task, guard, node>>

RadioStep ==
    /\ Radio!Transmitted \/ Radio!DriverStep
    /\ UNCHANGED <<active, nodes, task, guard, node>>

Next ==
    \/ \E t \in Tasks : Start(t) \/ TaskStep(t)
    \/ \E n \in nodes : RemoveNode(n)
    \/ Stop \/ RadioStep \/ Disturbance

\* The runtime polls the tasks, and the driver and the chip do their work; nobody has
\* to send a frame or to press the button.
FairSpec ==
    /\ Init /\ [][Next]_vars
    /\ \A t \in Tasks : WF_vars(TaskStep(t))
    /\ WF_vars(RadioStep)

----------------------------------------------------------------------------
(* Properties *)

\* lora_provisioning.rs:5, "Listens for Float Node join requests, issues session
\* keys": a task that has registered a node goes on to send its join accept.
JoinAnswered ==
    \A t \in Tasks : (task[t] = "lock_tx") ~> (task[t] = "sending")
=============================================================================
