---------------------------- MODULE XpcConnection ----------------------------
(***************************************************************************)
(* xpc_connection_t (userland/libxpc/xpc_connection.c): clients that find  *)
(* one service by name in launchd's registry and exchange messages with    *)
(* its listener, and the process of the service, which may crash and be    *)
(* started again by launchd.                                               *)
(*                                                                         *)
(* A client's connection has a port and a receive thread.  The listener    *)
(* has one port and one receive thread for all its clients, and a peer     *)
(* connection for each of them.  A connection's mutex is held only for     *)
(* short sections, each one step; a send, a wait for a semaphore or for    *)
(* the target queue is a step of its own.                                  *)
(*                                                                         *)
(* Target queues are serial and run every item in order (Executor).  The   *)
(* service is the one of xpctest.c: the listener's handler gives each peer *)
(* a handler, and that replies to every request; twice, if it likes.       *)
(***************************************************************************)
EXTENDS BootstrapRegistry, SequencesExt

CONSTANTS
    Clients,    \* client connections, each with a thread that uses it
    Name,       \* the name of the service
    MaxSends,   \* bound: messages sent that are not replies
    MaxEvents,  \* bound: those of them the service sends
    MaxFaults   \* bound: disturbances, which are calls of xpc_connection_cancel
                \* and _suspend, second replies to a request, and crashes

Tags == 1 .. MaxSends
Lives == Ports
End == Clients \X {"client", "peer"}
Client(c) == <<c, "client">>
Peer(c) == <<c, "peer">>

\* A process of the service is known by the port of its listener.
ASSUME XpcAssumption ==
    /\ Name \in Names
    /\ Ports \subseteq Nat /\ 1 \in Ports
    /\ Callers = Clients \cup Ports
    /\ None \notin Clients
    /\ {MaxSends, MaxEvents, MaxFaults} \subseteq Nat

VARIABLES
    cancelled,     \* of each end of a connection
    suspend_count, \* the same
    \* A client's thread and connection.
    pc,            \* "new", "lookup", "ready"; "append", "send", "wait" in a call
    sending,       \* the call: [tag, id, sync]
    remote_port,   \* the listener's port, None before or without a look-up
    local_port,    \* "none", "open", "closing" (cancelled), "destroyed"
    inbox,         \* messages queued on it
    next_msgid,
    pending,       \* struct xpc_pending: a sequence of [tag, id, sync]
    signalled,     \* the requests whose p->sem has been signalled
    freed,         \* how often each request's p has been freed
    \* The service.
    life,          \* the process running
    listener,      \* its listener: "new", "registering", "up"
    queued,        \* messages queued on the listener's port
    peers,         \* clients in the listener's list of peers
    handler,       \* clients whose peer has an event handler
    targetq,       \* items of the target queue of listener and peers
    running,       \* the message whose handler runs, None
    replies,       \* replies it has sent
    \* The receive threads: one of each client, and None, the listener's.
    rpc,           \* "none", "receive", "accept", "deliver", "fail", "dead"
    held,          \* the message each is working on
    failing,       \* the pending list fail_all_pending has detached
    \* How often, for the bounds; and history.
    sends, events, faults,
    answers,       \* the messages each request was answered with, 0 an error
    handled        \* the messages the handlers have got

gates == <<cancelled, suspend_count>>
thread == <<pc, sending>>
client == <<remote_port, local_port, inbox, next_msgid, pending, signalled, freed>>
server == <<life, listener, queued, peers, handler, targetq, running, replies>>
receivers == <<rpc, held, failing>>
counts == <<sends, events, faults>>
history == <<answers, handled>>
vars == <<registry, gates, thread, client, server, receivers, counts, history>>

Receivers == Clients \cup {None}
PC == {"new", "lookup", "ready", "append", "send", "wait"}
Call == [tag : Tags, id : Nat, sync : BOOLEAN]
Message == [client : Clients, tag : Tags, id : Nat, is_reply : BOOLEAN]

Init ==
    /\ RegistryInit
    /\ cancelled = [e \in End |-> FALSE]
    /\ suspend_count = [e \in End |-> 0]
    /\ pc = [c \in Clients |-> "new"]
    /\ sending = [c \in Clients |-> None]
    /\ remote_port = [c \in Clients |-> None]
    /\ local_port = [c \in Clients |-> "none"]
    /\ inbox = [c \in Clients |-> <<>>]
    /\ next_msgid = [c \in Clients |-> 0]
    /\ pending = [c \in Clients |-> <<>>]
    /\ signalled = {}
    /\ freed = [t \in Tags |-> 0]
    /\ life = 1
    /\ listener = "new"
    /\ queued = <<>>
    /\ peers = {}
    /\ handler = {}
    /\ targetq = <<>>
    /\ running = None
    /\ replies = 0
    /\ rpc = [x \in Receivers |-> "none"]
    /\ held = [x \in Receivers |-> None]
    /\ failing = [c \in Clients |-> <<>>]
    /\ sends = 0 /\ events = 0 /\ faults = 0
    /\ answers = [t \in Tags |-> <<>>]
    /\ handled = {}

Go(c, p) == pc' = [pc EXCEPT ![c] = p]
GoReceiver(x, p) == rpc' = [rpc EXCEPT ![x] = p]

-----------------------------------------------------------------------------
(***************************************************************************)
(* The client's thread.                                                    *)
(***************************************************************************)
\* xpc_connection_activate: bootstrap_look_up, and once it is answered the
\* port and the receive thread, if the name was found.
Activate(c) ==
    /\ pc[c] = "new"
    /\ Ask(c, Name, None)
    /\ Go(c, "lookup")
    /\ UNCHANGED <<gates, sending, client, server, receivers, counts, history>>

LookedUp(c) ==
    /\ pc[c] = "lookup"
    /\ Answered(c)
    /\ IF answer[c].found
       THEN /\ remote_port' = [remote_port EXCEPT ![c] = answer[c].port]
            /\ local_port' = [local_port EXCEPT ![c] = "open"]
            /\ GoReceiver(c, "receive")
       ELSE UNCHANGED <<remote_port, local_port, rpc>>
    /\ Go(c, "ready")
    /\ UNCHANGED <<registry, gates, sending, inbox, next_msgid, pending, signalled, freed,
                   server, held, failing, counts, history>>

\* Mutant: the request is sent before it is put on the pending list.
AfterSendingFirst(step, request) ==
    CASE step = "ready" -> "send"
      [] step = "send" /\ request -> "append"
      [] OTHER -> "done"

\* The order of a call's steps; an event is only sent.
After(step, request) ==
    CASE step = "ready" -> IF request THEN "append" ELSE "send"
      [] step = "append" -> "send"
      [] OTHER -> "done"

Step(c, call) ==
    LET next == After(pc[c], call.id # 0)
        end == next = "done" /\ ~call.sync
    IN  /\ Go(c, IF next # "done" THEN next ELSE IF call.sync THEN "wait" ELSE "ready")
        /\ sending' = [sending EXCEPT ![c] = IF end THEN None ELSE call]

\* Mutant: the counter is not advanced.
NextMsgidStuck(n) == 1

NextMsgid(n) == n + 1

\* xpc_connection_send_message, _with_reply, _with_reply_sync; a request
\* takes the next msgid under the lock.
Send(c, request, sync) ==
    /\ pc[c] = "ready"
    /\ sends < MaxSends
    /\ sends' = sends + 1
    /\ LET id == IF request THEN NextMsgid(next_msgid[c]) ELSE 0
           call == [tag |-> sends + 1, id |-> id, sync |-> sync]
       IN  /\ next_msgid' = [next_msgid EXCEPT ![c] = IF request THEN id ELSE @]
           /\ Step(c, call)
    /\ UNCHANGED <<registry, gates, remote_port, local_port, inbox, pending, signalled, freed,
                   server, receivers, events, faults, history>>

\* ... goes to the head of cd->pending, under the lock again ...
AddPending(c) ==
    /\ pc[c] = "append"
    /\ pending' = [pending EXCEPT ![c] = <<sending[c]>> \o @]
    /\ Step(c, sending[c])
    /\ UNCHANGED <<registry, gates, remote_port, local_port, inbox, next_msgid,
                   signalled, freed, server, receivers, counts, history>>

\* ... and send_wire: a message to a dead port is lost, the error logged.
SendWire(c) ==
    /\ pc[c] = "send"
    /\ queued' = IF remote_port[c] # life THEN queued
                 ELSE Append(queued, [client |-> c, tag |-> sending[c].tag,
                                      id |-> sending[c].id, is_reply |-> FALSE])
    /\ Step(c, sending[c])
    /\ UNCHANGED <<registry, gates, client, life, listener, peers, handler,
                   targetq, running, replies, receivers, counts, history>>

\* dispatch_semaphore_wait returns: the result is read and p freed.
Collect(c) ==
    /\ pc[c] = "wait"
    /\ sending[c].tag \in signalled
    /\ freed' = [freed EXCEPT ![sending[c].tag] = @ + 1]
    /\ Go(c, "ready")
    /\ sending' = [sending EXCEPT ![c] = None]
    /\ UNCHANGED <<registry, gates, remote_port, local_port, inbox, next_msgid,
                   pending, signalled, server, receivers, counts, history>>

-----------------------------------------------------------------------------
(***************************************************************************)
(* xpc_connection_suspend, _resume and _cancel, of a client's connection   *)
(* or of a peer, by any thread.                                            *)
(***************************************************************************)
Fault == faults < MaxFaults /\ faults' = faults + 1
Exists(e) == e[2] = "client" \/ e[1] \in peers

Suspend(e) ==
    /\ Exists(e)
    /\ Fault
    /\ suspend_count' = [suspend_count EXCEPT ![e] = @ + 1]
    /\ UNCHANGED <<registry, cancelled, thread, client, server, receivers,
                   sends, events, history>>

Resume(e) ==
    /\ suspend_count[e] > 0
    /\ suspend_count' = [suspend_count EXCEPT ![e] = @ - 1]
    /\ UNCHANGED <<registry, cancelled, thread, client, server, receivers, counts, history>>

\* A peer has no port of its own, nor has a client before its look-up.
Cancel(e) ==
    /\ Exists(e)
    /\ ~cancelled[e]
    /\ Fault
    /\ cancelled' = [cancelled EXCEPT ![e] = TRUE]
    /\ local_port' = IF e[2] = "client" /\ local_port[e[1]] = "open"
                     THEN [local_port EXCEPT ![e[1]] = "closing"] ELSE local_port
    /\ UNCHANGED <<registry, suspend_count, thread, remote_port, inbox, next_msgid, pending,
                   signalled, freed, server, receivers, sends, events, history>>

\* mach_port_destroy of the receive right, after the lock is released.
DestroyPort(c) ==
    /\ local_port[c] = "closing"
    /\ local_port' = [local_port EXCEPT ![c] = "destroyed"]
    /\ inbox' = [inbox EXCEPT ![c] = <<>>]
    /\ UNCHANGED <<registry, gates, thread, remote_port, next_msgid, pending, signalled, freed,
                   server, receivers, counts, history>>

-----------------------------------------------------------------------------
(***************************************************************************)
(* recv_thread_main.                                                       *)
(***************************************************************************)
\* deliver_event, once it may: the event is dropped if the connection is
\* cancelled or has no handler.
MayDeliver(e) == suspend_count[e] = 0 \/ cancelled[e]

\* complete_pending looks for the first entry of that msgid...
Found(list, id) ==
    {k \in DOMAIN list : list[k].id = id /\ \A l \in 1 .. k - 1 : list[l].id # id}

\* ... and, if there is one, takes it off the list and signals its caller, or
\* has the reply block dispatched.
Complete(c, m) ==
    \/ /\ Found(pending[c], m.id) = {}
       /\ UNCHANGED <<pending, signalled, answers>>
    \/ \E k \in Found(pending[c], m.id) :
         LET p == pending[c][k]
         IN  /\ pending' = [pending EXCEPT ![c] = RemoveAt(@, k)]
             /\ signalled' = IF p.sync THEN signalled \cup {p.tag} ELSE signalled
             /\ answers' = [answers EXCEPT ![p.tag] = Append(@, m.tag)]

\* A client's thread: a reply completes a request, an event is delivered.
Receive(c) ==
    /\ rpc[c] = "receive"
    /\ inbox[c] # <<>>
    /\ inbox' = [inbox EXCEPT ![c] = Tail(@)]
    /\ LET m == Head(inbox[c])
       IN  IF m.is_reply
           THEN Complete(c, m) /\ UNCHANGED <<rpc, held>>
           ELSE /\ held' = [held EXCEPT ![c] = m]
                /\ GoReceiver(c, "deliver")
                /\ UNCHANGED <<pending, signalled, answers>>
    /\ UNCHANGED <<registry, gates, thread, remote_port, local_port, next_msgid, freed, server,
                   failing, counts, handled>>

\* Its target queue runs the handler, in the order of the dispatches.
DeliverToClient(c) ==
    /\ rpc[c] = "deliver"
    /\ MayDeliver(Client(c))
    /\ handled' = IF cancelled[Client(c)] THEN handled
                  ELSE handled \cup {held[c].tag}
    /\ held' = [held EXCEPT ![c] = None]
    /\ GoReceiver(c, "receive")
    /\ UNCHANGED <<registry, gates, thread, client, server, failing, counts, answers>>

\* mach_msg fails, the port is gone: cancelled is set, then fail_all_pending
\* takes the whole list.
PortDied(c) ==
    /\ rpc[c] = "receive"
    /\ local_port[c] = "destroyed"
    /\ cancelled' = [cancelled EXCEPT ![Client(c)] = TRUE]
    /\ failing' = [failing EXCEPT ![c] = pending[c]]
    /\ pending' = [pending EXCEPT ![c] = <<>>]
    /\ GoReceiver(c, "fail")
    /\ UNCHANGED <<registry, suspend_count, thread, remote_port, local_port, inbox, next_msgid,
                   signalled, freed, server, held, counts, history>>

\* One entry fails.  Its p is freed here, also that of a caller who waits
\* and is going to free it.
FailNext(c) ==
    /\ rpc[c] = "fail"
    /\ failing[c] # <<>>
    /\ LET p == Head(failing[c])
       IN  /\ signalled' = IF p.sync THEN signalled \cup {p.tag} ELSE signalled
           /\ freed' = [freed EXCEPT ![p.tag] = @ + 1]
           /\ answers' = [answers EXCEPT ![p.tag] = Append(@, 0)]
    /\ failing' = [failing EXCEPT ![c] = Tail(@)]
    /\ UNCHANGED <<registry, gates, thread, remote_port, local_port, inbox, next_msgid, pending,
                   server, rpc, held, counts, handled>>

\* deliver_event drops XPC_ERROR_CONNECTION_INVALID, cancelled being set.
ReceiverEnds(c) ==
    /\ rpc[c] = "fail"
    /\ failing[c] = <<>>
    /\ GoReceiver(c, "dead")
    /\ UNCHANGED <<registry, gates, thread, client, server, held, failing, counts, history>>

\* Mutant: the accept is dispatched asynchronously.
AcceptAsync == "deliver"

\* What the listener's thread does after it has queued an accept.
AfterAccept == "accept"

\* The listener's thread: find_or_create_peer.  A new peer is shown to the
\* listener's handler through dispatch_sync_f.
ReceivePeer ==
    /\ rpc[None] = "receive"
    /\ queued # <<>>
    /\ queued' = Tail(queued)
    /\ LET m == Head(queued)
       IN  /\ held' = [held EXCEPT ![None] = m]
           /\ peers' = peers \cup {m.client}
           /\ IF m.client \in peers THEN GoReceiver(None, "deliver") /\ UNCHANGED targetq
              ELSE /\ GoReceiver(None, AfterAccept)
                   /\ targetq' = Append(targetq, [accept |-> TRUE, m |-> m])
    /\ UNCHANGED <<registry, gates, thread, client, life, listener, handler, running, replies,
                   failing, counts, history>>

\* dispatch_sync_f returns.
Accepted ==
    /\ rpc[None] = "accept"
    /\ held[None].client \in handler
    /\ GoReceiver(None, "deliver")
    /\ UNCHANGED <<registry, gates, thread, client, server, held, failing, counts, history>>

DeliverToPeer ==
    /\ rpc[None] = "deliver"
    /\ LET m == held[None]
           e == Peer(m.client)
       IN  /\ MayDeliver(e)
           /\ targetq' = IF cancelled[e] \/ m.client \notin handler THEN targetq
                         ELSE Append(targetq, [accept |-> FALSE, m |-> m])
    /\ held' = [held EXCEPT ![None] = None]
    /\ GoReceiver(None, "receive")
    /\ UNCHANGED <<registry, gates, thread, client, life, listener, queued, peers, handler,
                   running, replies, failing, counts, history>>

-----------------------------------------------------------------------------
(***************************************************************************)
(* The service: its target queue and its handlers.                         *)
(***************************************************************************)
RunAccept ==
    /\ running = None
    /\ targetq # <<>>
    /\ Head(targetq).accept
    /\ handler' = handler \cup {Head(targetq).m.client}
    /\ targetq' = Tail(targetq)
    /\ UNCHANGED <<registry, gates, thread, client, life, listener, queued, peers, running,
                   replies, receivers, counts, history>>

RunEvent ==
    /\ running = None
    /\ targetq # <<>>
    /\ ~Head(targetq).accept
    /\ running' = Head(targetq).m
    /\ handled' = handled \cup {Head(targetq).m.tag}
    /\ targetq' = Tail(targetq)
    /\ UNCHANGED <<registry, gates, thread, client, life, listener, queued, peers, handler,
                   replies, receivers, counts, answers>>

\* send_wire to the client whose message is being handled.
Post(m) ==
    inbox' = IF local_port[m.client] \in {"open", "closing"}
             THEN [inbox EXCEPT ![m.client] = Append(@, m)] ELSE inbox

\* xpc_connection_send_message of a dictionary from create_reply.
HandlerReplies ==
    /\ running # None
    /\ running.id # 0
    /\ replies = 0 \/ (replies = 1 /\ Fault)
    /\ replies = 0 => UNCHANGED faults
    /\ Post([running EXCEPT !.is_reply = TRUE])
    /\ replies' = replies + 1
    /\ UNCHANGED <<registry, gates, thread, remote_port, local_port, next_msgid, pending,
                   signalled, freed, life, listener, queued, peers, handler, targetq, running,
                   receivers, sends, events, history>>

\* The same of another message.
HandlerSends ==
    /\ running # None
    /\ events < MaxEvents
    /\ sends < MaxSends
    /\ events' = events + 1
    /\ sends' = sends + 1
    /\ Post([client |-> running.client, tag |-> sends + 1, id |-> 0, is_reply |-> FALSE])
    /\ UNCHANGED <<registry, gates, thread, remote_port, local_port, next_msgid, pending,
                   signalled, freed, server, receivers, faults, history>>

HandlerReturns ==
    /\ running # None
    /\ running.id = 0 \/ replies > 0
    /\ running' = None
    /\ replies' = 0
    /\ UNCHANGED <<registry, gates, thread, client, life, listener, queued, peers, handler,
                   targetq, receivers, counts, history>>

-----------------------------------------------------------------------------
(***************************************************************************)
(* The life of the service.                                                *)
(***************************************************************************)
\* xpc_connection_activate of the listener: a port, registered by name ...
StartListener ==
    /\ listener = "new"
    /\ Ask(life, Name, life)
    /\ listener' = "registering"
    /\ UNCHANGED <<gates, thread, client, life, queued, peers, handler, targetq, running,
                   replies, receivers, counts, history>>

\* ... and the receive thread.
ListenerUp ==
    /\ listener = "registering"
    /\ Answered(life)
    /\ listener' = "up"
    /\ GoReceiver(None, "receive")
    /\ UNCHANGED <<registry, gates, thread, client, life, queued, peers, handler, targetq,
                   running, replies, held, failing, counts, history>>

\* The process dies, its port with it; launchd starts another one.
Crash ==
    /\ life + 1 \in Lives
    /\ listener # "new"
    /\ Fault
    /\ life' = life + 1
    /\ listener' = "new"
    /\ queued' = <<>>
    /\ peers' = {}
    /\ handler' = {}
    /\ targetq' = <<>>
    /\ running' = None
    /\ replies' = 0
    /\ cancelled' = [e \in End |-> IF e[2] = "peer" THEN FALSE ELSE cancelled[e]]
    /\ suspend_count' = [e \in End |-> IF e[2] = "peer" THEN 0 ELSE suspend_count[e]]
    /\ GoReceiver(None, "none")
    /\ held' = [held EXCEPT ![None] = None]
    /\ UNCHANGED <<registry, thread, client, failing, sends, events, history>>

ServeNames == Serve /\ UNCHANGED <<gates, thread, client, server, receivers, counts, history>>

-----------------------------------------------------------------------------
ClientStep(c) ==
    LookedUp(c) \/ AddPending(c) \/ SendWire(c) \/ Collect(c) \/ DestroyPort(c)

ReceiverStep(c) ==
    Receive(c) \/ DeliverToClient(c) \/ PortDied(c) \/ FailNext(c) \/ ReceiverEnds(c)

ListenerStep == ReceivePeer \/ Accepted \/ DeliverToPeer

ServiceStep ==
    RunAccept \/ RunEvent \/ HandlerReplies \/ HandlerReturns \/ StartListener \/ ListenerUp

Next ==
    \/ \E c \in Clients :
         \/ Activate(c)
         \/ \E request, sync \in BOOLEAN : (sync => request) /\ Send(c, request, sync)
         \/ ClientStep(c)
         \/ ReceiverStep(c)
    \/ \E e \in End : Suspend(e) \/ Resume(e) \/ Cancel(e)
    \/ ListenerStep
    \/ ServiceStep
    \/ HandlerSends
    \/ Crash
    \/ ServeNames

Spec == Init /\ [][Next]_vars

(***************************************************************************)
(* Every thread that can go on does: the kernel runs it, and a handler of  *)
(* the service replies and returns.  Whoever suspends a connection resumes *)
(* it.  No call need be made, and nothing need crash.                      *)
(***************************************************************************)
Fairness ==
    /\ \A c \in Clients : WF_vars(ClientStep(c)) /\ WF_vars(ReceiverStep(c))
    /\ \A e \in End : WF_vars(Resume(e))
    /\ WF_vars(ListenerStep)
    /\ WF_vars(ServiceStep)
    /\ WF_vars(ServeNames)

FairSpec == Spec /\ Fairness

-----------------------------------------------------------------------------
(***************************************************************************)
(* The type invariant; no two requests waiting have the same msgid, so a   *)
(* reply completes the one it was made from.                               *)
(***************************************************************************)
TypeOK ==
    /\ RegistryTypeOK
    /\ cancelled \in [End -> BOOLEAN]
    /\ suspend_count \in [End -> Nat]
    /\ pc \in [Clients -> PC]
    /\ sending \in [Clients -> Call \cup {None}]
    /\ remote_port \in [Clients -> Lives \cup {None}]
    /\ local_port \in [Clients -> {"none", "open", "closing", "destroyed"}]
    /\ inbox \in [Clients -> Seq(Message)]
    /\ next_msgid \in [Clients -> Nat]
    /\ pending \in [Clients -> Seq(Call)]
    /\ \A c \in Clients : \A k, l \in DOMAIN pending[c] :
         pending[c][k].id <= next_msgid[c] /\ (pending[c][k].id = pending[c][l].id => k = l)
    /\ signalled \subseteq Tags
    /\ freed \in [Tags -> Nat]
    /\ life \in Lives
    /\ listener \in {"new", "registering", "up"}
    /\ queued \in Seq(Message)
    /\ peers \subseteq Clients
    /\ handler \subseteq peers
    /\ targetq \in Seq([accept : BOOLEAN, m : Message])
    /\ running \in Message \cup {None}
    /\ replies \in 0 .. 2
    /\ rpc \in [Receivers -> {"none", "receive", "accept", "deliver", "fail", "dead"}]
    /\ held \in [Receivers -> Message \cup {None}]
    /\ failing \in [Clients -> Seq(Call)]
    /\ answers \in [Tags -> Seq(Nat)]
    /\ handled \subseteq Tags

(***************************************************************************)
(* The connections implement RequestReply: messages reach the handlers in  *)
(* the order they were sent, and none gets lost although a peer exists     *)
(* before it has a handler ("a peer's handler is set before it can receive *)
(* events": find_or_create_peer's dispatch_sync_f); a request is answered  *)
(* once, after it was handled.                                             *)
(***************************************************************************)
TagsOf(msgs) == [k \in DOMAIN msgs |-> msgs[k].tag]
Held(x, c) == IF held[x] # None /\ held[x].client = c THEN <<held[x]>> ELSE <<>>
Events(msgs, c) == SelectSeq(msgs, LAMBDA m : m.client = c /\ ~m.is_reply)
Dispatched(c) == SelectSeq(targetq, LAMBDA i : ~i.accept /\ i.m.client = c)

Channel(e) ==
    LET c == e[1]
    IN  IF e[2] = "client" THEN TagsOf(Held(c, c) \o Events(inbox[c], c))
        ELSE [k \in DOMAIN Dispatched(c) |-> Dispatched(c)[k].m.tag]
               \o TagsOf(Held(None, c) \o Events(queued, c))

Outstanding(c) ==
    {pending[c][k].tag : k \in DOMAIN pending[c]} \cup {failing[c][k].tag : k \in DOMAIN failing[c]}

Promise == INSTANCE RequestReply WITH
    channel <- [e \in End |-> Channel(e)],
    closed <- {e \in End : cancelled[e]},
    outstanding <- [c \in Clients |-> Outstanding(c)]

ImplementsRequestReply == Promise!Spec

(***************************************************************************)
(* A request that waits for its reply is answered, unless its connection   *)
(* is cancelled at either end or the process it was sent to is gone.       *)
(***************************************************************************)
WaitsOn(t, c) == \E k \in DOMAIN pending[c] : pending[c][k].tag = t

Excused(c) == cancelled[Client(c)] \/ cancelled[Peer(c)] \/ remote_port[c] # life

RequestsAnswered ==
    \A t \in Tags :
        (\E c \in Clients : WaitsOn(t, c))
        ~> answers[t] # <<>> \/ \E c \in Clients : WaitsOn(t, c) /\ Excused(c)

(***************************************************************************)
(* A service launchd has respawned gets its name back: look-ups answered   *)
(* with its dead predecessor's port come to an end (handle_register).      *)
(***************************************************************************)
ServiceComesBack ==
    listener = "registering" ~> services[Name] = life \/ listener = "new"

(***************************************************************************)
(* "p itself is freed by the waiter" (complete_pending).  fail_all_pending *)
(* frees it as well: a cancel under a waiting caller refutes it (README,   *)
(* section 6).                                                             *)
(***************************************************************************)
FreedOnce == \A t \in Tags : freed[t] <= 1

(***************************************************************************)
(* A receive thread that dies "can't leave a caller blocked forever"       *)
(* (fail_all_pending).  A request put on the list after that is never      *)
(* taken off it, which refutes this too (README, section 6).               *)
(***************************************************************************)
CallersReturn == \A c \in Clients : pc[c] = "wait" /\ rpc[c] = "dead" ~> pc[c] # "wait"
=============================================================================
