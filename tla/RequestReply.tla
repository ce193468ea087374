---------------------------- MODULE RequestReply ----------------------------
(***************************************************************************)
(* What an XPC connection promises its users: two ends, "client" and       *)
(* "peer"; the messages for an end reach its handler in the order they     *)
(* were sent, each once, and none is lost unless that end is cancelled or  *)
(* the process of the service dies; a request is answered at most once, by *)
(* a reply only after it was handled, by the error only if its connection  *)
(* was cancelled.                                                          *)
(***************************************************************************)
EXTENDS Naturals, Sequences

CONSTANTS
    Clients, \* connections
    Tags     \* messages

End == Clients \X {"client", "peer"}

VARIABLES
    channel,     \* messages on their way to the handler of each end
    handled,     \* messages the handlers have got
    closed,      \* the ends cancelled
    outstanding, \* requests of each client not yet answered
    answers      \* what each request was answered with, 0 for the error

rvars == <<channel, handled, closed, outstanding, answers>>

Init ==
    /\ channel = [e \in End |-> <<>>]
    /\ handled = {}
    /\ closed = {}
    /\ outstanding = [c \in Clients |-> {}]
    /\ answers = [t \in Tags |-> <<>>]

Ask(c, t) ==
    /\ answers[t] = <<>>
    /\ outstanding' = [outstanding EXCEPT ![c] = @ \cup {t}]
    /\ UNCHANGED <<channel, handled, closed, answers>>

\* A message that cannot be sent is lost: then nothing changes.
Transmit(e, t) ==
    /\ t \notin handled
    /\ \A d \in End : \A k \in DOMAIN channel[d] : channel[d][k] # t
    /\ channel' = [channel EXCEPT ![e] = Append(@, t)]
    /\ UNCHANGED <<handled, closed, outstanding, answers>>

Handle(e) ==
    /\ channel[e] # <<>>
    /\ handled' = handled \cup {Head(channel[e])}
    /\ channel' = [channel EXCEPT ![e] = Tail(@)]
    /\ UNCHANGED <<closed, outstanding, answers>>

Settle(c, t, how) ==
    /\ t \in outstanding[c]
    /\ outstanding' = [outstanding EXCEPT ![c] = @ \ {t}]
    /\ answers' = [answers EXCEPT ![t] = Append(@, how)]
    /\ UNCHANGED <<channel, handled, closed>>

Answer(c, t) == t \in handled /\ Settle(c, t, t)

Fail(c, t) == <<c, "client">> \in closed /\ Settle(c, t, 0)

Close(e) ==
    /\ closed' = closed \cup {e}
    /\ UNCHANGED <<channel, handled, outstanding, answers>>

\* A cancelled end loses what is on its way to it, at once or bit by bit.
Lose(e) ==
    /\ e \in closed
    /\ channel[e] # <<>>
    /\ \E lost \in SUBSET Tags :
         channel' = [channel EXCEPT ![e] = SelectSeq(@, LAMBDA t : t \notin lost)]
    /\ UNCHANGED <<handled, closed, outstanding, answers>>

\* The process of the service dies; the next one has other peers.
Restart ==
    /\ channel' = [e \in End |-> IF e[2] = "peer" THEN <<>> ELSE channel[e]]
    /\ closed' = {e \in closed : e[2] = "client"}
    /\ UNCHANGED <<handled, outstanding, answers>>

Next ==
    \/ \E c \in Clients, t \in Tags : Ask(c, t) \/ Answer(c, t) \/ Fail(c, t)
    \/ \E e \in End : Handle(e) \/ Close(e) \/ Lose(e) \/ \E t \in Tags : Transmit(e, t)
    \/ Restart

Spec == Init /\ [][Next]_rvars
=============================================================================
