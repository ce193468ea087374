------------------------- MODULE XpcConnectionProofs -------------------------
(***************************************************************************)
(* That launchd's registry holds one right per entry, that no two requests *)
(* of a connection wait under one msgid, and that every thread finds the   *)
(* message or call its next step needs: for any clients, names and ports.  *)
(***************************************************************************)
EXTENDS XpcConnection, FiniteSetTheorems, SequenceTheorems, TLAPS

\* The entries of a port; finitely many, each made by a request.
Entries(p) == {n \in Names : services[n] = p}

RegistryOK ==
    /\ RegistryTypeOK
    /\ RightsBalanced
    /\ \A p \in Ports : IsFiniteSet(Entries(p))

GatesOK ==
    /\ cancelled \in [End -> BOOLEAN]
    /\ suspend_count \in [End -> Nat]

\* A thread in a call has one, and the msgid it took is not in use.
ThreadOK ==
    /\ pc \in [Clients -> PC]
    /\ sending \in [Clients -> Call \cup {None}]
    /\ \A c \in Clients :
         /\ pc[c] \in {"append", "send", "wait"} => sending[c] \in Call
         /\ pc[c] = "append" =>
              /\ sending[c].id = next_msgid[c]
              /\ \A k \in DOMAIN pending[c] : pending[c][k].id < next_msgid[c]

\* No two entries of a list have one msgid, and none is still to be given.
Distinct(list, n) ==
    \A k, l \in DOMAIN list : list[k].id <= n /\ (list[k].id = list[l].id => k = l)

ClientOK ==
    /\ remote_port \in [Clients -> Lives \cup {None}]
    /\ local_port \in [Clients -> {"none", "open", "closing", "destroyed"}]
    /\ inbox \in [Clients -> Seq(Message)]
    /\ next_msgid \in [Clients -> Nat]
    /\ pending \in [Clients -> Seq(Call)]
    /\ \A c \in Clients : Distinct(pending[c], next_msgid[c])
    /\ signalled \subseteq Tags
    /\ freed \in [Tags -> Nat]

\* What waits on the target queue is for a peer that exists.
Item == [accept : BOOLEAN, m : Message]

ServerOK ==
    /\ life \in Lives
    /\ listener \in {"new", "registering", "up"}
    /\ queued \in Seq(Message)
    /\ peers \subseteq Clients
    /\ handler \subseteq peers
    /\ targetq \in Seq(Item)
    /\ \A k \in DOMAIN targetq : targetq[k].m.client \in peers
    /\ running \in Message \cup {None}
    /\ replies \in 0 .. 2

\* A receive thread about to deliver holds a message.
ReceiversOK ==
    /\ rpc \in [Receivers -> {"none", "receive", "accept", "deliver", "fail", "dead"}]
    /\ held \in [Receivers -> Message \cup {None}]
    /\ \A x \in Receivers : rpc[x] \in {"accept", "deliver"} => held[x] \in Message
    /\ rpc[None] \in {"accept", "deliver"} => held[None].client \in peers
    /\ failing \in [Clients -> Seq(Call)]

HistoryOK ==
    /\ answers \in [Tags -> Seq(Nat)]
    /\ handled \subseteq Tags
    /\ sends \in Nat

XpcInv ==
    /\ RegistryOK
    /\ GatesOK
    /\ ThreadOK
    /\ ClientOK
    /\ ServerOK
    /\ ReceiversOK
    /\ HistoryOK

USE RegistryAssumption, XpcAssumption DEF RegistryAssumption, XpcAssumption

-----------------------------------------------------------------------------
LEMMA InvIsTyped == XpcInv => TypeOK /\ RightsBalanced
  BY DEF XpcInv, RegistryOK, GatesOK, ThreadOK, ClientOK, ServerOK, ReceiversOK, HistoryOK,
         Distinct, Item, TypeOK

\* A part of the state that a step leaves alone stays as it should be.
LEMMA Frame ==
  ASSUME XpcInv
  PROVE  /\ UNCHANGED registry => RegistryOK'
         /\ UNCHANGED gates => GatesOK'
         /\ UNCHANGED <<thread, next_msgid, pending>> => ThreadOK'
         /\ UNCHANGED client => ClientOK'
         /\ UNCHANGED server => ServerOK'
         /\ UNCHANGED <<receivers, peers>> => ReceiversOK'
         /\ UNCHANGED <<history, sends>> => HistoryOK'
  <1> USE DEF XpcInv
  <1>1. UNCHANGED registry => RegistryOK'
    BY DEF RegistryOK, registry, RegistryTypeOK, RightsBalanced, Entries
  <1>2. UNCHANGED gates => GatesOK'
    BY DEF GatesOK, gates
  <1>3. UNCHANGED <<thread, next_msgid, pending>> => ThreadOK'
    BY DEF ThreadOK, thread
  <1>4. UNCHANGED client => ClientOK'
    BY DEF ClientOK, client, Distinct
  <1>5. UNCHANGED server => ServerOK'
    BY DEF ServerOK, server
  <1>6. UNCHANGED <<receivers, peers>> => ReceiversOK'
    BY DEF ReceiversOK, receivers
  <1>7. UNCHANGED <<history, sends>> => HistoryOK'
    BY DEF HistoryOK, history
  <1> QED
    BY <1>1, <1>2, <1>3, <1>4, <1>5, <1>6, <1>7

LEMMA InitXpc == Init => XpcInv
  <1> SUFFICES ASSUME Init PROVE XpcInv
    OBVIOUS
  <1>1. RegistryOK
    <2>1. \A p \in Ports : Entries(p) = {}
      BY DEF Init, RegistryInit, Entries
    <2>2. RegistryTypeOK
      BY DEF Init, RegistryInit, RegistryTypeOK
    <2>3. RightsBalanced
      BY <2>1, FS_EmptySet DEF Init, RegistryInit, RightsBalanced, Entries
    <2> QED
      BY <2>1, <2>2, <2>3, FS_EmptySet DEF RegistryOK
  <1>2. GatesOK /\ ThreadOK
    BY DEF Init, GatesOK, ThreadOK, PC
  <1>3. ClientOK
    BY DEF Init, ClientOK, Distinct
  <1>4. ServerOK
    BY DEF Init, ServerOK, Lives
  <1>5. ReceiversOK
    BY DEF Init, ReceiversOK, Receivers
  <1>6. HistoryOK
    BY DEF Init, HistoryOK
  <1> QED
    BY <1>1, <1>2, <1>3, <1>4, <1>5, <1>6 DEF XpcInv

-----------------------------------------------------------------------------
(***************************************************************************)
(* The registry.                                                           *)
(***************************************************************************)
LEMMA AskKeeps ==
  ASSUME RegistryOK, NEW c \in Callers, NEW n \in Names, NEW p \in Ports \cup {None},
         Ask(c, n, p)
  PROVE  RegistryOK'
  <1>1. [caller |-> c, name |-> n, port |-> p] \in Request
    BY DEF Request
  <1>2. RegistryTypeOK'
    BY <1>1 DEF Ask, RegistryOK, RegistryTypeOK
  <1>3. RightsBalanced' /\ \A q \in Ports : IsFiniteSet(Entries(q)')
    BY DEF Ask, RegistryOK, RightsBalanced, Entries
  <1> QED
    BY <1>2, <1>3 DEF RegistryOK

\* handle_register moves a name from the entries of one port to another's,
\* and with it one right.
LEMMA RegisterKeeps ==
  ASSUME RegistryOK, NEW r \in Request, r.port # None, handle_register(r),
         NEW p \in Ports
  PROVE  /\ rights' \in [Ports -> Int]
         /\ IsFiniteSet(Entries(p)')
         /\ rights'[p] = Cardinality(Entries(p)')
  <1>1. PICK n, new, old : n = r.name /\ new = r.port /\ old = services[r.name]
    OBVIOUS
  <1>2. n \in Names /\ new \in Ports /\ old \in Ports \cup {None}
    BY <1>1 DEF Request, RegistryOK, RegistryTypeOK
  <1>3. services' = [services EXCEPT ![n] = new]
    BY <1>1 DEF handle_register, Registered
  <1>4. \A m \in Names : services'[m] = IF m = n THEN new ELSE services[m]
    BY <1>3 DEF RegistryOK, RegistryTypeOK
  <1>5. /\ rights \in [Ports -> Nat]
        /\ rights' = Drop([rights EXCEPT ![new] = @ + 1], old)
    BY <1>1 DEF handle_register, RegistryOK, RegistryTypeOK
  <1>6. /\ rights' \in [Ports -> Int]
        /\ rights'[p] = rights[p] + (IF p = new THEN 1 ELSE 0) - (IF p = old THEN 1 ELSE 0)
    <2> DEFINE more == [rights EXCEPT ![new] = @ + 1]
    <2>1. /\ more \in [Ports -> Nat]
          /\ \A q \in Ports : more[q] = rights[q] + (IF q = new THEN 1 ELSE 0)
      BY <1>2, <1>5
    <2>2. rights' = IF old = None THEN more ELSE [more EXCEPT ![old] = @ - 1]
      BY <1>5 DEF Drop
    <2> HIDE DEF more
    <2>3. rights[p] \in Nat
      BY <1>5
    <2>4. CASE old = None
      BY <2>1, <2>2, <2>3, <2>4
    <2>5. CASE old \in Ports
      <3>1. rights' = [more EXCEPT ![old] = @ - 1]
        BY <2>2, <2>5
      <3> QED
        BY <2>1, <2>3, <2>5, <3>1
    <2> QED
      BY <1>2, <2>4, <2>5
  <1>7. /\ IsFiniteSet(Entries(p))
        /\ rights[p] = Cardinality(Entries(p))
        /\ rights[p] \in Nat
    BY <1>5 DEF RegistryOK, RightsBalanced, Entries
  <1>8. n \in Entries(p) <=> p = old
    BY <1>1, <1>2 DEF Entries
  <1>9. CASE p = new
    <2>1. Entries(p)' = Entries(p) \cup {n}
      BY <1>2, <1>4, <1>9 DEF Entries
    <2>2. /\ IsFiniteSet(Entries(p) \cup {n})
          /\ Cardinality(Entries(p) \cup {n}) = IF n \in Entries(p) THEN Cardinality(Entries(p))
                                                ELSE Cardinality(Entries(p)) + 1
      BY ONLY <1>7, FS_AddElement
    <2> QED
      BY <2>1, <1>6, <1>7, <1>8, <1>9, <2>2
  <1>10. CASE p # new
    <2>1. Entries(p)' = Entries(p) \ {n}
      BY <1>2, <1>4, <1>10 DEF Entries
    <2>2. /\ IsFiniteSet(Entries(p) \ {n})
          /\ Cardinality(Entries(p) \ {n}) = IF n \in Entries(p) THEN Cardinality(Entries(p)) - 1
                                             ELSE Cardinality(Entries(p))
      BY ONLY <1>7, FS_RemoveElement
    <2> QED
      BY <2>1, <1>6, <1>7, <1>8, <1>10, <2>2
  <1> QED
    BY <1>9, <1>10

LEMMA ServeKeeps ==
  ASSUME RegistryOK, Serve
  PROVE  RegistryOK'
  <1>1. PICK r : r = Head(requests)
    OBVIOUS
  <1>2. /\ requests # <<>>
        /\ requests' = Tail(requests)
        /\ requests \in Seq(Request)
    BY DEF Serve, RegistryOK, RegistryTypeOK
  <1>3. r \in Request /\ requests' \in Seq(Request)
    BY <1>1, <1>2
  <1>4. CASE r.port = None
    <2>1. handle_look_up(r)
      BY <1>1, <1>4 DEF Serve
    <2>2. [found |-> services[r.name] # None, port |-> services[r.name]] \in Answer
      BY <1>3 DEF Request, Answer, RegistryOK, RegistryTypeOK
    <2>3. RegistryTypeOK'
      BY <1>3, <2>1, <2>2 DEF handle_look_up, Reply, RegistryOK, RegistryTypeOK
    <2>4. RightsBalanced' /\ \A q \in Ports : IsFiniteSet(Entries(q)')
      BY <2>1 DEF handle_look_up, RegistryOK, RightsBalanced, Entries
    <2> QED
      BY <2>3, <2>4 DEF RegistryOK
  <1>5. CASE r.port # None
    <2>1. handle_register(r)
      BY <1>1, <1>5 DEF Serve
    <2>2. \A q \in Ports : /\ rights' \in [Ports -> Int]
                           /\ IsFiniteSet(Entries(q)')
                           /\ rights'[q] = Cardinality(Entries(q)')
      BY <1>3, <1>5, <2>1, RegisterKeeps
    <2>3. \A q \in Ports : rights'[q] \in Nat
      BY <2>2, FS_CardinalityType
    <2>4. rights' \in [Ports -> Nat]
      BY <2>2, <2>3
    <2>5. [found |-> TRUE, port |-> r.port] \in Answer
      BY <1>3 DEF Request, Answer
    <2>6. RegistryTypeOK'
      BY <1>3, <1>5, <2>1, <2>4, <2>5
         DEF handle_register, Registered, Reply, Request, RegistryOK, RegistryTypeOK
    <2>7. RightsBalanced'
      BY <2>2 DEF RightsBalanced, Entries
    <2> QED
      BY <2>2, <2>6, <2>7 DEF RegistryOK
  <1> QED
    BY <1>4, <1>5

-----------------------------------------------------------------------------
(***************************************************************************)
(* The steps of a call.                                                    *)
(***************************************************************************)
LEMMA ActivateStep ==
  ASSUME XpcInv, NEW c \in Clients, Activate(c)
  PROVE  XpcInv'
  <1> USE DEF XpcInv
  <1>1. RegistryOK'
    BY AskKeeps DEF Activate
  <1>2. ThreadOK'
    BY DEF Activate, Go, client, ThreadOK, PC
  <1> QED
    BY <1>1, <1>2, Frame DEF Activate, server, counts

LEMMA LookedUpStep ==
  ASSUME XpcInv, NEW c \in Clients, LookedUp(c)
  PROVE  XpcInv'
  <1> USE DEF XpcInv
  <1>1. answer[c] \in Answer
    BY DEF LookedUp, Answered, RegistryOK, RegistryTypeOK
  <1>2. ThreadOK'
    BY DEF LookedUp, Go, ThreadOK, PC
  <1>3. ClientOK'
    <2>1. answer[c].port \in Lives \cup {None}
      BY <1>1 DEF Answer, Lives
    <2>2. /\ remote_port' \in [Clients -> Lives \cup {None}]
          /\ local_port' \in [Clients -> {"none", "open", "closing", "destroyed"}]
      BY <2>1 DEF LookedUp, ClientOK
    <2> QED
      BY <2>2 DEF LookedUp, ClientOK, Distinct
  <1>4. ReceiversOK'
    BY DEF LookedUp, GoReceiver, ReceiversOK, Receivers, server
  <1> QED
    BY <1>2, <1>3, <1>4, Frame DEF LookedUp, server, counts

LEMMA SendStep ==
  ASSUME XpcInv, NEW c \in Clients, NEW request \in BOOLEAN, NEW sync \in BOOLEAN,
         sync => request, Send(c, request, sync)
  PROVE  XpcInv'
  <1> USE DEF XpcInv
  <1>1. next_msgid[c] \in Nat /\ sends \in Nat /\ sends < MaxSends
    BY DEF Send, ClientOK, HistoryOK
  <1>2. PICK id \in Nat : id = IF request THEN next_msgid[c] + 1 ELSE 0
    BY <1>1
  <1>3. PICK call \in Call : /\ call = [tag |-> sends + 1, id |-> id, sync |-> sync]
                            /\ call.id = id
                            /\ call.sync = sync
    <2>1. MaxSends \in Nat
      OBVIOUS
    <2>2. sends + 1 \in Tags
      BY <1>1, <2>1 DEF Tags
    <2>3. [tag |-> sends + 1, id |-> id, sync |-> sync] \in Call
      BY <2>2 DEF Call
    <2> QED
      BY <2>3
  <1>4. /\ pc[c] = "ready"
        /\ sends' = sends + 1
        /\ next_msgid' = [next_msgid EXCEPT ![c] = IF request THEN id ELSE @]
        /\ Step(c, call)
    BY <1>2, <1>3 DEF Send, NextMsgid
  <1>5. /\ pc' = [pc EXCEPT ![c] = IF request THEN "append" ELSE "send"]
        /\ sending' = [sending EXCEPT ![c] = call]
    <2>1. call.id # 0 <=> request
      BY <1>1, <1>2, <1>3
    <2>2. After(pc[c], call.id # 0) = IF request THEN "append" ELSE "send"
      BY <1>4, <2>1 DEF After
    <2> QED
      BY <1>4, <2>2 DEF Step, Go
  <1>6. UNCHANGED <<remote_port, local_port, inbox, pending, signalled, freed>>
    BY DEF Send
  <1>7. ThreadOK'
    <2>1. /\ pc' \in [Clients -> PC]
          /\ sending' \in [Clients -> Call \cup {None}]
      BY <1>5 DEF ThreadOK, PC
    <2>2. ASSUME NEW b \in Clients, b # c
          PROVE  /\ pc'[b] = pc[b]
                 /\ sending'[b] = sending[b]
                 /\ next_msgid'[b] = next_msgid[b]
      BY <1>4, <1>5, <2>2 DEF ThreadOK, ClientOK
    <2>3. sending'[c] = call /\ (pc'[c] = "append" => next_msgid'[c] = id /\ id = next_msgid[c] + 1)
      BY <1>2, <1>4, <1>5 DEF ThreadOK, ClientOK
    <2>4. \A k \in DOMAIN pending[c] : pending[c][k].id < next_msgid[c] + 1
      <3>1. \A k \in DOMAIN pending[c] : pending[c][k] \in Call
        BY DEF ClientOK
      <3>2. \A k \in DOMAIN pending[c] : pending[c][k].id \in Nat
        BY <3>1 DEF Call
      <3>3. \A k \in DOMAIN pending[c] : pending[c][k].id <= next_msgid[c]
        BY DEF ClientOK, Distinct
      <3> QED
        BY <1>1, <3>2, <3>3
    <2>5. \A b \in Clients :
            /\ pc'[b] \in {"append", "send", "wait"} => sending'[b] \in Call
            /\ pc'[b] = "append" =>
                 /\ sending'[b].id = next_msgid'[b]
                 /\ \A k \in DOMAIN pending[b] : pending[b][k].id < next_msgid'[b]
      BY <1>3, <2>2, <2>3, <2>4 DEF ThreadOK
    <2> QED
      BY <1>6, <2>1, <2>5 DEF ThreadOK
  <1>8. ClientOK'
    <2>1. next_msgid' \in [Clients -> Nat]
      BY <1>2, <1>4 DEF ClientOK
    <2>2. \A b \in Clients : next_msgid[b] <= next_msgid'[b]
      BY <1>1, <1>2, <1>4 DEF ClientOK
    <2>3. ASSUME NEW b \in Clients PROVE Distinct(pending[b], next_msgid'[b])
      <3>1. \A k \in DOMAIN pending[b] : pending[b][k].id \in Nat
        <4>1. \A k \in DOMAIN pending[b] : pending[b][k] \in Call
          BY DEF ClientOK
        <4> QED
          BY <4>1 DEF Call
      <3>2. next_msgid[b] \in Nat /\ next_msgid'[b] \in Nat /\ next_msgid[b] <= next_msgid'[b]
        BY <2>1, <2>2 DEF ClientOK
      <3>3. Distinct(pending[b], next_msgid[b])
        BY DEF ClientOK
      <3> QED
        BY <3>1, <3>2, <3>3 DEF Distinct
    <2> QED
      BY <1>6, <2>1, <2>3 DEF ClientOK
  <1>9. HistoryOK'
    BY <1>1, <1>4 DEF Send, HistoryOK, history
  <1> QED
    BY <1>7, <1>8, <1>9, Frame DEF Send, server

LEMMA AddPendingStep ==
  ASSUME XpcInv, NEW c \in Clients, AddPending(c)
  PROVE  XpcInv'
  <1> USE DEF XpcInv
  <1>1. PICK call \in Call : call = sending[c]
    BY DEF AddPending, ThreadOK
  <1>2. PICK list \in Seq(Call) : list = pending[c]
    BY DEF ClientOK
  <1>3. /\ pc[c] = "append"
        /\ pending' = [pending EXCEPT ![c] = <<call>> \o list]
        /\ pc' = [pc EXCEPT ![c] = "send"]
        /\ sending' = [sending EXCEPT ![c] = call]
        /\ UNCHANGED <<remote_port, local_port, inbox, next_msgid, signalled, freed>>
    BY <1>1, <1>2 DEF AddPending, Step, After, Go
  <1>4. /\ call.id = next_msgid[c]
        /\ \A k \in DOMAIN list : list[k].id < next_msgid[c]
    BY <1>1, <1>2, <1>3 DEF ThreadOK
  <1>5. ThreadOK'
    BY <1>3 DEF ThreadOK, PC
  <1>6. ClientOK'
    <2>1. /\ <<call>> \o list \in Seq(Call)
          /\ DOMAIN list = 1 .. Len(list)
          /\ Len(list) \in Nat
          /\ DOMAIN (<<call>> \o list) = 1 .. Len(list) + 1
          /\ (<<call>> \o list)[1] = call
          /\ \A k \in 1 .. Len(list) : (<<call>> \o list)[k + 1] = list[k]
      OBVIOUS
    <2> DEFINE new == <<call>> \o list
    <2>2. \A k \in 2 .. Len(list) + 1 : k - 1 \in DOMAIN list /\ new[k] = list[k - 1]
      BY <2>1
    <2> HIDE DEF new
    <2>3. Distinct(list, next_msgid[c]) /\ next_msgid[c] \in Nat
      BY <1>2 DEF ClientOK
    <2>4. \A k \in DOMAIN list : list[k].id \in Nat
      <3>1. \A k \in DOMAIN list : list[k] \in Call
        OBVIOUS
      <3> QED
        BY <3>1 DEF Call
    <2>5. Distinct(new, next_msgid[c])
      <3> SUFFICES ASSUME NEW k \in DOMAIN new, NEW l \in DOMAIN new
                   PROVE  /\ new[k].id <= next_msgid[c]
                          /\ new[k].id = new[l].id => k = l
        BY DEF Distinct
      <3>1. k \in 1 .. Len(list) + 1 /\ l \in 1 .. Len(list) + 1 /\ new[1] = call
        BY <2>1 DEF new
      <3>2. CASE k = 1 /\ l = 1
        BY <1>4, <2>3, <3>1, <3>2
      <3>3. CASE k = 1 /\ l # 1
        BY <1>4, <2>2, <2>3, <2>4, <3>1, <3>3
      <3>4. CASE k # 1 /\ l = 1
        BY <1>4, <2>2, <2>3, <2>4, <3>1, <3>4
      <3>5. CASE k # 1 /\ l # 1
        <4>1. /\ k - 1 \in DOMAIN list /\ l - 1 \in DOMAIN list
              /\ new[k] = list[k - 1] /\ new[l] = list[l - 1]
          BY <2>2, <3>1, <3>5
        <4>2. /\ list[k - 1].id <= next_msgid[c]
              /\ list[k - 1].id = list[l - 1].id => k - 1 = l - 1
          BY <2>3, <4>1 DEF Distinct
        <4> QED
          BY <3>1, <4>1, <4>2
      <3> QED
        BY <3>2, <3>3, <3>4, <3>5
    <2>6. pending' = [pending EXCEPT ![c] = new] /\ new \in Seq(Call)
      BY <1>3, <2>1 DEF new
    <2>7. pending' \in [Clients -> Seq(Call)] /\ \A b \in Clients : Distinct(pending'[b], next_msgid[b])
      BY <2>5, <2>6 DEF ClientOK
    <2> QED
      BY <1>3, <2>7 DEF ClientOK
  <1> QED
    BY <1>5, <1>6, Frame DEF AddPending, server, counts

LEMMA SendWireStep ==
  ASSUME XpcInv, NEW c \in Clients, SendWire(c)
  PROVE  XpcInv'
  <1> USE DEF XpcInv
  <1>1. PICK call \in Call : call = sending[c]
    BY DEF SendWire, ThreadOK
  <1>2. /\ pc' = [pc EXCEPT ![c] = IF call.sync THEN "wait" ELSE "ready"]
        /\ sending' = [sending EXCEPT ![c] = IF call.sync THEN call ELSE None]
    BY <1>1 DEF SendWire, Step, After, Go
  <1>3. ThreadOK'
    BY <1>2 DEF SendWire, client, ThreadOK, PC
  <1>4. [client |-> c, tag |-> call.tag, id |-> call.id, is_reply |-> FALSE] \in Message
    BY DEF Call, Message
  <1>5. queued' \in Seq(Message)
    BY <1>1, <1>4 DEF SendWire, ServerOK
  <1>6. ServerOK'
    BY <1>5 DEF SendWire, ServerOK
  <1> QED
    BY <1>3, <1>6, Frame DEF SendWire, client, counts

LEMMA CollectStep ==
  ASSUME XpcInv, NEW c \in Clients, Collect(c)
  PROVE  XpcInv'
  <1> USE DEF XpcInv
  <1>1. ThreadOK'
    BY DEF Collect, Go, ThreadOK, PC
  <1>2. PICK tag \in Tags : tag = sending[c].tag
    BY DEF Collect, ThreadOK, Call
  <1>3. freed' \in [Tags -> Nat]
    BY <1>2 DEF Collect, ClientOK
  <1>4. ClientOK'
    BY <1>3 DEF Collect, ClientOK, Distinct
  <1> QED
    BY <1>1, <1>4, Frame DEF Collect, server, counts

LEMMA GateStep ==
  ASSUME XpcInv, NEW e \in End, Suspend(e) \/ Resume(e) \/ Cancel(e)
  PROVE  XpcInv'
  <1> USE DEF XpcInv
  <1>1. CASE Suspend(e)
    <2>1. GatesOK'
      BY <1>1 DEF Suspend, GatesOK
    <2> QED
      BY <1>1, <2>1, Frame DEF Suspend, client, server
  <1>2. CASE Resume(e)
    <2>1. suspend_count[e] \in Nat /\ suspend_count[e] > 0
      BY <1>2 DEF Resume, GatesOK
    <2>2. GatesOK'
      BY <1>2, <2>1 DEF Resume, GatesOK
    <2> QED
      BY <1>2, <2>2, Frame DEF Resume, client, server, counts
  <1>3. CASE Cancel(e)
    <2>1. GatesOK'
      BY <1>3 DEF Cancel, GatesOK
    <2>2. local_port' \in [Clients -> {"none", "open", "closing", "destroyed"}]
      BY <1>3 DEF Cancel, ClientOK
    <2>3. ClientOK'
      BY <1>3, <2>2 DEF Cancel, ClientOK, Distinct
    <2> QED
      BY <1>3, <2>1, <2>3, Frame DEF Cancel, server
  <1> QED
    BY <1>1, <1>2, <1>3

LEMMA DestroyPortStep ==
  ASSUME XpcInv, NEW c \in Clients, DestroyPort(c)
  PROVE  XpcInv'
  <1> USE DEF XpcInv
  <1>1. ClientOK'
    BY DEF DestroyPort, ClientOK, Distinct
  <1> QED
    BY <1>1, Frame DEF DestroyPort, server, counts

-----------------------------------------------------------------------------
(***************************************************************************)
(* The receive threads.                                                    *)
(***************************************************************************)
\* What RemoveAt returns, position by position.
LEMMA RemoveAtElements ==
  ASSUME NEW S, NEW s \in Seq(S), NEW i \in 1 .. Len(s)
  PROVE  /\ RemoveAt(s, i) \in Seq(S)
         /\ DOMAIN RemoveAt(s, i) = 1 .. Len(s) - 1
         /\ \A k \in 1 .. Len(s) - 1 :
              RemoveAt(s, i)[k] = IF k < i THEN s[k] ELSE s[k + 1]
  <1> DEFINE front == SubSeq(s, 1, i - 1)
             back == SubSeq(s, i + 1, Len(s))
  <1>1. /\ front \in Seq(S)
        /\ Len(front) = i - 1
        /\ \A k \in 1 .. i - 1 : front[k] = s[k]
    BY SubSeqProperties
  <1>2. /\ back \in Seq(S)
        /\ Len(back) = Len(s) - i
        /\ \A k \in 1 .. Len(s) - i : back[k] = s[k + i]
    BY SubSeqProperties
  <1>3. RemoveAt(s, i) = front \o back
    BY DEF RemoveAt
  <1> HIDE DEF front, back
  <1>4. /\ front \o back \in Seq(S)
        /\ Len(front \o back) = Len(front) + Len(back)
        /\ \A k \in 1 .. Len(front) + Len(back) :
             (front \o back)[k] = IF k <= Len(front) THEN front[k] ELSE back[k - Len(front)]
    BY <1>1, <1>2, ConcatProperties
  <1>5. DOMAIN (front \o back) = 1 .. Len(s) - 1
    BY <1>1, <1>2, <1>4
  <1>6. ASSUME NEW k \in 1 .. Len(s) - 1
        PROVE  (front \o back)[k] = IF k < i THEN s[k] ELSE s[k + 1]
    <2>1. (front \o back)[k] = IF k <= i - 1 THEN front[k] ELSE back[k - (i - 1)]
      BY ONLY <1>1, <1>2, <1>4, i \in 1 .. Len(s), Len(s) \in Nat, k \in 1 .. Len(s) - 1
    <2>2. CASE k < i
      BY ONLY <2>1, <2>2, <1>1, i \in 1 .. Len(s), Len(s) \in Nat, k \in 1 .. Len(s) - 1
    <2>3. CASE k >= i
      <3>1. k - (i - 1) \in 1 .. Len(s) - i /\ (k - (i - 1)) + i = k + 1 /\ ~(k <= i - 1) /\ ~(k < i)
        BY ONLY <2>3, i \in 1 .. Len(s), Len(s) \in Nat, k \in 1 .. Len(s) - 1
      <3>2. back[k - (i - 1)] = s[k + 1]
        BY ONLY <3>1, <1>2
      <3> QED
        BY ONLY <2>1, <3>1, <3>2
    <2>4. k < i \/ k >= i
      BY ONLY i \in 1 .. Len(s), Len(s) \in Nat, k \in 1 .. Len(s) - 1
    <2> QED
      BY ONLY <2>2, <2>3, <2>4
  <1> QED
    BY ONLY <1>3, <1>4, <1>5, <1>6

\* Taking an entry off a list of pending requests leaves distinct msgids.
LEMMA RemoveKeepsDistinct ==
  ASSUME NEW list \in Seq(Call), NEW i \in DOMAIN list, NEW n \in Nat, Distinct(list, n)
  PROVE  /\ RemoveAt(list, i) \in Seq(Call)
         /\ Distinct(RemoveAt(list, i), n)
         /\ \A k \in DOMAIN RemoveAt(list, i) :
              \E l \in DOMAIN list : RemoveAt(list, i)[k] = list[l]
  <1>1. i \in 1 .. Len(list) /\ DOMAIN list = 1 .. Len(list) /\ Len(list) \in Nat
    OBVIOUS
  <1>2. /\ RemoveAt(list, i) \in Seq(Call)
        /\ DOMAIN RemoveAt(list, i) = 1 .. Len(list) - 1
        /\ \A k \in 1 .. Len(list) - 1 :
             RemoveAt(list, i)[k] = IF k < i THEN list[k] ELSE list[k + 1]
    BY <1>1, RemoveAtElements
  <1> DEFINE at == [k \in 1 .. Len(list) - 1 |-> IF k < i THEN k ELSE k + 1]
  <1>3. \A k \in 1 .. Len(list) - 1 :
          at[k] \in DOMAIN list /\ RemoveAt(list, i)[k] = list[at[k]]
    BY <1>1, <1>2
  <1>4. \A k, l \in 1 .. Len(list) - 1 : at[k] = at[l] => k = l
    BY <1>1
  <1> HIDE DEF at
  <1>5. Distinct(RemoveAt(list, i), n)
    <2>1. \A k, l \in DOMAIN list : list[k].id <= n /\ (list[k].id = list[l].id => k = l)
      BY DEF Distinct
    <2> SUFFICES ASSUME NEW k \in 1 .. Len(list) - 1, NEW l \in 1 .. Len(list) - 1
                 PROVE  /\ RemoveAt(list, i)[k].id <= n
                        /\ RemoveAt(list, i)[k].id = RemoveAt(list, i)[l].id => k = l
      BY <1>2 DEF Distinct
    <2>2. /\ at[k] \in DOMAIN list /\ RemoveAt(list, i)[k] = list[at[k]]
          /\ at[l] \in DOMAIN list /\ RemoveAt(list, i)[l] = list[at[l]]
      BY ONLY <1>3, k \in 1 .. Len(list) - 1, l \in 1 .. Len(list) - 1
    <2>3. at[k] = at[l] => k = l
      BY ONLY <1>4, k \in 1 .. Len(list) - 1, l \in 1 .. Len(list) - 1
    <2>4. list[at[k]].id <= n /\ (list[at[k]].id = list[at[l]].id => at[k] = at[l])
      BY ONLY <2>1, <2>2
    <2> QED
      BY ONLY <2>2, <2>3, <2>4
  <1> QED
    BY <1>2, <1>3, <1>5

LEMMA ReceiveStep ==
  ASSUME XpcInv, NEW c \in Clients, Receive(c)
  PROVE  XpcInv'
  <1> USE DEF XpcInv
  <1>1. PICK m : m = Head(inbox[c])
    OBVIOUS
  <1>2. m \in Message /\ inbox' \in [Clients -> Seq(Message)]
    BY <1>1 DEF Receive, ClientOK
  <1>3. CASE m.is_reply /\ Found(pending[c], m.id) # {}
    <2>1. PICK k \in Found(pending[c], m.id) :
            /\ pending' = [pending EXCEPT ![c] = RemoveAt(@, k)]
            /\ signalled' = IF pending[c][k].sync THEN signalled \cup {pending[c][k].tag}
                            ELSE signalled
            /\ answers' = [answers EXCEPT ![pending[c][k].tag] = Append(@, m.tag)]
      BY <1>1, <1>3 DEF Receive, Complete
    <2>2. PICK list \in Seq(Call) : list = pending[c]
      BY DEF ClientOK
    <2>3. k \in DOMAIN list /\ list[k] \in Call
      BY <2>2 DEF Found
    <2>4. PICK tag \in Tags : tag = pending[c][k].tag
      BY <2>2, <2>3 DEF Call
    <2>5. next_msgid[c] \in Nat /\ Distinct(list, next_msgid[c])
      BY <2>2 DEF ClientOK
    <2>6. PICK new \in Seq(Call) :
            /\ new = RemoveAt(list, k)
            /\ Distinct(new, next_msgid[c])
            /\ \A j \in DOMAIN new : \E l \in DOMAIN list : new[j] = list[l]
      BY <2>3, <2>5, RemoveKeepsDistinct
    <2>7. pending' = [pending EXCEPT ![c] = new]
      BY <2>1, <2>2, <2>6
    <2>8. ThreadOK'
      <3>1. pc[c] = "append" => \A j \in DOMAIN new : new[j].id < next_msgid[c]
        BY <2>2, <2>6 DEF ThreadOK
      <3>2. \A b \in Clients : pending'[b] = IF b = c THEN new ELSE pending[b]
        BY <2>7 DEF ClientOK
      <3> QED
        BY <3>1, <3>2 DEF Receive, thread, ThreadOK
    <2>9. ClientOK'
      <3>1. pending' \in [Clients -> Seq(Call)] /\ signalled' \subseteq Tags
        BY <2>1, <2>4, <2>7 DEF ClientOK
      <3>2. \A b \in Clients : Distinct(pending'[b], next_msgid[b])
        BY <2>6, <2>7 DEF ClientOK
      <3> QED
        BY <1>2, <3>1, <3>2 DEF Receive, ClientOK
    <2>10. HistoryOK'
      <3>1. m.tag \in Nat
        BY <1>2 DEF Message, Tags
      <3>2. answers' \in [Tags -> Seq(Nat)]
        BY <2>1, <2>4, <3>1 DEF HistoryOK
      <3> QED
        BY <3>2 DEF Receive, counts, HistoryOK
    <2>11. UNCHANGED <<rpc, held>>
      BY <1>1, <1>3 DEF Receive
    <2> QED
      BY <2>8, <2>9, <2>10, <2>11, Frame DEF Receive, receivers, server
  <1>4. CASE m.is_reply /\ Found(pending[c], m.id) = {}
    <2>1. UNCHANGED <<pending, signalled, answers, rpc, held>>
      BY <1>1, <1>4 DEF Receive, Complete
    <2>2. ClientOK'
      BY <1>2, <2>1 DEF Receive, ClientOK, Distinct
    <2> QED
      BY <2>1, <2>2, Frame DEF Receive, receivers, server, history, counts
  <1>5. CASE ~m.is_reply
    <2>1. /\ held' = [held EXCEPT ![c] = m]
          /\ rpc' = [rpc EXCEPT ![c] = "deliver"]
          /\ UNCHANGED <<pending, signalled, answers>>
      BY <1>1, <1>5 DEF Receive, GoReceiver
    <2>2. ClientOK'
      BY <1>2, <2>1 DEF Receive, ClientOK, Distinct
    <2>3. ReceiversOK'
      BY <1>2, <2>1 DEF Receive, ReceiversOK, Receivers, server
    <2> QED
      BY <2>1, <2>2, <2>3, Frame DEF Receive, server, history, counts
  <1> QED
    BY <1>3, <1>4, <1>5

LEMMA DeliverToClientStep ==
  ASSUME XpcInv, NEW c \in Clients, DeliverToClient(c)
  PROVE  XpcInv'
  <1> USE DEF XpcInv
  <1>1. held[c] \in Message
    BY DEF DeliverToClient, ReceiversOK, Receivers
  <1>2. held[c].tag \in Tags
    BY <1>1 DEF Message
  <1>3. ReceiversOK'
    BY DEF DeliverToClient, GoReceiver, ReceiversOK, Receivers, server
  <1>4. HistoryOK'
    BY <1>2 DEF DeliverToClient, HistoryOK, counts
  <1> QED
    BY <1>3, <1>4, Frame DEF DeliverToClient, server, client

LEMMA PortDiedStep ==
  ASSUME XpcInv, NEW c \in Clients, PortDied(c)
  PROVE  XpcInv'
  <1> USE DEF XpcInv
  <1>1. GatesOK'
    BY DEF PortDied, GatesOK
  <1>2. ThreadOK'
    <2>1. \A b \in Clients : pending'[b] = IF b = c THEN <<>> ELSE pending[b]
      BY DEF PortDied, ClientOK
    <2> QED
      BY <2>1 DEF PortDied, ThreadOK, thread
  <1>3. ClientOK'
    BY DEF PortDied, ClientOK, Distinct
  <1>4. ReceiversOK'
    BY DEF PortDied, GoReceiver, ReceiversOK, Receivers, ClientOK, server
  <1> QED
    BY <1>1, <1>2, <1>3, <1>4, Frame DEF PortDied, server, counts

LEMMA FailNextStep ==
  ASSUME XpcInv, NEW c \in Clients, FailNext(c)
  PROVE  XpcInv'
  <1> USE DEF XpcInv
  <1>1. PICK p : p = Head(failing[c])
    OBVIOUS
  <1>2. p \in Call /\ failing' \in [Clients -> Seq(Call)]
    BY <1>1 DEF FailNext, ReceiversOK
  <1>3. PICK tag \in Tags : tag = p.tag
    BY <1>2 DEF Call
  <1>4. /\ signalled' = IF p.sync THEN signalled \cup {tag} ELSE signalled
        /\ freed' = [freed EXCEPT ![tag] = @ + 1]
        /\ answers' = [answers EXCEPT ![tag] = Append(@, 0)]
    BY <1>1, <1>3 DEF FailNext
  <1>5. ClientOK'
    <2>1. signalled' \subseteq Tags /\ freed' \in [Tags -> Nat]
      BY <1>4 DEF ClientOK
    <2> QED
      BY <2>1 DEF FailNext, ClientOK, Distinct
  <1>6. ReceiversOK'
    BY <1>2 DEF FailNext, ReceiversOK, server
  <1>7. HistoryOK'
    BY <1>4 DEF FailNext, HistoryOK, counts
  <1> QED
    BY <1>5, <1>6, <1>7, Frame DEF FailNext, server

LEMMA ReceiverEndsStep ==
  ASSUME XpcInv, NEW c \in Clients, ReceiverEnds(c)
  PROVE  XpcInv'
  <1> USE DEF XpcInv
  <1>1. ReceiversOK'
    BY DEF ReceiverEnds, GoReceiver, ReceiversOK, Receivers, server
  <1> QED
    BY <1>1, Frame DEF ReceiverEnds, server, client, counts

\* An item the listener's thread makes for the target queue.
LEMMA ItemIsTyped ==
  ASSUME NEW a \in BOOLEAN, NEW x \in Message
  PROVE  [accept |-> a, m |-> x] \in Item /\ [accept |-> a, m |-> x].m = x
  BY DEF Item

LEMMA ReceivePeerStep ==
  ASSUME XpcInv, ReceivePeer
  PROVE  XpcInv'
  <1> USE DEF XpcInv
  <1>1. PICK m : m = Head(queued)
    OBVIOUS
  <1>2. m \in Message /\ queued' \in Seq(Message)
    BY <1>1 DEF ReceivePeer, ServerOK
  <1>3. m.client \in Clients
    BY <1>2 DEF Message
  <1>4. /\ held' = [held EXCEPT ![None] = m]
        /\ peers' = peers \cup {m.client}
        /\ rpc' = [rpc EXCEPT ![None] = IF m.client \in peers THEN "deliver" ELSE "accept"]
        /\ targetq' = IF m.client \in peers THEN targetq
                      ELSE Append(targetq, [accept |-> TRUE, m |-> m])
    BY <1>1 DEF ReceivePeer, GoReceiver, AfterAccept
  <1>5. ServerOK'
    <2>1. PICK item \in Item : item = [accept |-> TRUE, m |-> m] /\ item.m = m
      BY <1>2, ItemIsTyped
    <2>2. targetq' \in Seq(Item)
      BY <1>4, <2>1 DEF ServerOK
    <2>3. \A k \in DOMAIN targetq' : targetq'[k].m.client \in peers'
      BY <1>4, <2>1 DEF ServerOK
    <2> QED
      BY <1>2, <1>3, <1>4, <2>2, <2>3 DEF ReceivePeer, ServerOK
  <1>6. ReceiversOK'
    BY <1>2, <1>4 DEF ReceivePeer, ReceiversOK, Receivers
  <1> QED
    BY <1>5, <1>6, Frame DEF ReceivePeer, client, counts

LEMMA AcceptedStep ==
  ASSUME XpcInv, Accepted
  PROVE  XpcInv'
  <1> USE DEF XpcInv
  <1>1. ReceiversOK'
    BY DEF Accepted, GoReceiver, ReceiversOK, Receivers, server
  <1> QED
    BY <1>1, Frame DEF Accepted, client, server, counts

LEMMA DeliverToPeerStep ==
  ASSUME XpcInv, DeliverToPeer
  PROVE  XpcInv'
  <1> USE DEF XpcInv
  <1>1. PICK m \in Message : m = held[None] /\ m.client \in peers
    BY DEF DeliverToPeer, ReceiversOK, Receivers
  <1>2. PICK item \in Item : item = [accept |-> FALSE, m |-> m] /\ item.m = m
    BY ItemIsTyped
  <1>3. targetq' = targetq \/ targetq' = Append(targetq, item)
    BY <1>1, <1>2 DEF DeliverToPeer
  <1>4. ServerOK'
    <2>1. targetq \in Seq(Item) /\ \A k \in DOMAIN targetq : targetq[k].m.client \in peers
      BY DEF ServerOK
    <2>2. CASE targetq' = targetq
      BY <2>1, <2>2 DEF DeliverToPeer, ServerOK
    <2>3. CASE targetq' = Append(targetq, item)
      <3>1. /\ Append(targetq, item) \in Seq(Item)
            /\ \A k \in DOMAIN Append(targetq, item) :
                 \/ k \in DOMAIN targetq /\ Append(targetq, item)[k] = targetq[k]
                 \/ Append(targetq, item)[k] = item
        BY <2>1
      <3>2. item.m.client \in peers
        BY <1>1, <1>2
      <3>3. \A k \in DOMAIN targetq' : targetq'[k].m.client \in peers
        BY <2>1, <2>3, <3>1, <3>2
      <3> QED
        BY <2>3, <3>1, <3>3 DEF DeliverToPeer, ServerOK
    <2> QED
      BY <1>3, <2>2, <2>3
  <1>5. ReceiversOK'
    BY DEF DeliverToPeer, GoReceiver, ReceiversOK, Receivers
  <1> QED
    BY <1>4, <1>5, Frame DEF DeliverToPeer, client, counts

-----------------------------------------------------------------------------
(***************************************************************************)
(* The service.                                                            *)
(***************************************************************************)
\* The item at the head of the target queue, and what is behind it.
LEMMA TargetHead ==
  ASSUME ServerOK, targetq # <<>>
  PROVE  /\ Head(targetq).m \in Message
         /\ Head(targetq).m.client \in peers
         /\ Tail(targetq) \in Seq(Item)
         /\ \A k \in DOMAIN Tail(targetq) : Tail(targetq)[k].m.client \in peers
  <1>1. targetq \in Seq(Item) /\ \A k \in DOMAIN targetq : targetq[k].m.client \in peers
    BY DEF ServerOK
  <1>2. /\ 1 \in DOMAIN targetq
        /\ Head(targetq) = targetq[1]
        /\ Head(targetq) \in Item
        /\ Tail(targetq) \in Seq(Item)
        /\ \A k \in DOMAIN Tail(targetq) :
             k + 1 \in DOMAIN targetq /\ Tail(targetq)[k] = targetq[k + 1]
    BY <1>1
  <1>3. Head(targetq).m \in Message
    BY <1>2 DEF Item
  <1> QED
    BY <1>1, <1>2, <1>3

LEMMA RunAcceptStep ==
  ASSUME XpcInv, RunAccept
  PROVE  XpcInv'
  <1> USE DEF XpcInv
  <1>1. ServerOK'
    BY TargetHead DEF RunAccept, ServerOK
  <1> QED
    BY <1>1, Frame DEF RunAccept, client, receivers, counts

LEMMA RunEventStep ==
  ASSUME XpcInv, RunEvent
  PROVE  XpcInv'
  <1> USE DEF XpcInv
  <1>1. ServerOK'
    BY TargetHead DEF RunEvent, ServerOK
  <1>2. Head(targetq).m.tag \in Tags
    BY TargetHead DEF RunEvent, Message
  <1>3. HistoryOK'
    BY <1>2 DEF RunEvent, HistoryOK, counts
  <1> QED
    BY <1>1, <1>3, Frame DEF RunEvent, client, receivers

\* What the handler sends is queued at its client's port, if it has one.
LEMMA PostKeeps ==
  ASSUME ClientOK, NEW m \in Message, Post(m),
         UNCHANGED <<remote_port, local_port, next_msgid, pending, signalled, freed>>
  PROVE  ClientOK'
  <1>1. m.client \in Clients
    BY DEF Message
  <1>2. inbox' \in [Clients -> Seq(Message)]
    BY <1>1 DEF Post, ClientOK
  <1> QED
    BY <1>2 DEF ClientOK, Distinct

LEMMA HandlerRepliesStep ==
  ASSUME XpcInv, HandlerReplies
  PROVE  XpcInv'
  <1> USE DEF XpcInv
  <1>1. running \in Message
    BY DEF HandlerReplies, ServerOK
  <1>2. PICK m \in Message : m = [running EXCEPT !.is_reply = TRUE]
    BY <1>1 DEF Message
  <1>3. ClientOK'
    BY <1>2, PostKeeps DEF HandlerReplies
  <1>4. replies' \in 0 .. 2
    BY DEF HandlerReplies
  <1>5. ServerOK'
    BY <1>4 DEF HandlerReplies, ServerOK
  <1> QED
    BY <1>3, <1>5, Frame DEF HandlerReplies, receivers, history

LEMMA HandlerSendsStep ==
  ASSUME XpcInv, HandlerSends
  PROVE  XpcInv'
  <1> USE DEF XpcInv
  <1>1. sends \in Nat /\ sends < MaxSends /\ MaxSends \in Nat
    BY DEF HandlerSends, HistoryOK
  <1>2. sends + 1 \in Tags
    BY <1>1 DEF Tags
  <1>3. running \in Message
    BY DEF HandlerSends, ServerOK
  <1>4. PICK m \in Message :
          m = [client |-> running.client, tag |-> sends + 1, id |-> 0, is_reply |-> FALSE]
    BY <1>2, <1>3 DEF Message
  <1>5. ClientOK'
    BY <1>4, PostKeeps DEF HandlerSends
  <1>6. HistoryOK'
    BY <1>1 DEF HandlerSends, HistoryOK, history
  <1> QED
    BY <1>5, <1>6, Frame DEF HandlerSends, server, receivers

LEMMA HandlerReturnsStep ==
  ASSUME XpcInv, HandlerReturns
  PROVE  XpcInv'
  <1> USE DEF XpcInv
  <1>1. ServerOK'
    BY DEF HandlerReturns, ServerOK
  <1> QED
    BY <1>1, Frame DEF HandlerReturns, client, receivers, counts

LEMMA StartListenerStep ==
  ASSUME XpcInv, StartListener
  PROVE  XpcInv'
  <1> USE DEF XpcInv
  <1>1. life \in Ports /\ life \in Callers
    BY DEF ServerOK, Lives
  <1>2. RegistryOK'
    BY <1>1, AskKeeps DEF StartListener
  <1>3. ServerOK'
    BY DEF StartListener, ServerOK
  <1> QED
    BY <1>2, <1>3, Frame DEF StartListener, client, receivers, counts

LEMMA ListenerUpStep ==
  ASSUME XpcInv, ListenerUp
  PROVE  XpcInv'
  <1> USE DEF XpcInv
  <1>1. ServerOK'
    BY DEF ListenerUp, ServerOK
  <1>2. ReceiversOK'
    BY DEF ListenerUp, GoReceiver, ReceiversOK, Receivers
  <1> QED
    BY <1>1, <1>2, Frame DEF ListenerUp, client, counts

LEMMA CrashStep ==
  ASSUME XpcInv, Crash
  PROVE  XpcInv'
  <1> USE DEF XpcInv
  <1>1. GatesOK'
    BY DEF Crash, GatesOK
  <1>2. ServerOK'
    BY DEF Crash, ServerOK
  <1>3. ReceiversOK'
    BY DEF Crash, GoReceiver, ReceiversOK, Receivers
  <1> QED
    BY <1>1, <1>2, <1>3, Frame DEF Crash, client

-----------------------------------------------------------------------------
(***************************************************************************)
(* The invariant holds of every behaviour of the registry, the clients'    *)
(* threads, the receive threads and the service, crashes included.         *)
(***************************************************************************)
THEOREM XpcInvariance == Spec => []XpcInv
  <1>1. XpcInv /\ [Next]_vars => XpcInv'
    <2> SUFFICES ASSUME XpcInv, [Next]_vars PROVE XpcInv'
      OBVIOUS
    <2>1. ASSUME NEW c \in Clients, NEW request \in BOOLEAN, NEW sync \in BOOLEAN,
                 sync => request, Send(c, request, sync)
          PROVE  XpcInv'
      BY <2>1, SendStep
    <2>2. ASSUME NEW c \in Clients, Activate(c) \/ ClientStep(c)
          PROVE  XpcInv'
      BY <2>2, ActivateStep, LookedUpStep, AddPendingStep, SendWireStep, CollectStep,
         DestroyPortStep DEF ClientStep
    <2>3. ASSUME NEW c \in Clients, ReceiverStep(c)
          PROVE  XpcInv'
      BY <2>3, ReceiveStep, DeliverToClientStep, PortDiedStep, FailNextStep,
         ReceiverEndsStep DEF ReceiverStep
    <2>4. ASSUME NEW e \in End, Suspend(e) \/ Resume(e) \/ Cancel(e)
          PROVE  XpcInv'
      BY <2>4, GateStep
    <2>5. CASE ListenerStep
      BY <2>5, ReceivePeerStep, AcceptedStep, DeliverToPeerStep DEF ListenerStep
    <2>6. CASE ServiceStep
      BY <2>6, RunAcceptStep, RunEventStep, HandlerRepliesStep, HandlerReturnsStep,
         StartListenerStep, ListenerUpStep DEF ServiceStep
    <2>7. CASE HandlerSends \/ Crash
      BY <2>7, HandlerSendsStep, CrashStep
    <2>8. CASE ServeNames
      <3>1. RegistryOK'
        BY <2>8, ServeKeeps DEF ServeNames, XpcInv
      <3> QED
        BY <2>8, <3>1, Frame DEF ServeNames, XpcInv, client, server, counts
    <2>9. CASE UNCHANGED vars
      BY <2>9, Frame DEF vars, XpcInv, client, server, counts
    <2> QED
      BY <2>1, <2>2, <2>3, <2>4, <2>5, <2>6, <2>7, <2>8, <2>9 DEF Next
  <1> QED
    BY InitXpc, <1>1, PTL DEF Spec

(***************************************************************************)
(* No two requests of a connection wait under one msgid, so a reply        *)
(* completes the request it was made from; and no thread is ever without   *)
(* the call or message it works on.                                        *)
(***************************************************************************)
THEOREM XpcTypeCorrect == Spec => []TypeOK
  <1>1. XpcInv => TypeOK
    BY InvIsTyped
  <1> QED
    BY <1>1, XpcInvariance, PTL

(***************************************************************************)
(* launchd holds exactly one send right for each entry of its registry,    *)
(* however often services crash and register their names again             *)
(* (handle_register).                                                      *)
(***************************************************************************)
THEOREM RightsAreBalanced == Spec => []RightsBalanced
  <1>1. XpcInv => RightsBalanced
    BY InvIsTyped
  <1> QED
    BY <1>1, XpcInvariance, PTL
=============================================================================
