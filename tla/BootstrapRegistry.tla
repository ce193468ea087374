-------------------------- MODULE BootstrapRegistry --------------------------
(***************************************************************************)
(* launchd's bootstrap namespace (userland/launchd/bootstrap_server.c) and *)
(* its clients (userland/libc/src/mach_bootstrap.c): names registered for  *)
(* ports by daemons, looked up by whoever wants to reach one.              *)
(*                                                                         *)
(* The registry knows nothing of the death of a service: an entry lasts    *)
(* until the respawned daemon registers its name again.  One thread of     *)
(* launchd serves the requests one by one, in the order of their arrival   *)
(* at the bootstrap port, so a request is served in one step; the caller   *)
(* blocks in mach_msg until the reply.                                     *)
(***************************************************************************)
EXTENDS Naturals, Sequences, FiniteSets

CONSTANTS
    Names,   \* service names
    Ports,   \* ports a daemon may register
    Callers, \* threads that may call bootstrap_register or _look_up
    None     \* MACH_PORT_NULL, and no answer

ASSUME RegistryAssumption == None \notin Ports

VARIABLES
    services, \* g_services: the port of each name, None if it has no entry
    rights,   \* launchd's user references to a send right for each port
    requests, \* the messages queued on the bootstrap port
    answer    \* the reply each caller is waiting for, once it has come

registry == <<services, rights, requests, answer>>

Request == [caller : Callers, name : Names, port : Ports \cup {None}]
Answer == [found : BOOLEAN, port : Ports \cup {None}]

RegistryInit ==
    /\ services = [n \in Names |-> None]
    /\ rights = [p \in Ports |-> 0]
    /\ requests = <<>>
    /\ answer = [c \in Callers |-> None]

\* bootstrap_register and bootstrap_look_up (no port) up to the wait for the
\* reply.  The message carries a copy of the right, which is the kernel's.
Ask(c, n, p) ==
    /\ requests' = Append(requests, [caller |-> c, name |-> n, port |-> p])
    /\ answer' = [answer EXCEPT ![c] = None]
    /\ UNCHANGED <<services, rights>>

\* ... and from the reply on.
Answered(c) == answer[c] # None

-----------------------------------------------------------------------------
Reply(c, found, p) == answer' = [answer EXCEPT ![c] = [found |-> found, port |-> p]]

\* Mutant: a name that has an entry already keeps it.
RegisteredOnce(n, p) == IF services[n] = None THEN p ELSE services[n]

\* find_locked: the entry's port is replaced, or a new entry made.
Registered(n, p) == p

\* Mutant: the right of the port replaced is not given back.
DropNothing(counts, p) == counts

\* mach_port_deallocate of the right to the port replaced, if there was one.
Drop(counts, p) == IF p = None THEN counts ELSE [counts EXCEPT ![p] = @ - 1]

\* Receiving the message gave launchd one more reference to the port.
handle_register(r) ==
    /\ services' = [services EXCEPT ![r.name] = Registered(r.name, r.port)]
    /\ rights' = Drop([rights EXCEPT ![r.port] = @ + 1], services[r.name])
    /\ Reply(r.caller, TRUE, r.port)

\* A copy of the right goes to the caller, whether or not the port is dead.
handle_look_up(r) ==
    /\ Reply(r.caller, services[r.name] # None, services[r.name])
    /\ UNCHANGED <<services, rights>>

\* server_thread_main, one turn.
Serve ==
    /\ requests # <<>>
    /\ requests' = Tail(requests)
    /\ LET r == Head(requests)
       IN  IF r.port = None THEN handle_look_up(r) ELSE handle_register(r)

-----------------------------------------------------------------------------
RegistryTypeOK ==
    /\ services \in [Names -> Ports \cup {None}]
    /\ rights \in [Ports -> Nat]
    /\ requests \in Seq(Request)
    /\ answer \in [Callers -> Answer \cup {None}]

(***************************************************************************)
(* "Drop launchd's own copy of the previous holder's right first so it     *)
(* doesn't leak": launchd holds one reference for each entry, no more and  *)
(* no less, through any sequence of registrations and crashes.             *)
(***************************************************************************)
RightsBalanced ==
    \A p \in Ports : rights[p] = Cardinality({n \in Names : services[n] = p})
=============================================================================
