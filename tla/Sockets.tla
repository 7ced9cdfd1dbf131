------------------------------- MODULE Sockets -------------------------------
(***************************************************************************)
(* What the network client stands on: Socket::resolve and Socket::connect, *)
(* which do the blocking call in a thread of their own and come back to    *)
(* the main loop through an idle callback, the byte streams of the         *)
(* descriptors, and the dictionary server at the other end.  The server    *)
(* and the operating system are not part of the program: they are modelled *)
(* from the replies the client's parser distinguishes.                     *)
(*                                                                         *)
(* A descriptor is never reused here, so a descriptor number names one     *)
(* connection; `MaxSockets' bounds how many are opened.                    *)
(***************************************************************************)
EXTENDS Naturals, Sequences

CONSTANTS Hosts,       \* the server names the user may configure
          MaxSockets,  \* bound: descriptors opened in a behaviour
          MaxMask,     \* bound: dictionary masks set at one server
          Nil          \* -1, NULL or 0: no descriptor, channel, source

ASSUME SocketsAssumption ==
  /\ MaxSockets \in Nat
  /\ MaxMask \in Nat
  /\ Nil \notin Nat

VARIABLES dns_map,     \* hosts whose address is known to the process
          resolving,   \* dns threads whose answer has not been handled, by host
          connecting,  \* descriptors on which a connect thread still runs
          connected,   \* results of connect threads waiting for the main loop
          net,         \* the descriptors
          mask         \* the server's dictionary mask, as a version number

sockVars == <<dns_map, resolving, connecting, connected, net, mask>>

Descriptors == 1 .. MaxSockets

WithBody == {"GET_DICT_MASK", "MAX_DICT_COUNT", "DIR_INFO", "DICT_INFO", "GET_ADINFO",
             "LOOKUP", "DEFINE", "SELECT_QUERY", "SMART_QUERY", "PREVIOUS", "NEXT"}

Unused == [phase |-> "unused", peer |-> Nil, req |-> <<>>, rep |-> <<>>,
           greeted |-> FALSE, sent |-> <<>>]

SocketsInit ==
  /\ dns_map = {}
  /\ resolving = [h \in Hosts |-> 0]
  /\ connecting = {}
  /\ connected = {}
  /\ net = [s \in Descriptors |-> Unused]
  /\ mask = [h \in Hosts |-> 0]

(* What may be read from a stream: one line or one string of a reply. *)
Token(kind, code, for, m) == [kind |-> kind, code |-> code, for |-> for, mask |-> m]

Banner(code) == Token("hello", code, Nil, 0)

------------------------------------------------------------------------------
(* Socket::resolve of a host that is not in dns_map: a thread is started. *)
StartResolve(h) == resolving' = [resolving EXCEPT ![h] = @ + 1]

(* dns_main_thread_cb, up to the call of the user's function. *)
TakeResolved(h, ok) ==
  /\ resolving[h] > 0
  /\ resolving' = [resolving EXCEPT ![h] = @ - 1]
  /\ dns_map' = IF ok THEN dns_map \cup {h} ELSE dns_map

(* Socket::socket: the next descriptor. *)
NextDescriptor(s) ==
  /\ s \in Descriptors
  /\ net[s].phase = "unused"
  /\ \A t \in Descriptors : t < s => net[t].phase # "unused"

(* Socket::connect: a thread is started on the descriptor. *)
Opened(s, h) ==
  /\ net' = [net EXCEPT ![s].phase = "open", ![s].peer = h]
  /\ connecting' = connecting \cup {s}

(* Socket::close and g_io_channel_shutdown on the descriptors D. *)
Closed(n, D) ==
  [s \in DOMAIN n |->
     IF s \in D THEN [n[s] EXCEPT !.phase = "closed", !.rep = <<>>] ELSE n[s]]

(* connect_thread: ::connect returns and the result waits for the main
   loop.  The descriptor may have been closed under the thread, in which
   case either result is possible and no stream comes to life. *)
ConnectThread(s, ok) ==
  /\ s \in connecting
  /\ connecting' = connecting \ {s}
  /\ connected' = connected \cup {[sd |-> s, succeeded |-> ok]}
  /\ net' = IF net[s].phase = "open"
              THEN [net EXCEPT ![s].phase = IF ok THEN "up" ELSE "failed"]
              ELSE net
  /\ UNCHANGED <<dns_map, resolving, mask>>

------------------------------------------------------------------------------
(* The server greets a connection once, or says it is unavailable. *)
Greet(s) ==
  /\ net[s].phase = "up" /\ ~net[s].greeted
  /\ \E code \in {"HELLO", "UNAVAILABLE"} :
       net' = [net EXCEPT ![s].rep = <<Banner(code)>>, ![s].greeted = TRUE]
  /\ UNCHANGED <<dns_map, resolving, connecting, connected, mask>>

(* The replies the client distinguishes, for each command. *)
StatusCodes(command) ==
  CASE command = "QUIT" -> {"GOODBYE"}
    [] command \in {"GET_DICT_MASK", "MAX_DICT_COUNT"} -> {"OK", "USER_NOT_REGISTER", "OTHER"}
    [] command \in {"LOOKUP", "DEFINE", "SELECT_QUERY", "SMART_QUERY"} ->
         {"OK", "DICTMASK_NOTSET", "OTHER"}
    [] OTHER -> {"OK", "OTHER"}

Reply(request, code, m) ==
  LET status == Token("status", code, request, m)
      body   == Token("body", "BODY", request, m)
  IN  IF code = "OK" /\ request.command \in WithBody THEN <<status, body>> ELSE <<status>>

(* The server answers the oldest request of a connection.  It has a bound
   on the masks it accepts; one it refuses is answered like any refusal.  *)
Serve(s) ==
  /\ net[s].phase \in {"up", "closed"} /\ net[s].greeted /\ net[s].req # <<>>
  /\ LET request == Head(net[s].req)
         h == net[s].peer
     IN  \E code \in StatusCodes(request.command) :
           LET accepted == request.command = "SET_DICT_MASK" /\ code = "OK"
               m == IF accepted THEN mask[h] + 1 ELSE mask[h]
           IN  /\ m <= MaxMask
               /\ mask' = [mask EXCEPT ![h] = m]
               /\ net' = [net EXCEPT ![s].req = Tail(@),
                                     ![s].rep = IF net[s].phase = "up"
                                                  THEN @ \o Reply(request, code, m) ELSE @]
  /\ UNCHANGED <<dns_map, resolving, connecting, connected>>

(* The server closes its side; what it has sent can still be read. *)
PeerCloses(s) ==
  /\ net[s].phase = "up"
  /\ net' = [net EXCEPT ![s].phase = "eof", ![s].req = <<>>]
  /\ UNCHANGED <<dns_map, resolving, connecting, connected, mask>>

(* The connection breaks; what was under way is lost in both directions. *)
PeerResets(s) ==
  /\ net[s].phase \in {"up", "eof"}
  /\ net' = [net EXCEPT ![s].phase = "reset", ![s].req = <<>>, ![s].rep = <<>>]
  /\ UNCHANGED <<dns_map, resolving, connecting, connected, mask>>
==============================================================================
