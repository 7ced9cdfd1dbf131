---------------------------- MODULE HttpClients -----------------------------
(***************************************************************************)
(* The requests of network dictionaries: each has an HttpClient            *)
(* (http_client.cpp) in the list of the HttpManager, resolves and connects *)
(* in threads, sends its request at once, reads until the server closes    *)
(* and is deleted by the handler of its one signal, after the plugin that  *)
(* asked was called back.  The answer goes to the cache of the dictionary. *)
(*                                                                         *)
(* What the server sends is abstracted to whether it is an HTTP answer.    *)
(***************************************************************************)
EXTENDS Naturals, Sequences, CachePool

CONSTANTS
  MaxClients,     \* bound: HttpClients created
  RespCacheSize   \* resp_pool_size

ASSUME HttpAssumption == MaxClients \in Nat /\ RespCacheSize \in Nat \ {0}

VARIABLES
  created,      \* words of the clients created so far
  client_list,  \* HttpManager: the clients that live
  thread,       \* clients with a thread of Socket::resolve or Socket::connect
  in_source,    \* clients with a watch for input
  out_source,   \* clients with a watch for output
  wire,         \* what the server has done: it is silent, has sent some, has closed, has reset
  keyword_list, \* the plugin's QueryInfos, by client
  called,       \* history: how often the plugin was called back
  resolved,     \* dns_map has the address of the server
  responses     \* netdictcache: dictresp_map of the dictionary

httpVars == <<created, client_list, thread, in_source, out_source, wire, keyword_list, called,
              resolved, responses>>

Clients == 1 .. MaxClients

HttpInit ==
  /\ created = <<>> /\ client_list = {} /\ keyword_list = {}
  /\ thread = [c \in {} |-> c] /\ in_source = {} /\ out_source = {}
  /\ wire = [c \in Clients |-> "silent"]
  /\ called = [c \in Clients |-> 0]
  /\ resolved = FALSE /\ responses = EmptyPool

NextClient == Len(created) + 1

Without(f, c) == [d \in DOMAIN f \ {c} |-> f[d]]
With(f, c, v) == [d \in DOMAIN f \cup {c} |-> IF d = c THEN v ELSE f[d]]

-----------------------------------------------------------------------------
\* ~HttpClient, disconnect
Disconnect(c) ==
  /\ in_source' = in_source \ {c}
  /\ out_source' = out_source \ {c}

\* on_http_client_error and on_http_client_response: call back, then Remove.
Finish(c) ==
  /\ called' = [called EXCEPT ![c] = @ + 1]
  /\ client_list' = client_list \ {c}
  /\ Disconnect(c)
  /\ thread' = Without(thread, c)

\* The callback without an answer returns at once, and its QueryInfo is kept.
Fail(c) == Finish(c) /\ UNCHANGED <<keyword_list, responses>>

\* LookupNetDict: the cache, or lookup of the plugin with do_send_http_request.  An
\* address that is known is connected to at once.
LookupNet(w) ==
  IF IsCached(responses, w) THEN UNCHANGED httpVars
  ELSE /\ NextClient \in Clients
       /\ LET c == NextClient
          IN  /\ created' = Append(created, w)
              /\ keyword_list' = keyword_list \cup {c}
              /\ IF resolved
                 THEN \/ /\ thread' = With(thread, c, "connect")
                         /\ client_list' = client_list \cup {c}
                         /\ UNCHANGED called
                      \/ /\ called' = [called EXCEPT ![c] = 1]
                         /\ UNCHANGED <<thread, client_list>>
                 ELSE /\ thread' = With(thread, c, "resolve")
                      /\ client_list' = client_list \cup {c}
                      /\ UNCHANGED called
       /\ UNCHANGED <<in_source, out_source, wire, resolved, responses>>

\* on_resolved, in the main loop; the socket may fail.
OnResolved(c) ==
  /\ c \in DOMAIN thread /\ thread[c] = "resolve"
  /\ \/ /\ Fail(c)
        /\ resolved' \in {resolved, TRUE}
     \/ /\ thread' = [thread EXCEPT ![c] = "connect"]
        /\ resolved' = TRUE
        /\ UNCHANGED <<client_list, in_source, out_source, keyword_list, called, responses>>
  /\ UNCHANGED <<created, wire>>

\* Fault: a connection that fails is not told of.
OnConnectedQuiet(c) ==
  /\ c \in DOMAIN thread /\ thread[c] = "connect"
  /\ thread' = Without(thread, c)
  /\ \/ /\ in_source' = in_source \cup {c}
        /\ out_source' = out_source \cup {c}
     \/ UNCHANGED <<in_source, out_source>>
  /\ UNCHANGED <<created, client_list, wire, keyword_list, called, resolved, responses>>

\* on_connected and SendRequest: the request is written before the watches are added.
OnConnected(c) ==
  /\ c \in DOMAIN thread /\ thread[c] = "connect"
  /\ \/ Fail(c)
     \/ /\ thread' = Without(thread, c)
        /\ in_source' = in_source \cup {c}
        /\ out_source' = out_source \cup {c}
        /\ UNCHANGED <<client_list, keyword_list, called, responses>>
  /\ UNCHANGED <<created, wire, resolved>>

\* on_io_out_event: what was buffered is flushed, or the connection is broken.
OnOutput(c) ==
  /\ c \in out_source
  /\ \/ /\ out_source' = out_source \ {c}
        /\ UNCHANGED <<client_list, thread, in_source, keyword_list, called, responses>>
     \/ wire[c] = "reset" /\ Fail(c)
  /\ UNCHANGED <<created, wire, resolved>>

\* on_get_http_response: an answer is kept and shown; anything else is dropped.
Response(c) ==
  /\ Finish(c)
  /\ \/ /\ responses' = SavePool(responses, RespCacheSize, created[c], TRUE)
        /\ keyword_list' = keyword_list \ {c}
     \/ UNCHANGED <<responses, keyword_list>>

\* Fault: what has come so far is taken for the answer.
OnInputAtOnce(c) ==
  /\ c \in in_source
  /\ \/ wire[c] = "sent" /\ called' = [called EXCEPT ![c] = @ + 1]
        /\ UNCHANGED <<client_list, thread, in_source, out_source, keyword_list, responses>>
     \/ wire[c] = "closed" /\ Response(c)
     \/ wire[c] = "reset" /\ Fail(c)
  /\ UNCHANGED <<created, wire, resolved>>

\* on_io_in_event: what has come stays in the channel until the server closes.
OnInput(c) ==
  /\ c \in in_source
  /\ \/ wire[c] = "closed" /\ Response(c)
     \/ wire[c] = "reset" /\ Fail(c)
  /\ UNCHANGED <<created, wire, resolved>>

\* The server sends, closes or resets a connection.
Serve(c, to) ==
  /\ c \in in_source
  /\ wire[c] \in {"silent", "sent"} /\ to # wire[c]
  /\ wire' = [wire EXCEPT ![c] = to]
  /\ UNCHANGED <<created, client_list, thread, in_source, out_source, keyword_list, called,
                 resolved, responses>>

HttpSteps(c) == OnResolved(c) \/ OnConnected(c) \/ OnOutput(c) \/ OnInput(c)

-----------------------------------------------------------------------------
\* A client lives until the plugin was called back for it, once; while it lives it has a
\* thread or watches, and the plugin has the query; once it is deleted nothing of it is left
\* that could still call it.
OneCallback ==
  /\ \A c \in DOMAIN created : called[c] = IF c \in client_list THEN 0 ELSE 1
  /\ client_list = DOMAIN thread \cup in_source
  /\ out_source \subseteq in_source
  /\ client_list \subseteq keyword_list

\* Every request ends: no client waits for ever when threads end and servers close.
EachIsCalledBack == \A c \in Clients : c \in client_list ~> called[c] > 0
=============================================================================
