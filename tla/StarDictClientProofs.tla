------------------------ MODULE StarDictClientProofs ------------------------
(***************************************************************************)
(* Theorems about StarDictClient, for every number of descriptors, every   *)
(* set of batches and every size of the pools.                             *)
(*                                                                         *)
(* AnswersMatch is not inductive: that an answer read from the channel is  *)
(* the front command's rests on what was written to the channel before, on *)
(* the banner being the first thing a connection brings, and on sd_ never  *)
(* naming a used connection other than the channel's.  IInv says so.       *)
(***************************************************************************)
EXTENDS StarDictClient, CachePoolProofs, SequenceTheorems, TLAPS

(* What each kind of token carries. *)
TokenSet ==
  [kind : {"hello"}, code : {"HELLO", "UNAVAILABLE"}, for : {Nil}, mask : {0}] \cup
  [kind : {"status"}, code : {"OK", "OTHER", "GOODBYE", "DICTMASK_NOTSET", "USER_NOT_REGISTER"},
   for : Texts, mask : Nat] \cup
  [kind : {"body"}, code : {"BODY"}, for : Texts, mask : Nat]

StreamSet ==
  [phase : {"unused", "open", "up", "failed", "closed", "eof", "reset"},
   peer : Hosts \cup {Nil}, req : Seq(Texts), rep : Seq(TokenSet),
   greeted : BOOLEAN, sent : Seq({text.command : text \in Texts})]

CmdSet == [seq : Nat, text : Texts, reading : {"status", "body", "dirty"}]

DataSet == [for : Texts \cup {Nil}, clean : BOOLEAN, mask : Nat, host : Hosts \cup {Nil}]

(* A stream that is alive, or on which a request is under way, has a peer. *)
HasPeer(stream) == stream.phase \in {"open", "up"} \/ stream.req # <<>> => stream.peer \in Hosts

NetTypes ==
  /\ dns_map \subseteq Hosts /\ resolving \in [Hosts -> Nat]
  /\ connecting \subseteq Descriptors
  /\ connected \subseteq [sd : Descriptors, succeeded : BOOLEAN]
  /\ net \in [Descriptors -> StreamSet]
  /\ \A s \in Descriptors : HasPeer(net[s])
  /\ mask \in [Hosts -> Nat]

ConfigTypes ==
  /\ host \in Hosts
  /\ user \in Accounts \cup {Guest} /\ register_user \in Accounts \cup {Guest}

FlagTypes ==
  /\ host_resolved \in BOOLEAN /\ is_connected \in BOOLEAN /\ waiting_banner \in BOOLEAN

ConnTypes ==
  /\ sa \in Hosts \cup {Nil}
  /\ host_resolved => sa \in Hosts
  /\ sd \in Descriptors \cup {Nil} /\ channel \in Descriptors \cup {Nil}
  /\ in_source \in Descriptors \cup {Nil} /\ leaked \subseteq Descriptors
  /\ cmdlist \in Seq(CmdSet) /\ next_seq \in Nat \ {0}

PoolTypes ==
  /\ str_pool \in Pool(StrPoolSize, Texts, DataSet)
  /\ lookup_pool \in Pool(LookupPoolSize, Texts, DataSet)

(* Nothing was asked on the connection yet: at most the banner is there. *)
Fresh(stream) ==
  /\ stream.req = <<>>
  /\ stream.rep # <<>> => stream.greeted /\ Len(stream.rep) = 1

(* The banner was consumed: no other will come. *)
Used(stream) ==
  /\ stream.greeted
  /\ \A i \in DOMAIN stream.rep : stream.rep[i].kind # "hello"

(* What is under way on the stream belongs to the command c, or begins with
   a body that c, still at its status line, will refuse.                  *)
BelongsTo(stream, c) ==
  \/ ~InBody(c) /\ stream.rep # <<>> /\ stream.rep[1].kind = "body"
  \/ stream.req = <<c.text>> /\ stream.rep = <<>>
  \/ stream.req = <<>> /\ stream.rep = <<>>
  \/ stream.req = <<>> /\ Len(stream.rep) = 1 /\ stream.rep[1].for = c.text
  \/ /\ stream.req = <<>> /\ Len(stream.rep) = 2
     /\ stream.rep[1].for = c.text /\ stream.rep[1].kind = "status"
     /\ stream.rep[2].for = c.text /\ stream.rep[2].kind = "body"

UnusedIsFresh == \A s \in Descriptors : net[s].phase = "unused" => Fresh(net[s])

SdIsFresh == sd # Nil /\ sd # channel => Fresh(net[sd])

ChannelConnected == channel # Nil => is_connected

BannerAwaited == channel # Nil /\ waiting_banner => Fresh(net[channel]) \/ Used(net[channel])

FrontBelongs ==
  channel # Nil /\ ~waiting_banner =>
    cmdlist # <<>> /\ Used(net[channel]) /\ BelongsTo(net[channel], cmdlist[1])

OthersNotRead == \A i \in DOMAIN cmdlist : i > 1 => cmdlist[i].reading = "status"

Streams ==
  /\ UnusedIsFresh /\ SdIsFresh /\ ChannelConnected /\ BannerAwaited /\ FrontBelongs
  /\ OthersNotRead

(* AnswersMatch, of the pools and of the signals. *)
PoolsMatch == \A e \in Elements(str_pool) \cup Elements(lookup_pool) : e.data.for = e.key

SignalsMatch == \A i \in DOMAIN signals : signals[i].data.for = signals[i].text

IInv ==
  /\ NetTypes /\ ConfigTypes /\ FlagTypes /\ ConnTypes /\ PoolTypes
  /\ Streams /\ PoolsMatch /\ SignalsMatch

------------------------------------------------------------------------------
(* Lemmas about the operators. *)

(* The commands the client makes for itself have texts like any other. *)
LEMMA OwnTexts ==
  /\ Text("CLIENT", Nil) \in Texts /\ Text("QUIT", Nil) \in Texts
  /\ \A account \in Accounts : Text("AUTH", account) \in Texts
BY DEF Texts

(* A command of a batch has a text, and a command is made of any text. *)
LEMMA Commanded ==
  /\ \A batch \in Batches : Len(batch) \in Nat /\ \A i \in 1 .. Len(batch) : batch[i] \in Texts
  /\ \A seq \in Nat, text \in Texts :
       Cmd(seq, text) \in CmdSet /\ Cmd(seq, text).reading = "status"
         /\ Cmd(seq, text).text = text
<1>1. \A batch \in Batches : batch \in Seq(Texts)
  BY ClientAssumption DEF ClientAssumption
<1>2. QED
  BY <1>1 DEF Cmd, CmdSet

(* The three kinds of token: only a banner says HELLO, and only a body
   has the code BODY.                                                      *)
LEMMA TokenKinds ==
  ASSUME NEW tok \in TokenSet
  PROVE  /\ tok.code = "HELLO" => tok.kind = "hello"
         /\ tok.kind = "body" => tok.code = "BODY"
         /\ tok.kind # "hello" => tok.for \in Texts
         /\ tok.for \in Texts \cup {Nil} /\ tok.mask \in Nat
BY DEF TokenSet

(* The server's reply to a request is one status line, or a status line
   and a body, all of them the request's own.                             *)
LEMMA ReplyIsOwn ==
  ASSUME NEW request \in Texts, NEW code \in StatusCodes(request.command), NEW m \in Nat
  PROVE  LET reply == Reply(request, code, m) IN
         /\ reply \in Seq(TokenSet) /\ Len(reply) \in 1 .. 2
         /\ \A i \in 1 .. Len(reply) : reply[i].kind # "hello" /\ reply[i].for = request
         /\ reply[1].kind = "status"
         /\ Len(reply) = 2 => reply[2].kind = "body"
<1> DEFINE status == Token("status", code, request, m)
           body   == Token("body", "BODY", request, m)
<1>1. code \in {"OK", "OTHER", "GOODBYE", "DICTMASK_NOTSET", "USER_NOT_REGISTER"}
  BY DEF StatusCodes
<1>2. status \in TokenSet /\ body \in TokenSet
  BY <1>1 DEF Token, TokenSet
<1>3. /\ status.kind = "status" /\ status.for = request
      /\ body.kind = "body" /\ body.for = request
  BY DEF Token
<1>4. Reply(request, code, m) = <<status>> \/ Reply(request, code, m) = <<status, body>>
  BY DEF Reply
<1> HIDE DEF status, body
<1>5. CASE Reply(request, code, m) = <<status>>
  BY <1>2, <1>3, <1>5
<1>6. CASE Reply(request, code, m) = <<status, body>>
  BY <1>2, <1>3, <1>6
<1>7. QED
  BY <1>4, <1>5, <1>6

------------------------------------------------------------------------------
(* The streams. *)

(* Whatever the invariant says of the stream before it can say after. *)
GoesOn(old, new) ==
  /\ new.phase = "unused" => old.phase = "unused"
  /\ Fresh(old) => Fresh(new)
  /\ Used(old) => Used(new)
  /\ \A c \in CmdSet : Used(old) /\ BelongsTo(old, c) => BelongsTo(new, c)

(* If every stream goes on, the connection is the same and the queue grows
   at its end at most, the invariant about the streams goes on.            *)
LEMMA StreamsGoOn ==
  ASSUME ConnTypes, Streams,
         \A s \in Descriptors : GoesOn(net[s], net'[s]),
         channel' = channel, is_connected' = is_connected,
         sd' \in {sd, Nil} \/ (sd' \in Descriptors /\ Fresh(net'[sd'])),
         waiting_banner' = waiting_banner \/ channel = Nil,
         cmdlist # <<>> => cmdlist' # <<>> /\ cmdlist'[1] = cmdlist[1],
         OthersNotRead'
  PROVE  Streams'
<1>1. UnusedIsFresh' /\ SdIsFresh'
  BY DEF ConnTypes, Streams, UnusedIsFresh, SdIsFresh, GoesOn
<1>2. ChannelConnected' /\ BannerAwaited'
  BY DEF ConnTypes, Streams, ChannelConnected, BannerAwaited, GoesOn
<1>3. FrontBelongs'
  <2>1. cmdlist # <<>> => cmdlist[1] \in CmdSet
    BY DEF ConnTypes
  <2>2. QED
    BY <2>1 DEF ConnTypes, Streams, FrontBelongs, GoesOn
<1>4. QED
  BY <1>1, <1>2, <1>3 DEF Streams

(* The network keeps its types if one stream is replaced by a stream. *)
LEMMA NetTypesGoOn ==
  ASSUME NetTypes, NEW s \in Descriptors, NEW stream \in StreamSet,
         net' = [net EXCEPT ![s] = stream],
         HasPeer(stream),
         dns_map' \subseteq Hosts, resolving' \in [Hosts -> Nat],
         connecting' \subseteq Descriptors,
         connected' \subseteq [sd : Descriptors, succeeded : BOOLEAN],
         mask' \in [Hosts -> Nat]
  PROVE  /\ NetTypes' /\ net'[s] = stream
         /\ \A t \in Descriptors \ {s} : net'[t] = net[t]
<1> USE DEF NetTypes
<1>1. net' \in [Descriptors -> StreamSet]
  OBVIOUS
<1>2. net'[s] = stream /\ \A t \in Descriptors \ {s} : net'[t] = net[t]
  OBVIOUS
<1>3. QED
  BY <1>1, <1>2

(* A stream that is not touched goes on. *)
LEMMA UntouchedGoesOn == \A stream : GoesOn(stream, stream)
BY DEF GoesOn

LEMMA ThreadGoesOn ==
  ASSUME NetTypes, NEW s \in Descriptors, NEW ok \in BOOLEAN, ConnectThread(s, ok)
  PROVE  NetTypes' /\ \A t \in Descriptors : GoesOn(net[t], net'[t])
<1>1. CASE net[s].phase = "open"
  <2> DEFINE phase == IF ok THEN "up" ELSE "failed"
             new == [net[s] EXCEPT !.phase = phase]
  <2>1. net' = [net EXCEPT ![s] = new]
    BY <1>1 DEF ConnectThread
  <2>2. new \in StreamSet /\ HasPeer(new)
    BY <1>1 DEF NetTypes, StreamSet, HasPeer
  <2>3. GoesOn(net[s], new)
    BY <1>1 DEF NetTypes, StreamSet, GoesOn, Fresh, Used, BelongsTo
  <2> HIDE DEF new
  <2>4. /\ NetTypes' /\ net'[s] = new
        /\ \A t \in Descriptors \ {s} : net'[t] = net[t]
    BY <2>1, <2>2, NetTypesGoOn DEF NetTypes, ConnectThread
  <2>5. QED
    BY <2>3, <2>4, UntouchedGoesOn
<1>2. CASE net[s].phase # "open"
  BY <1>2, UntouchedGoesOn DEF ConnectThread, NetTypes
<1>3. QED
  BY <1>1, <1>2

LEMMA GreetGoesOn ==
  ASSUME NetTypes, NEW s \in Descriptors, Greet(s)
  PROVE  NetTypes' /\ \A t \in Descriptors : GoesOn(net[t], net'[t])
<1>1. PICK code \in {"HELLO", "UNAVAILABLE"} :
        net' = [net EXCEPT ![s].rep = <<Banner(code)>>, ![s].greeted = TRUE]
  BY DEF Greet
<1>2. <<Banner(code)>> \in Seq(TokenSet) /\ Len(<<Banner(code)>>) = 1
  BY DEF Banner, Token, TokenSet
<1> DEFINE new == [net[s] EXCEPT !.rep = <<Banner(code)>>, !.greeted = TRUE]
<1>3. new \in StreamSet /\ HasPeer(new)
  BY <1>2 DEF NetTypes, Greet, StreamSet, HasPeer
<1>4. GoesOn(net[s], new)
  BY <1>2 DEF NetTypes, Greet, StreamSet, GoesOn, Fresh, Used
<1>5. net' = [net EXCEPT ![s] = new]
  BY <1>1
<1> HIDE DEF new
<1>6. /\ NetTypes' /\ net'[s] = new
      /\ \A t \in Descriptors \ {s} : net'[t] = net[t]
  BY <1>3, <1>5, NetTypesGoOn DEF NetTypes, Greet
<1>7. QED
  BY <1>4, <1>6, UntouchedGoesOn

LEMMA ServeGoesOn ==
  ASSUME NetTypes, NEW s \in Descriptors, Serve(s)
  PROVE  NetTypes' /\ \A t \in Descriptors : GoesOn(net[t], net'[t])
<1> DEFINE request == Head(net[s].req)
           h == net[s].peer
<1>1. PICK code \in StatusCodes(request.command) :
        LET accepted == request.command = "SET_DICT_MASK" /\ code = "OK"
            m == IF accepted THEN mask[h] + 1 ELSE mask[h]
        IN  /\ mask' = [mask EXCEPT ![h] = m]
            /\ net' = [net EXCEPT ![s].req = Tail(@),
                                  ![s].rep = IF net[s].phase = "up"
                                               THEN @ \o Reply(request, code, m) ELSE @]
  BY DEF Serve
<1> DEFINE m == IF request.command = "SET_DICT_MASK" /\ code = "OK" THEN mask[h] + 1 ELSE mask[h]
           reply == Reply(request, code, m)
<1>2. h \in Hosts /\ request \in Texts /\ net[s].req \in Seq(Texts) /\ net[s].req # <<>>
      /\ net[s].rep \in Seq(TokenSet)
  <2>1. net[s] \in StreamSet /\ net[s].phase \in {"up", "closed"} /\ net[s].req # <<>>
    BY DEF NetTypes, Serve
  <2>2. h \in Hosts
    BY <2>1 DEF NetTypes, HasPeer
  <2>3. net[s].req \in Seq(Texts) /\ net[s].rep \in Seq(TokenSet)
    BY <2>1 DEF StreamSet
  <2>4. QED
    BY <2>1, <2>2, <2>3
<1>3. m \in Nat /\ mask' = [mask EXCEPT ![h] = m]
  BY <1>1, <1>2 DEF NetTypes
<1>4. /\ reply \in Seq(TokenSet) /\ Len(reply) \in 1 .. 2
      /\ \A i \in 1 .. Len(reply) : reply[i].kind # "hello" /\ reply[i].for = request
      /\ reply[1].kind = "status"
      /\ Len(reply) = 2 => reply[2].kind = "body"
  BY <1>2, <1>3, ReplyIsOwn
<1> DEFINE old == net[s]
           new == [old EXCEPT !.req = Tail(@),
                              !.rep = IF old.phase = "up" THEN @ \o reply ELSE @]
<1>5. net' = [net EXCEPT ![s] = new]
  BY <1>1
<1> HIDE DEF m, reply
<1>6. /\ new \in StreamSet /\ HasPeer(new)
      /\ new.phase = old.phase /\ new.greeted = old.greeted
      /\ new.req = Tail(old.req)
      /\ new.rep = IF old.phase = "up" THEN old.rep \o reply ELSE old.rep
  <2>1. old \in StreamSet
    BY DEF NetTypes
  <2>2. Tail(old.req) \in Seq(Texts) /\ old.rep \o reply \in Seq(TokenSet)
    BY <1>2, <1>4
  <2>3. QED
    BY <1>2, <2>1, <2>2 DEF StreamSet, HasPeer
<1> HIDE DEF new
<1>7. /\ NetTypes' /\ net'[s] = new
      /\ \A t \in Descriptors \ {s} : net'[t] = net[t]
  BY <1>3, <1>5, <1>6, NetTypesGoOn DEF NetTypes, Serve
<1>8. GoesOn(old, new)
  <2>1. /\ new.phase = old.phase /\ new.greeted = old.greeted
        /\ new.req = Tail(old.req)
        /\ new.rep = IF old.phase = "up" THEN old.rep \o reply ELSE old.rep
    BY <1>6
  <2> HIDE DEF old
  <2>2. ~Fresh(old)
    BY <1>2 DEF Fresh, old
  <2>3. Used(old) => Used(new)
    BY <1>2, <1>4, <2>1 DEF Used, old
  <2>4. ASSUME NEW c \in CmdSet, BelongsTo(old, c)
        PROVE  BelongsTo(new, c)
    <3>1. CASE ~InBody(c) /\ old.rep # <<>> /\ old.rep[1].kind = "body"
      BY <1>2, <1>4, <2>1, <3>1 DEF BelongsTo, old
    <3>2. CASE old.req = <<c.text>> /\ old.rep = <<>>
      <4>1. request = c.text /\ new.req = <<>>
        BY <2>1, <3>2 DEF old
      <4>2. new.rep = <<>> \/ new.rep = reply
        BY <1>4, <2>1, <3>2
      <4>3. Len(reply) = 1 \/ Len(reply) = 2
        BY <1>4
      <4>4. QED
        BY <1>4, <4>1, <4>2, <4>3 DEF BelongsTo
    <3>3. QED
      BY <1>2, <2>4, <3>1, <3>2 DEF BelongsTo, old
  <2>5. QED
    BY <1>2, <2>1, <2>2, <2>3, <2>4 DEF GoesOn, old
<1>9. QED
  BY <1>7, <1>8, UntouchedGoesOn

LEMMA PeerGoesOn ==
  ASSUME NetTypes, NEW s \in Descriptors, PeerCloses(s) \/ PeerResets(s)
  PROVE  NetTypes' /\ \A t \in Descriptors : GoesOn(net[t], net'[t])
<1> DEFINE closed == [net[s] EXCEPT !.phase = "eof", !.req = <<>>]
           reset  == [net[s] EXCEPT !.phase = "reset", !.req = <<>>, !.rep = <<>>]
<1>1. PICK new \in {closed, reset} : net' = [net EXCEPT ![s] = new]
  BY DEF PeerCloses, PeerResets
<1>2. <<>> \in Seq(Texts) /\ <<>> \in Seq(TokenSet)
  OBVIOUS
<1>3. /\ new \in StreamSet /\ new.peer = net[s].peer /\ new.greeted = net[s].greeted
      /\ new.phase \in {"eof", "reset"} /\ new.req = <<>>
      /\ new.rep = net[s].rep \/ new.rep = <<>>
  BY <1>2 DEF NetTypes, StreamSet
<1>4. net[s].phase # "unused"
  BY DEF PeerCloses, PeerResets
<1>5. GoesOn(net[s], new)
  BY <1>3, <1>4 DEF GoesOn, Fresh, Used, BelongsTo
<1>6. UNCHANGED <<dns_map, resolving, connecting, connected, mask>>
  BY DEF PeerCloses, PeerResets
<1> HIDE DEF closed, reset
<1>7. /\ NetTypes' /\ net'[s] = new
      /\ \A t \in Descriptors \ {s} : net'[t] = net[t]
  BY <1>1, <1>3, <1>4, <1>6, NetTypesGoOn DEF NetTypes, HasPeer
<1>8. QED
  BY <1>5, <1>7, UntouchedGoesOn

(* A step of a thread, the server or the network. *)
LEMMA EnvironmentKeeps ==
  ASSUME IInv, NEW s \in Descriptors, Environment(s)
  PROVE  IInv'
<1>1. NetTypes' /\ \A t \in Descriptors : GoesOn(net[t], net'[t])
  BY ThreadGoesOn, GreetGoesOn, ServeGoesOn, PeerGoesOn DEF IInv, Environment
<1>2. UNCHANGED clientVars
  BY DEF Environment
<1>3. ConfigTypes' /\ FlagTypes' /\ ConnTypes' /\ PoolTypes' /\ PoolsMatch' /\ SignalsMatch'
  BY <1>2 DEF IInv, ConfigTypes, FlagTypes, ConnTypes, PoolTypes, PoolsMatch, SignalsMatch,
              clientVars, connVars, configVars, poolVars
<1>4. /\ sd' = sd /\ channel' = channel /\ is_connected' = is_connected
      /\ waiting_banner' = waiting_banner /\ cmdlist' = cmdlist
  BY <1>2 DEF clientVars, connVars
<1>5. OthersNotRead'
  BY <1>4 DEF IInv, Streams, OthersNotRead
<1>6. Streams'
  BY <1>1, <1>4, <1>5, StreamsGoOn DEF IInv
<1>7. QED
  BY <1>1, <1>3, <1>6 DEF IInv

------------------------------------------------------------------------------
(* The pools and the configuration. *)

(* clean_all_cache, and the two halves of it. *)
LEMMA CleanAllKeeps ==
  ASSUME PoolTypes, CleanAll
  PROVE  PoolTypes' /\ PoolsMatch'
<1>1. /\ str_pool' \in Pool(StrPoolSize, Texts, DataSet) /\ Elements(str_pool') = {}
      /\ lookup_pool' \in Pool(LookupPoolSize, Texts, DataSet) /\ Elements(lookup_pool') = {}
  BY CleanPoolIsPool DEF PoolTypes, CleanAll
<1>2. QED
  BY <1>1 DEF PoolTypes, PoolsMatch

LEMMA SetAuthKeeps ==
  ASSUME PoolTypes, PoolsMatch, NEW account \in Accounts \cup {Guest}, SetAuth(account)
  PROVE  PoolTypes' /\ PoolsMatch' /\ user' \in Accounts \cup {Guest}
<1>1. CASE account # user
  BY <1>1, CleanAllKeeps DEF SetAuth
<1>2. CASE account = user
  BY <1>2 DEF SetAuth, poolVars, PoolTypes, PoolsMatch, Elements
<1>3. QED
  BY <1>1, <1>2 DEF SetAuth

(* What try_cache emits under the number 0 is an answer to the command. *)
LEMMA CachedMatches ==
  ASSUME PoolTypes, PoolsMatch, NEW text, InCache(text)
  PROVE  Cached(PoolOf(text), text).for = text
<1>1. StrPoolSize \in Nat /\ LookupPoolSize \in Nat
  BY ClientAssumption DEF ClientAssumption
<1>2. IsCached(PoolOf(text), text)
  BY DEF InCache
<1>3. PoolOf(text) = str_pool \/ PoolOf(text) = lookup_pool
  BY DEF PoolOf
<1>4. PICK e \in Elements(PoolOf(text)) : e.key = text /\ Cached(PoolOf(text), text) = e.data
  BY <1>1, <1>2, <1>3, CachedIsElement DEF PoolTypes
<1>5. QED
  BY <1>3, <1>4 DEF PoolsMatch

(* set_server and the account dialog leave the connection alone. *)
LEMMA ConfigurationKeeps ==
  ASSUME IInv,
         \/ \E h \in Hosts : SetServer(h)
         \/ \E account \in Accounts \cup {Guest} : SetAccount(account)
  PROVE  IInv'
<1>1. UNCHANGED <<sockVars, connVars, waiting_banner, cmdlist, next_seq>> /\ signals' = <<>>
  BY DEF SetServer, SetAccount
<1>2. NetTypes' /\ Streams' /\ SignalsMatch'
  <2>1. NetTypes'
    BY <1>1 DEF IInv, NetTypes, sockVars
  <2>2. Streams'
    BY <1>1 DEF IInv, sockVars, connVars, Streams, UnusedIsFresh, SdIsFresh, ChannelConnected,
                BannerAwaited, FrontBelongs, OthersNotRead
  <2>3. SignalsMatch'
    BY <1>1 DEF SignalsMatch
  <2>4. QED
    BY <2>1, <2>2, <2>3
<1>3. FlagTypes' /\ ConnTypes'
  <2>1. CASE \E h \in Hosts : SetServer(h)
    <3>1. sa' = sa /\ host_resolved' = FALSE
      BY <2>1 DEF SetServer
    <3>2. FlagTypes'
      BY <1>1, <3>1, Zenon DEF IInv, FlagTypes, connVars
    <3>3. QED
      BY <1>1, <3>1, <3>2 DEF IInv, ConnTypes, connVars
  <2>2. CASE \E account \in Accounts \cup {Guest} : SetAccount(account)
    <3>1. sa' = sa /\ host_resolved' = host_resolved
      BY <2>2, Zenon DEF SetAccount
    <3>2. FlagTypes'
      BY <1>1, <3>1, Zenon DEF IInv, FlagTypes, connVars
    <3>3. host_resolved' => sa' \in Hosts
      BY <3>1, Zenon DEF IInv, ConnTypes
    <3>4. QED
      BY <1>1, <3>1, <3>2, <3>3 DEF IInv, ConnTypes, connVars
  <2>3. QED
    BY <2>1, <2>2
<1>4. PoolTypes' /\ PoolsMatch' /\ ConfigTypes'
  <2>1. CASE \E h \in Hosts : SetServer(h)
    BY <2>1, CleanAllKeeps DEF IInv, SetServer, ConfigTypes
  <2>2. CASE \E account \in Accounts \cup {Guest} : SetAccount(account)
    BY <2>2, SetAuthKeeps DEF IInv, SetAccount, ConfigTypes
  <2>3. QED
    BY <2>1, <2>2
<1>5. QED
  BY <1>2, <1>3, <1>4 DEF IInv

------------------------------------------------------------------------------
(* The queue. *)

(* send_commands appends, so the front of a queue stays its front. *)
LEMMA EnqueueKeeps ==
  ASSUME NEW q \in Seq(CmdSet), NEW preamble \in Seq(CmdSet), NEW missed \in Seq(CmdSet),
         \A i \in DOMAIN q : i > 1 => q[i].reading = "status",
         \A i \in DOMAIN preamble : preamble[i].reading = "status",
         \A i \in DOMAIN missed : missed[i].reading = "status"
  PROVE  LET r == Enqueue(q, preamble, missed) IN
         /\ r \in Seq(CmdSet)
         /\ q # <<>> => r # <<>> /\ r[1] = q[1]
         /\ \A i \in DOMAIN r : i > 1 => r[i].reading = "status"
<1> DEFINE p == q \o preamble
<1>1. /\ p \in Seq(CmdSet)
      /\ q # <<>> => p # <<>> /\ p[1] = q[1]
      /\ \A i \in DOMAIN p : i > 1 => p[i].reading = "status"
  OBVIOUS
<1> HIDE DEF p
<1>2. /\ p \o missed \in Seq(CmdSet)
      /\ p # <<>> => p \o missed # <<>> /\ (p \o missed)[1] = p[1]
      /\ \A i \in DOMAIN (p \o missed) : i > 1 => (p \o missed)[i].reading = "status"
  BY <1>1
<1>3. QED
  BY <1>1, <1>2 DEF Enqueue, p

LEMMA PreambleCommands ==
  ASSUME NEW seq \in Nat, NEW account \in Accounts \cup {Guest}
  PROVE  LET p == Preamble(seq, account) IN
         /\ p \in Seq(CmdSet) /\ Len(p) \in 1 .. 2
         /\ \A i \in DOMAIN p : p[i].reading = "status"
<1> DEFINE client == Cmd(seq, Text("CLIENT", Nil))
           auth   == Cmd(seq + 1, Text("AUTH", account))
<1>1. client \in CmdSet /\ client.reading = "status"
  BY OwnTexts, Commanded
<1>2. account # Guest => auth \in CmdSet /\ auth.reading = "status"
  BY OwnTexts, Commanded
<1>3. Preamble(seq, account) = <<client>> \o (IF account = Guest THEN <<>> ELSE <<auth>>)
  BY DEF Preamble
<1> HIDE DEF client, auth
<1>4. <<client>> \in Seq(CmdSet) /\ \A i \in DOMAIN <<client>> : <<client>>[i].reading = "status"
  BY <1>1
<1>5. CASE account = Guest
  BY <1>3, <1>4, <1>5
<1>6. CASE account # Guest
  <2>1. <<auth>> \in Seq(CmdSet) /\ \A i \in DOMAIN <<auth>> : <<auth>>[i].reading = "status"
    BY <1>2, <1>6
  <2>2. Preamble(seq, account) = <<client>> \o <<auth>>
    BY <1>3, <1>6
  <2>3. QED
    BY <1>4, <2>1, <2>2
<1>7. QED
  BY <1>5, <1>6

------------------------------------------------------------------------------
(* The connection comes about. *)

(* on_resolved creates a socket nobody has written to, or none. *)
LEMMA OnResolvedGoesOn ==
  ASSUME NetTypes, Streams, NEW address \in Hosts, OnResolved(address),
         host_resolved => sa \in Hosts,
         dns_map' \subseteq Hosts, resolving' \in [Hosts -> Nat],
         connected' = connected, mask' = mask
  PROVE  /\ NetTypes' /\ \A t \in Descriptors : GoesOn(net[t], net'[t])
         /\ sd' = Nil \/ (sd' \in Descriptors /\ Fresh(net'[sd']))
         /\ host_resolved' = TRUE /\ sa' \in Hosts
<1>1. host_resolved' = TRUE /\ sa' \in Hosts
  BY DEF OnResolved
<1>2. CASE sd' = Nil /\ UNCHANGED <<net, connecting>>
  BY <1>1, <1>2, UntouchedGoesOn DEF NetTypes
<1>3. CASE \E s \in Descriptors : NextDescriptor(s) /\ sd' = s /\ Opened(s, address)
  <2>1. PICK s \in Descriptors : NextDescriptor(s) /\ sd' = s /\ Opened(s, address)
    BY <1>3
  <2> DEFINE new == [net[s] EXCEPT !.phase = "open", !.peer = address]
  <2>2. net' = [net EXCEPT ![s] = new] /\ connecting' \subseteq Descriptors
    BY <2>1 DEF Opened, NetTypes
  <2>3. net[s] \in StreamSet /\ net[s].phase = "unused" /\ Fresh(net[s])
    BY <2>1 DEF NetTypes, NextDescriptor, Streams, UnusedIsFresh
  <2>4. new \in StreamSet /\ HasPeer(new)
    BY <2>3 DEF StreamSet, HasPeer
  <2>5. GoesOn(net[s], new) /\ Fresh(new)
    BY <2>3 DEF StreamSet, GoesOn, Fresh, Used, BelongsTo
  <2> HIDE DEF new
  <2>6. /\ NetTypes' /\ net'[s] = new
        /\ \A t \in Descriptors \ {s} : net'[t] = net[t]
    BY <2>2, <2>4, NetTypesGoOn DEF NetTypes
  <2>7. QED
    BY <1>1, <2>1, <2>5, <2>6, UntouchedGoesOn
<1>4. QED
  BY <1>2, <1>3 DEF OnResolved

(* connect() may find the address at once, or leave it to a thread. *)
LEMMA ConnectGoesOn ==
  ASSUME NetTypes, FlagTypes, Streams, host \in Hosts, host_resolved => sa \in Hosts,
         sa \in Hosts \cup {Nil}, Connect, UNCHANGED <<dns_map, connected, mask>>
  PROVE  /\ NetTypes' /\ \A t \in Descriptors : GoesOn(net[t], net'[t])
         /\ sd' \in {sd, Nil} \/ (sd' \in Descriptors /\ Fresh(net'[sd']))
         /\ host_resolved' \in BOOLEAN /\ sa' \in Hosts \cup {Nil}
         /\ host_resolved' => sa' \in Hosts
<1>1. dns_map' \subseteq Hosts /\ connected' = connected /\ mask' = mask
  BY DEF NetTypes
<1>2. CASE host_resolved \/ host \in dns_map
  <2>1. PICK address \in Hosts : OnResolved(address)
    BY <1>2 DEF Connect
  <2>2. resolving' \in [Hosts -> Nat]
    BY <1>2 DEF Connect, NetTypes
  <2>3. QED
    BY <1>1, <2>1, <2>2, OnResolvedGoesOn
<1>3. CASE ~host_resolved /\ host \notin dns_map
  <2>1. /\ StartResolve(host) /\ sa' = sa /\ host_resolved' = host_resolved
        /\ sd' = sd /\ net' = net /\ connecting' = connecting
    BY <1>3, Zenon DEF Connect
  <2>2. host_resolved' \in BOOLEAN /\ ~host_resolved'
    BY <1>3, <2>1, Zenon DEF FlagTypes
  <2>3. resolving' \in [Hosts -> Nat]
    BY <2>1 DEF StartResolve, NetTypes
  <2>4. NetTypes'
    BY <1>1, <2>1, <2>3 DEF NetTypes
  <2>5. QED
    BY <2>1, <2>2, <2>4, UntouchedGoesOn
<1>4. QED
  BY <1>2, <1>3

(* A dns thread's answer. *)
LEMMA ResolveDoneKeeps ==
  ASSUME IInv, NEW h \in Hosts, NEW ok \in BOOLEAN, ResolveDone(h, ok)
  PROVE  IInv'
<1>1. /\ dns_map' \subseteq Hosts /\ resolving' \in [Hosts -> Nat]
      /\ connected' = connected /\ mask' = mask
  BY DEF IInv, NetTypes, ResolveDone, TakeResolved
<1>2. /\ UNCHANGED <<configVars, poolVars>> /\ signals' = <<>>
      /\ channel' = channel /\ in_source' = in_source /\ leaked' = leaked
      /\ cmdlist' = cmdlist /\ next_seq' = next_seq
  BY DEF ResolveDone
<1>3. is_connected' = is_connected /\ waiting_banner' = waiting_banner
  BY Zenon DEF ResolveDone
<1>4. /\ NetTypes' /\ \A t \in Descriptors : GoesOn(net[t], net'[t])
      /\ sd' \in {sd, Nil} \/ (sd' \in Descriptors /\ Fresh(net'[sd']))
      /\ host_resolved' \in BOOLEAN /\ sa' \in Hosts \cup {Nil}
      /\ host_resolved' => sa' \in Hosts
  <2>1. CASE ok
    BY <1>1, <2>1, OnResolvedGoesOn DEF IInv, ConnTypes, ResolveDone
  <2>2. CASE ~ok
    <3>1. /\ sa' = sa /\ host_resolved' = host_resolved /\ sd' = sd /\ net' = net
          /\ connecting' = connecting
      BY <2>2, Zenon DEF ResolveDone
    <3>2. host_resolved' \in BOOLEAN /\ (host_resolved' => sa' \in Hosts)
      BY <3>1, Zenon DEF IInv, FlagTypes, ConnTypes
    <3>3. NetTypes'
      BY <1>1, <3>1 DEF IInv, NetTypes
    <3>4. QED
      BY <3>1, <3>2, <3>3, UntouchedGoesOn DEF IInv, ConnTypes
  <2>3. QED
    BY <2>1, <2>2
<1>5. FlagTypes'
  BY <1>3, <1>4, Zenon DEF IInv, FlagTypes
<1>6. ConnTypes'
  BY <1>2, <1>4 DEF IInv, ConnTypes
<1>7. OthersNotRead'
  BY <1>2 DEF IInv, Streams, OthersNotRead
<1>8. Streams'
  BY <1>2, <1>3, <1>4, <1>7, StreamsGoOn DEF IInv
<1>9. ConfigTypes' /\ PoolTypes' /\ PoolsMatch' /\ SignalsMatch'
  BY <1>2 DEF IInv, ConfigTypes, PoolTypes, PoolsMatch, SignalsMatch, configVars, poolVars
<1>10. QED
  BY <1>4, <1>5, <1>6, <1>8, <1>9 DEF IInv

(* try_cache answers some of a batch, and what it does not find is queued
   behind everything else; only without a connection one is attempted.     *)
LEMMA SubmitKeeps ==
  ASSUME IInv, NEW batch \in Batches, NEW account \in Accounts \cup {Guest},
         Submit(batch, account)
  PROVE  NetTypes' /\ FlagTypes' /\ ConnTypes' /\ Streams' /\ SignalsMatch'
<1> DEFINE n        == Len(batch)
           command(i) == Cmd(next_seq + i - 1, batch[i])
           found    == {i \in 1 .. n : InCache(batch[i])}
           missed   == (1 .. n) \ found
           preamble == IF found = 1 .. n \/ is_connected THEN <<>>
                       ELSE Preamble(next_seq + n, account)
           queued(miss) == [i \in 1 .. Len(miss) |-> command(miss[i])]
<1>1. n \in Nat /\ next_seq \in Nat \ {0} /\ \A i \in 1 .. n : batch[i] \in Texts
  BY Commanded DEF IInv, ConnTypes
<1>2. /\ preamble \in Seq(CmdSet) /\ Len(preamble) \in 0 .. 2
      /\ \A i \in DOMAIN preamble : preamble[i].reading = "status"
      /\ preamble # <<>> => ~is_connected
  <2>1. CASE found = 1 .. n \/ is_connected
    BY <2>1
  <2>2. CASE ~(found = 1 .. n \/ is_connected)
    <3>1. next_seq + n \in Nat
      BY <1>1
    <3>2. QED
      BY <2>2, <3>1, PreambleCommands
  <2>3. QED
    BY <2>1, <2>2
<1>3. next_seq' \in Nat \ {0}
  <2>1. next_seq' = next_seq + n + Len(preamble)
    BY DEF Submit
  <2> HIDE DEF preamble
  <2>2. QED
    BY <1>1, <1>2, <2>1
<1>4. SignalsMatch'
  <2>1. PICK hit \in Ascending(found, n) :
          signals' = [i \in 1 .. Len(hit) |->
                        Signal(0, batch[hit[i]], Cached(PoolOf(batch[hit[i]]), batch[hit[i]]))]
    BY DEF Submit
  <2>2. Len(hit) \in Nat /\ \A i \in 1 .. Len(hit) : hit[i] \in found
    BY <1>1, AscendingPicks
  <2>3. \A i \in 1 .. Len(hit) :
          Cached(PoolOf(batch[hit[i]]), batch[hit[i]]).for = batch[hit[i]]
    BY <2>2, CachedMatches DEF IInv
  <2>4. QED
    BY <2>1, <2>3 DEF SignalsMatch, Signal
<1>5. /\ cmdlist' \in Seq(CmdSet) /\ OthersNotRead'
      /\ cmdlist # <<>> => cmdlist' # <<>> /\ cmdlist'[1] = cmdlist[1]
  <2>1. PICK miss \in Ascending(missed, n) : cmdlist' = Enqueue(cmdlist, preamble, queued(miss))
    BY DEF Submit
  <2>2. Len(miss) \in Nat /\ \A i \in 1 .. Len(miss) : miss[i] \in 1 .. n
    BY <1>1, AscendingPicks
  <2>3. \A i \in 1 .. n : command(i) \in CmdSet /\ command(i).reading = "status"
    BY <1>1, Commanded
  <2> HIDE DEF command, preamble
  <2>4. /\ queued(miss) \in Seq(CmdSet)
        /\ \A i \in DOMAIN queued(miss) : queued(miss)[i].reading = "status"
    BY <2>2, <2>3
  <2> HIDE DEF queued
  <2>5. QED
    BY <1>2, <2>1, <2>4, EnqueueKeeps DEF IInv, ConnTypes, Streams, OthersNotRead
<1>6. /\ UNCHANGED <<dns_map, connected, mask>>
      /\ channel' = channel /\ in_source' = in_source /\ leaked' = leaked
  BY DEF Submit
<1>7. is_connected' = is_connected
  BY Zenon DEF Submit
<1>8. /\ NetTypes' /\ \A t \in Descriptors : GoesOn(net[t], net'[t])
      /\ sd' \in {sd, Nil} \/ (sd' \in Descriptors /\ Fresh(net'[sd']))
      /\ FlagTypes' /\ sa' \in Hosts \cup {Nil} /\ (host_resolved' => sa' \in Hosts)
      /\ waiting_banner' = waiting_banner \/ channel = Nil
  <2>1. CASE preamble = <<>>
    <3>1. UNCHANGED <<waiting_banner, sa, host_resolved, sd, net, connecting, resolving>>
      BY <2>1 DEF Submit
    <3>2. FlagTypes' /\ (host_resolved' => sa' \in Hosts) /\ waiting_banner' = waiting_banner
      BY <1>7, <3>1, Zenon DEF IInv, FlagTypes, ConnTypes
    <3>3. NetTypes'
      BY <1>6, <3>1 DEF IInv, NetTypes
    <3>4. QED
      BY <3>1, <3>2, <3>3, UntouchedGoesOn DEF IInv, ConnTypes
  <2>2. CASE preamble # <<>>
    <3>1. waiting_banner' = TRUE /\ Connect
      BY <2>2 DEF Submit
    <3>2. channel = Nil
      BY <1>2, <2>2 DEF IInv, Streams, ChannelConnected
    <3>3. /\ NetTypes' /\ \A t \in Descriptors : GoesOn(net[t], net'[t])
          /\ sd' \in {sd, Nil} \/ (sd' \in Descriptors /\ Fresh(net'[sd']))
          /\ host_resolved' \in BOOLEAN /\ sa' \in Hosts \cup {Nil}
          /\ host_resolved' => sa' \in Hosts
      BY <1>6, <3>1, ConnectGoesOn DEF IInv, ConfigTypes, ConnTypes
    <3>4. FlagTypes'
      BY <1>7, <3>1, <3>3, Zenon DEF IInv, FlagTypes
    <3>5. QED
      BY <3>2, <3>3, <3>4
  <2>3. QED
    BY <2>1, <2>2
<1>9. ConnTypes'
  BY <1>3, <1>5, <1>6, <1>8 DEF IInv, ConnTypes
<1>10. Streams'
  BY <1>5, <1>6, <1>7, <1>8, StreamsGoOn DEF IInv
<1>11. QED
  BY <1>4, <1>8, <1>9, <1>10

(* A window's batch, and the account dialogs', which log out first. *)
LEMMA BatchKeeps ==
  ASSUME IInv, NEW batch \in Batches, Send(batch) \/ Register(batch)
  PROVE  IInv'
<1>1. CASE Send(batch)
  <2>1. Submit(batch, user) /\ UNCHANGED <<user, register_user, poolVars>> /\ host' = host
    BY <1>1 DEF Send, Submit
  <2>2. NetTypes' /\ FlagTypes' /\ ConnTypes' /\ Streams' /\ SignalsMatch'
    BY <2>1, SubmitKeeps DEF IInv, ConfigTypes
  <2>3. ConfigTypes' /\ PoolTypes' /\ PoolsMatch'
    BY <2>1 DEF IInv, ConfigTypes, PoolTypes, PoolsMatch, poolVars
  <2>4. QED
    BY <2>2, <2>3 DEF IInv
<1>2. CASE Register(batch)
  <2>1. /\ Submit(batch, Guest) /\ SetAuth(Guest) /\ host' = host
        /\ register_user' = batch[1].key
    BY <1>2 DEF Register, Submit
  <2>2. NetTypes' /\ FlagTypes' /\ ConnTypes' /\ Streams' /\ SignalsMatch'
    BY <2>1, SubmitKeeps
  <2>3. PoolTypes' /\ PoolsMatch' /\ user' \in Accounts \cup {Guest}
    BY <2>1, SetAuthKeeps DEF IInv
  <2>4. batch[1].key \in Accounts
    BY <1>2, ClientAssumption DEF Register, ClientAssumption
  <2>5. QED
    BY <2>1, <2>2, <2>3, <2>4 DEF IInv, ConfigTypes
<1>3. QED
  BY <1>1, <1>2

(* on_connected: the channel becomes sd_, on which nothing was asked. *)
LEMMA ConnectDoneKeeps ==
  ASSUME IInv, NEW result, ConnectDone(result)
  PROVE  IInv'
<1>1. /\ UNCHANGED <<dns_map, resolving, connecting, net, mask, configVars, poolVars>>
      /\ connected' \subseteq connected /\ signals' = <<>>
      /\ sa' = sa /\ cmdlist' = cmdlist /\ next_seq' = next_seq
  BY DEF ConnectDone
<1>2. host_resolved' = host_resolved
  BY Zenon DEF ConnectDone
<1>3. NetTypes'
  BY <1>1 DEF IInv, NetTypes
<1>4. ConfigTypes' /\ PoolTypes' /\ PoolsMatch' /\ SignalsMatch' /\ OthersNotRead'
  BY <1>1 DEF IInv, ConfigTypes, PoolTypes, PoolsMatch, SignalsMatch, configVars, poolVars,
              Streams, OthersNotRead
<1>5. UnusedIsFresh'
  BY <1>1 DEF IInv, Streams, UnusedIsFresh
<1>6. (host_resolved' => sa' \in Hosts) /\ host_resolved' \in BOOLEAN
  BY <1>1, <1>2, Zenon DEF IInv, FlagTypes, ConnTypes
<1>7. CASE ~result.succeeded
  <2>1. UNCHANGED connVars /\ waiting_banner' = waiting_banner
    BY <1>7, Zenon DEF ConnectDone
  <2>2. FlagTypes'
    BY <1>6, <2>1, Zenon DEF IInv, FlagTypes, connVars
  <2>3. ConnTypes'
    BY <1>1, <1>6, <2>1 DEF IInv, ConnTypes, connVars
  <2>4. Streams'
    BY <1>1, <1>4, <1>5, <2>1 DEF IInv, Streams, SdIsFresh, ChannelConnected, BannerAwaited,
       FrontBelongs, connVars
  <2>5. QED
    BY <1>3, <1>4, <2>2, <2>3, <2>4 DEF IInv
<1>8. CASE result.succeeded /\ sd = Nil
  <2>1. /\ channel' = Nil /\ sd' = sd /\ in_source' = in_source /\ leaked' = leaked
        /\ is_connected' = is_connected /\ waiting_banner' = waiting_banner
    BY <1>8, Zenon DEF ConnectDone
  <2>2. FlagTypes'
    BY <1>6, <2>1, Zenon DEF IInv, FlagTypes
  <2>3. ConnTypes'
    BY <1>1, <1>6, <2>1 DEF IInv, ConnTypes
  <2>4. Streams'
    BY <1>4, <1>5, <1>8, <2>1 DEF Streams, SdIsFresh, ChannelConnected, BannerAwaited,
       FrontBelongs
  <2>5. QED
    BY <1>3, <1>4, <2>2, <2>3, <2>4 DEF IInv
<1>9. CASE result.succeeded /\ sd # Nil
  <2>1. /\ channel' = sd /\ sd' = sd /\ in_source' = sd
        /\ leaked' = leaked \cup ({in_source} \ {Nil})
        /\ is_connected' = TRUE /\ waiting_banner' = TRUE
    BY <1>9 DEF ConnectDone
  <2>2. FlagTypes'
    BY <1>6, <2>1, Zenon DEF FlagTypes
  <2>3. ConnTypes'
    BY <1>1, <1>6, <2>1 DEF IInv, ConnTypes
  <2>4. Fresh(net[sd]) \/ Used(net[sd])
    BY <1>9 DEF IInv, Streams, SdIsFresh, BannerAwaited, FrontBelongs
  <2>5. Streams'
    BY <1>1, <1>4, <1>5, <2>1, <2>4 DEF Streams, SdIsFresh, ChannelConnected, BannerAwaited,
       FrontBelongs
  <2>6. QED
    BY <1>3, <1>4, <2>2, <2>3, <2>5 DEF IInv
<1>10. QED
  BY <1>7, <1>8, <1>9

------------------------------------------------------------------------------
(* The parser.  It works on what is left of the streams. *)

(* n is the streams of net, but for what was read from the channel. *)
RestOf(n) ==
  /\ n \in [Descriptors -> StreamSet]
  /\ \A s \in Descriptors :
       /\ n[s].phase = net[s].phase /\ n[s].peer = net[s].peer /\ n[s].req = net[s].req
       /\ Fresh(net[s]) => Fresh(n[s])
       /\ s # channel => n[s] = net[s]

LEMMA NetIsRest == NetTypes => RestOf(net)
BY DEF NetTypes, RestOf

(* disconnect() leaves no connection and no queue. *)
LEMMA DisconnectKeeps ==
  ASSUME NetTypes, FlagTypes, ConnTypes, Streams, NEW n, RestOf(n), Disconnect(n),
         UNCHANGED untouchedByInput, leaked' \subseteq leaked, next_seq' \in Nat \ {0},
         waiting_banner' \in BOOLEAN
  PROVE  NetTypes' /\ FlagTypes' /\ ConnTypes' /\ Streams'
<1>1. /\ cmdlist' = <<>> /\ in_source' = Nil /\ channel' = Nil /\ sd' = Nil
      /\ is_connected' = FALSE
  BY DEF Disconnect
<1>2. /\ sa' = sa /\ UNCHANGED <<dns_map, resolving, connecting, connected, mask>>
  BY DEF untouchedByInput
<1>3. host_resolved' = host_resolved
  BY Zenon DEF untouchedByInput
<1>4. /\ net' \in [Descriptors -> StreamSet]
      /\ \A s \in Descriptors :
           /\ HasPeer(net'[s])
           /\ net'[s].phase = "unused" => Fresh(net'[s])
  <2> DEFINE D == {channel, sd} \ {Nil}
             shut(s) == [n[s] EXCEPT !.phase = "closed", !.rep = <<>>]
  <2>1. DOMAIN n = Descriptors
        /\ \A s \in Descriptors : n[s] \in StreamSet /\ (n[s].phase = "unused" => Fresh(n[s]))
    BY DEF RestOf, Streams, UnusedIsFresh
  <2>2. \A s \in Descriptors : HasPeer(n[s])
    BY DEF NetTypes, RestOf, HasPeer
  <2>3. \A s \in Descriptors :
          shut(s) \in StreamSet /\ shut(s).phase = "closed" /\ HasPeer(shut(s))
    <3> SUFFICES ASSUME NEW s \in Descriptors
                 PROVE  shut(s) \in StreamSet /\ shut(s).phase = "closed" /\ HasPeer(shut(s))
      OBVIOUS
    <3>1. n[s] \in StreamSet /\ HasPeer(n[s]) /\ <<>> \in Seq(TokenSet)
      BY <2>1, <2>2
    <3>2. /\ shut(s) \in StreamSet /\ shut(s).phase = "closed"
          /\ shut(s).req = n[s].req /\ shut(s).peer = n[s].peer
      BY <3>1 DEF StreamSet
    <3>3. QED
      BY <3>1, <3>2 DEF HasPeer
  <2> HIDE DEF shut
  <2>4. net' = [s \in Descriptors |-> IF s \in D THEN shut(s) ELSE n[s]]
    BY <2>1 DEF Disconnect, Closed, shut
  <2>5. QED
    BY <2>1, <2>2, <2>3, <2>4
<1>5. NetTypes'
  BY <1>2, <1>4 DEF NetTypes
<1>6. FlagTypes'
  BY <1>1, <1>3, Zenon DEF FlagTypes
<1>7. host_resolved' => sa' \in Hosts
  BY <1>2, <1>3, Zenon DEF ConnTypes
<1>8. ConnTypes'
  BY <1>1, <1>2, <1>7 DEF ConnTypes
<1>9. Streams'
  BY <1>1, <1>4 DEF Streams, UnusedIsFresh, SdIsFresh, ChannelConnected, BannerAwaited,
     FrontBelongs, OthersNotRead
<1>10. QED
  BY <1>5, <1>6, <1>8, <1>9

(* request_command on a channel that holds nothing, or a body the command
   at the front will refuse: what is under way is the front's.             *)
LEMMA RequestKeeps ==
  ASSUME NetTypes, FlagTypes, ConnTypes, Streams, channel # Nil,
         NEW n, RestOf(n), Used(n[channel]),
         NEW q \in Seq(CmdSet), \A i \in DOMAIN q : i > 1 => q[i].reading = "status",
         \/ n[channel].req = <<>> /\ n[channel].rep = <<>>
         \/ /\ n[channel].rep # <<>> /\ n[channel].rep[1].kind = "body"
            /\ q # <<>> => q[1].reading = "status",
         Request(n, q), UNCHANGED untouchedByInput, leaked' = leaked, waiting_banner' = FALSE
  PROVE  NetTypes' /\ FlagTypes' /\ ConnTypes' /\ Streams'
<1> DEFINE r == OrQuit(q)
           c == r[1]
<1>1. next_seq' \in Nat \ {0}
  BY DEF Request, ConnTypes
<1>2. /\ r \in Seq(CmdSet) /\ r # <<>> /\ Head(r) = c /\ c \in CmdSet
      /\ \A i \in DOMAIN r : i > 1 => r[i].reading = "status"
      /\ c.reading = "status" \/ (q # <<>> /\ c = q[1])
  <2> DEFINE quit == Cmd(next_seq, Text("QUIT", Nil))
  <2>1. quit \in CmdSet /\ quit.reading = "status"
    BY OwnTexts, Commanded DEF ConnTypes
  <2>2. r = IF q = <<>> THEN <<quit>> ELSE q
    BY DEF OrQuit
  <2> HIDE DEF quit, r
  <2>3. QED
    BY <2>1, <2>2
<1> HIDE DEF r
<1>3. CASE /\ cmdlist' = r
           /\ net' = [n EXCEPT ![channel].req = IF n[channel].phase = "up"
                                                  THEN Append(@, Head(r).text) ELSE @,
                               ![channel].sent = Append(@, Head(r).text.command)]
           /\ UNCHANGED <<sd, channel, in_source, is_connected>>
  <2> DEFINE old == n[channel]
             new == [old EXCEPT !.req = IF old.phase = "up" THEN Append(@, c.text) ELSE @,
                                !.sent = Append(@, c.text.command)]
  <2>1. net' = [n EXCEPT ![channel] = new]
    BY <1>2, <1>3
  <2>2. channel \in Descriptors /\ old \in StreamSet /\ c.text \in Texts
    BY <1>2 DEF ConnTypes, RestOf, CmdSet
  <2>3. /\ Append(old.req, c.text) \in Seq(Texts)
        /\ Append(old.sent, c.text.command) \in Seq({text.command : text \in Texts})
    BY <2>2 DEF StreamSet
  <2>4. /\ new \in StreamSet
        /\ new.phase = old.phase /\ new.peer = old.peer /\ new.rep = old.rep
        /\ new.greeted = old.greeted
        /\ new.req = IF old.phase = "up" THEN Append(old.req, c.text) ELSE old.req
    BY <2>2, <2>3 DEF StreamSet
  <2>5. HasPeer(old)
    BY <2>2 DEF NetTypes, HasPeer, RestOf
  <2>6. HasPeer(new)
    BY <2>4, <2>5 DEF HasPeer
  <2>7. Used(new)
    BY <2>4 DEF Used
  <2>8. BelongsTo(new, c)
    <3>1. CASE old.req = <<>> /\ old.rep = <<>>
      BY <2>4, <3>1 DEF BelongsTo
    <3>2. CASE old.rep # <<>> /\ old.rep[1].kind = "body" /\ (q # <<>> => q[1].reading = "status")
      BY <1>2, <2>4, <3>2 DEF BelongsTo, InBody
    <3>3. QED
      BY <3>1, <3>2
  <2>9. old.phase = "unused" => Fresh(new)
    <3>1. old.phase = "unused" => Fresh(old)
      BY <2>2 DEF RestOf, Streams, UnusedIsFresh
    <3>2. QED
      BY <2>4, <3>1 DEF Fresh
  <2> HIDE DEF new, old
  <2>10. /\ net' \in [Descriptors -> StreamSet] /\ net'[channel] = new
         /\ \A s \in Descriptors \ {channel} : net'[s] = net[s]
    BY <2>1, <2>2, <2>4 DEF RestOf
  <2>11. NetTypes'
    BY <2>6, <2>10 DEF NetTypes, untouchedByInput
  <2>12. /\ sd' = sd /\ channel' = channel /\ in_source' = in_source /\ sa' = sa
    BY <1>3 DEF untouchedByInput
  <2>13. is_connected' = is_connected /\ host_resolved' = host_resolved
    BY <1>3, Zenon DEF untouchedByInput
  <2>14. FlagTypes'
    BY <2>13, Zenon DEF FlagTypes
  <2>15. host_resolved' => sa' \in Hosts
    BY <2>12, <2>13, Zenon DEF ConnTypes
  <2>16. ConnTypes'
    BY <1>1, <1>2, <1>3, <2>12, <2>15 DEF ConnTypes
  <2>17. is_connected'
    BY <2>13, Zenon DEF Streams, ChannelConnected
  <2>18. UnusedIsFresh'
    BY <2>4, <2>9, <2>10 DEF Streams, UnusedIsFresh
  <2>19. SdIsFresh' /\ ChannelConnected' /\ BannerAwaited' /\ OthersNotRead' /\ FrontBelongs'
    BY <1>2, <1>3, <2>7, <2>8, <2>10, <2>12, <2>17
    DEF ConnTypes, Streams, SdIsFresh, ChannelConnected, BannerAwaited, OthersNotRead,
        FrontBelongs
  <2>20. QED
    BY <2>11, <2>14, <2>16, <2>18, <2>19 DEF Streams
<1>4. CASE Disconnect(n)
  BY <1>1, <1>4, DisconnectKeeps
<1>5. QED
  BY <1>3, <1>4 DEF Request, RequestCommand, r

(* What is left when a token was read from the channel. *)
Left == [net EXCEPT ![channel].rep = Tail(@)]

LEMMA LeftIsRest ==
  ASSUME NetTypes, ConnTypes, channel # Nil, net[channel].rep # <<>>
  PROVE  /\ RestOf(Left) /\ Head(net[channel].rep) \in TokenSet
         /\ Head(net[channel].rep) = net[channel].rep[1]
         /\ Left[channel].req = net[channel].req /\ Left[channel].greeted = net[channel].greeted
         /\ Left[channel].rep = Tail(net[channel].rep)
         /\ Used(net[channel]) => Used(Left[channel])
<1> DEFINE old == net[channel]
           new == [old EXCEPT !.rep = Tail(@)]
<1>1. channel \in Descriptors /\ old \in StreamSet /\ old.rep \in Seq(TokenSet) /\ old.rep # <<>>
  BY DEF ConnTypes, NetTypes, StreamSet
<1>2. /\ Tail(old.rep) \in Seq(TokenSet) /\ Head(old.rep) = old.rep[1] /\ old.rep[1] \in TokenSet
      /\ Len(Tail(old.rep)) = Len(old.rep) - 1 /\ Len(old.rep) \in Nat
      /\ \A i \in DOMAIN Tail(old.rep) : i + 1 \in DOMAIN old.rep /\ Tail(old.rep)[i] = old.rep[i + 1]
  BY <1>1
<1>3. /\ new \in StreamSet /\ new.phase = old.phase /\ new.peer = old.peer /\ new.req = old.req
      /\ new.greeted = old.greeted /\ new.rep = Tail(old.rep)
  BY <1>1, <1>2 DEF StreamSet
<1>4. Left = [net EXCEPT ![channel] = new]
  BY DEF Left
<1> HIDE DEF new
<1>5. /\ Left \in [Descriptors -> StreamSet] /\ Left[channel] = new
      /\ \A s \in Descriptors \ {channel} : Left[s] = net[s]
  BY <1>1, <1>3, <1>4 DEF NetTypes
<1>6. Fresh(old) => Fresh(new)
  BY <1>1, <1>2, <1>3 DEF Fresh
<1>7. Used(old) => Used(new)
  BY <1>2, <1>3 DEF Used
<1>8. RestOf(Left)
  BY <1>3, <1>5, <1>6 DEF RestOf
<1>9. QED
  BY <1>2, <1>3, <1>5, <1>7, <1>8

(* The banner: nothing else was on the connection. *)
LEMMA BannerKeeps ==
  ASSUME IInv, channel # Nil, net[channel].rep # <<>>, waiting_banner,
         ParseBanner(Left, Head(net[channel].rep)),
         UNCHANGED untouchedByInput, leaked' = leaked
  PROVE  IInv'
<1> DEFINE tok == Head(net[channel].rep)
<1>1. /\ NetTypes /\ FlagTypes /\ ConnTypes /\ Streams
      /\ cmdlist \in Seq(CmdSet) /\ \A i \in DOMAIN cmdlist : i > 1 => cmdlist[i].reading = "status"
  BY DEF IInv, ConnTypes, Streams, OthersNotRead
<1>2. waiting_banner' = FALSE /\ signals' = <<>> /\ UNCHANGED <<user, poolVars>>
  BY DEF ParseBanner
<1>3. NetTypes' /\ FlagTypes' /\ ConnTypes' /\ Streams'
  <2>1. CASE tok.code = "HELLO"
    <3>1. tok.kind = "hello" /\ tok = net[channel].rep[1] /\ RestOf(Left)
      BY <1>1, <2>1, LeftIsRest, TokenKinds
    <3>2. /\ net[channel].rep \in Seq(TokenSet) /\ net[channel].req \in Seq(Texts)
          /\ ~Used(net[channel])
      <4>1. net[channel] \in StreamSet
        BY <1>1 DEF ConnTypes, NetTypes
      <4>2. net[channel].rep \in Seq(TokenSet) /\ net[channel].req \in Seq(Texts)
        BY <4>1 DEF StreamSet
      <4>3. 1 \in DOMAIN net[channel].rep
        BY <4>2
      <4>4. QED
        BY <3>1, <4>2, <4>3 DEF Used
    <3>3. Fresh(net[channel])
      BY <1>1, <3>2 DEF Streams, BannerAwaited
    <3>4. /\ Left[channel].req = <<>> /\ Left[channel].rep = <<>> /\ Left[channel].greeted
      <4>1. /\ net[channel].req = <<>> /\ net[channel].greeted /\ Len(net[channel].rep) = 1
        BY <1>1, <3>3 DEF Fresh
      <4>2. Tail(net[channel].rep) = <<>>
        <5>1. Tail(net[channel].rep) \in Seq(TokenSet) /\ Len(Tail(net[channel].rep)) = 0
          BY <3>2, <4>1
        <5>2. QED
          BY <5>1, EmptySeq
      <4>3. QED
        BY <1>1, <4>1, <4>2, LeftIsRest
    <3>5. Used(Left[channel])
      BY <3>4 DEF Used
    <3>6. Request(Left, cmdlist)
      BY <2>1 DEF ParseBanner
    <3>7. QED
      BY <1>1, <1>2, <3>1, <3>4, <3>5, <3>6, RequestKeeps
  <2>2. CASE tok.code # "HELLO"
    <3>1. Disconnect(Left) /\ next_seq' = next_seq
      BY <2>2 DEF ParseBanner
    <3>2. waiting_banner' \in BOOLEAN /\ leaked' \subseteq leaked /\ next_seq' \in Nat \ {0}
      BY <1>1, <1>2, <3>1 DEF ConnTypes
    <3>3. QED
      BY <1>1, <3>1, <3>2, LeftIsRest, DisconnectKeeps
  <2>3. QED
    BY <2>1, <2>2
<1>4. ConfigTypes' /\ PoolTypes' /\ PoolsMatch' /\ SignalsMatch'
  BY <1>2 DEF IInv, ConfigTypes, PoolTypes, PoolsMatch, SignalsMatch, poolVars, untouchedByInput
<1>5. QED
  BY <1>3, <1>4 DEF IInv

(* An answer to the front command is emitted and kept as one. *)
LEMMA EmitsAndSavesKeeps ==
  ASSUME PoolTypes, PoolsMatch, NetTypes, channel \in Descriptors,
         NEW c \in CmdSet, NEW tok, tok.for = c.text, tok.mask \in Nat,
         EmitsAndSaves(c, tok)
  PROVE  PoolTypes' /\ PoolsMatch' /\ SignalsMatch' /\ user' = user
<1> DEFINE data == Answer(c, tok)
<1>1. c.text \in Texts /\ data \in DataSet /\ data.for = c.text
  BY DEF Answer, Data, DataSet, CmdSet, NetTypes, StreamSet
<1>2. /\ signals' = <<Signal(c.seq, c.text, data)>>
      /\ str_pool' = str_pool \/ str_pool' = SavePool(str_pool, StrPoolSize, c.text, data)
      /\ lookup_pool' = lookup_pool
         \/ lookup_pool' = SavePool(lookup_pool, LookupPoolSize, c.text, data)
      /\ user' = user
  BY DEF EmitsAndSaves
<1> HIDE DEF data
<1>3. SignalsMatch'
  <2>1. Signal(c.seq, c.text, data).data = data /\ Signal(c.seq, c.text, data).text = c.text
    BY DEF Signal
  <2>2. QED
    BY <1>1, <1>2, <2>1 DEF SignalsMatch
<1>4. StrPoolSize \in Nat \ {0} /\ LookupPoolSize \in Nat \ {0}
  BY ClientAssumption DEF ClientAssumption
<1>5. /\ str_pool' \in Pool(StrPoolSize, Texts, DataSet)
      /\ Elements(str_pool') \subseteq Elements(str_pool) \cup {[key |-> c.text, data |-> data]}
  BY <1>1, <1>2, <1>4, SavePoolIsPool DEF PoolTypes
<1>6. /\ lookup_pool' \in Pool(LookupPoolSize, Texts, DataSet)
      /\ Elements(lookup_pool') \subseteq Elements(lookup_pool) \cup {[key |-> c.text, data |-> data]}
  BY <1>1, <1>2, <1>4, SavePoolIsPool DEF PoolTypes
<1>7. QED
  BY <1>1, <1>2, <1>3, <1>5, <1>6 DEF PoolTypes, PoolsMatch

(* The front command and what was read: an end with a body is the front's,
   and what follows on the stream is refused by any command.               *)
LEMMA ReplyBelongs ==
  ASSUME NetTypes, ConnTypes, Streams, channel # Nil, net[channel].rep # <<>>, ~waiting_banner
  PROVE  LET c == Head(cmdlist)  tok == Head(net[channel].rep) IN
         /\ cmdlist # <<>> /\ c = cmdlist[1] /\ c \in CmdSet /\ Tail(cmdlist) \in Seq(CmdSet)
         /\ \A i \in DOMAIN Tail(cmdlist) : Tail(cmdlist)[i].reading = "status"
         /\ Used(Left[channel]) /\ tok \in TokenSet
         /\ tok.for = c.text \/ (~InBody(c) /\ tok.code = "BODY")
         /\ (~InBody(c) /\ tok.code = "BODY") \/ Left[channel].req = <<>>
         /\ \/ ~InBody(c) /\ tok.code = "BODY"
            \/ Left[channel].rep = <<>>
            \/ /\ Len(Left[channel].rep) = 1
               /\ Left[channel].rep[1].kind = "body" /\ Left[channel].rep[1].for = c.text
<1> DEFINE old == net[channel]
           tok == Head(old.rep)
           c   == cmdlist[1]
           left == Left[channel]
<1>1. /\ cmdlist # <<>> /\ cmdlist \in Seq(CmdSet) /\ Used(old) /\ BelongsTo(old, c)
  BY DEF Streams, FrontBelongs, ConnTypes
<1>2. /\ c = Head(cmdlist) /\ c \in CmdSet /\ Tail(cmdlist) \in Seq(CmdSet)
      /\ \A i \in DOMAIN Tail(cmdlist) : Tail(cmdlist)[i].reading = "status"
  BY <1>1 DEF Streams, OthersNotRead
<1>3. /\ tok \in TokenSet /\ tok = old.rep[1] /\ left.req = old.req /\ left.rep = Tail(old.rep)
      /\ Used(left)
  BY <1>1, LeftIsRest
<1>4. old.rep \in Seq(TokenSet) /\ old.rep # <<>>
  BY DEF NetTypes, ConnTypes, StreamSet
<1> HIDE DEF old, tok, c, left
<1>5. CASE ~InBody(c) /\ old.rep[1].kind = "body"
  <2>1. ~InBody(c) /\ tok.code = "BODY"
    BY <1>3, <1>5, TokenKinds
  <2>2. QED
    BY <1>1, <1>2, <1>3, <2>1 DEF c, tok, old, left
<1>6. CASE old.req = <<>> /\ Len(old.rep) = 1 /\ old.rep[1].for = c.text
  <2>1. Tail(old.rep) \in Seq(TokenSet) /\ Len(Tail(old.rep)) = 0
    BY <1>4, <1>6
  <2>2. left.rep = <<>>
    BY <1>3, <2>1, EmptySeq
  <2>3. QED
    BY <1>1, <1>2, <1>3, <1>6, <2>2 DEF c, tok, old, left
<1>7. CASE /\ old.req = <<>> /\ Len(old.rep) = 2 /\ old.rep[1].for = c.text
           /\ old.rep[2].for = c.text /\ old.rep[2].kind = "body"
  <2>1. Len(Tail(old.rep)) = 1 /\ Tail(old.rep)[1] = old.rep[2]
    BY <1>4, <1>7
  <2>2. QED
    BY <1>1, <1>2, <1>3, <1>7, <2>1 DEF c, tok, old, left
<1>8. QED
  BY <1>1, <1>4, <1>5, <1>6, <1>7 DEF BelongsTo

(* A line of the reply to the front command. *)
LEMMA ReplyKeeps ==
  ASSUME IInv, channel # Nil, net[channel].rep # <<>>, ~waiting_banner,
         ParseReply(Left, Head(net[channel].rep)),
         UNCHANGED untouchedByInput, leaked' = leaked
  PROVE  IInv'
<1> DEFINE c   == Head(cmdlist)
           tok == Head(net[channel].rep)
           left == Left[channel]
           junk == ~InBody(c) /\ tok.code = "BODY"
<1>1. NetTypes /\ FlagTypes /\ ConnTypes /\ Streams /\ PoolTypes /\ PoolsMatch
  BY DEF IInv
<1>2. /\ cmdlist # <<>> /\ c = cmdlist[1] /\ c \in CmdSet /\ Tail(cmdlist) \in Seq(CmdSet)
      /\ \A i \in DOMAIN Tail(cmdlist) : Tail(cmdlist)[i].reading = "status"
      /\ Used(left) /\ tok \in TokenSet
      /\ tok.for = c.text \/ junk
      /\ junk \/ left.req = <<>>
      /\ \/ junk
         \/ left.rep = <<>>
         \/ (Len(left.rep) = 1 /\ left.rep[1].kind = "body" /\ left.rep[1].for = c.text)
  BY <1>1, ReplyBelongs
<1>3. waiting_banner' = FALSE /\ RestOf(Left)
  <2>1. waiting_banner' = waiting_banner
    BY Zenon DEF ParseReply
  <2>2. waiting_banner' = FALSE
    BY <1>1, <2>1, Zenon DEF FlagTypes
  <2>3. QED
    BY <1>1, <2>2, LeftIsRest
<1>4. host' = host /\ register_user' = register_user
  BY DEF untouchedByInput
<1> HIDE DEF c, tok, left, junk
<1>5. CASE /\ Disconnect(Left) /\ signals' = <<>>
           /\ UNCHANGED <<user, poolVars, acked, answered, next_seq>>
  <2>1. NetTypes' /\ FlagTypes' /\ ConnTypes' /\ Streams'
    <3>1. waiting_banner' \in BOOLEAN /\ leaked' \subseteq leaked /\ next_seq' \in Nat \ {0}
      BY <1>1, <1>3, <1>5 DEF ConnTypes
    <3>2. QED
      BY <1>1, <1>3, <1>5, <3>1, DisconnectKeeps
  <2>2. QED
    BY <1>4, <1>5, <2>1 DEF IInv, ConfigTypes, PoolTypes, PoolsMatch, SignalsMatch, poolVars
<1>6. CASE \E reading \in {"body", "dirty"} :
             /\ ReadsOn(c, tok, reading)
             /\ cmdlist' = <<[c EXCEPT !.reading = reading]>> \o Tail(cmdlist)
             /\ net' = Left /\ signals' = <<>>
             /\ UNCHANGED <<sd, channel, in_source, is_connected, user, poolVars, acked,
                            answered, next_seq>>
  <2>1. PICK reading \in {"body", "dirty"} :
          /\ ReadsOn(c, tok, reading)
          /\ cmdlist' = <<[c EXCEPT !.reading = reading]>> \o Tail(cmdlist)
    BY <1>6
  <2> DEFINE front == [c EXCEPT !.reading = reading]
  <2>2. front \in CmdSet /\ front.text = c.text
    BY <1>2 DEF CmdSet
  <2> HIDE DEF front
  <2>3. <<front>> \in Seq(CmdSet) /\ cmdlist' = <<front>> \o Tail(cmdlist)
    BY <2>1, <2>2 DEF front
  <2>4. /\ cmdlist' \in Seq(CmdSet) /\ cmdlist' # <<>> /\ cmdlist'[1] = front
        /\ \A i \in DOMAIN cmdlist' : i > 1 => cmdlist'[i].reading = "status"
    BY <1>2, <2>3
  <2>5. ~junk
    BY <1>2, <2>1, TokenKinds DEF ReadsOn, junk
  <2>6. BelongsTo(left, front)
    BY <1>2, <2>2, <2>5 DEF BelongsTo
  <2>7. /\ net' = Left /\ sd' = sd /\ channel' = channel /\ in_source' = in_source
        /\ sa' = sa /\ next_seq' = next_seq
    BY <1>6 DEF untouchedByInput
  <2>8. is_connected' = is_connected /\ host_resolved' = host_resolved
    BY <1>6, Zenon DEF untouchedByInput
  <2>9. NetTypes'
    <3>1. \A s \in Descriptors : HasPeer(Left[s])
      BY <1>1, <1>3 DEF NetTypes, RestOf, HasPeer
    <3>2. QED
      BY <1>1, <1>3, <2>7, <3>1 DEF NetTypes, RestOf, untouchedByInput
  <2>10. FlagTypes'
    BY <1>1, <1>3, <2>8, Zenon DEF FlagTypes
  <2>11. host_resolved' => sa' \in Hosts
    BY <1>1, <2>7, <2>8, Zenon DEF ConnTypes
  <2>12. ConnTypes'
    BY <1>1, <2>4, <2>7, <2>11 DEF ConnTypes
  <2>13. is_connected'
    BY <1>1, <2>8, Zenon DEF Streams, ChannelConnected
  <2>14. UnusedIsFresh' /\ SdIsFresh'
    BY <1>1, <1>3, <2>7 DEF RestOf, ConnTypes, Streams, UnusedIsFresh, SdIsFresh
  <2>15. ChannelConnected' /\ BannerAwaited' /\ OthersNotRead' /\ FrontBelongs'
    BY <1>2, <1>3, <2>4, <2>6, <2>7, <2>13
    DEF ChannelConnected, BannerAwaited, OthersNotRead, FrontBelongs, left
  <2>16. ConfigTypes' /\ PoolTypes' /\ PoolsMatch' /\ SignalsMatch'
    BY <1>4, <1>6 DEF IInv, ConfigTypes, PoolTypes, PoolsMatch, SignalsMatch, poolVars
  <2>17. QED
    BY <2>9, <2>10, <2>12, <2>14, <2>15, <2>16 DEF IInv, Streams
<1>7. CASE /\ ~Refused(c, tok)
           /\ \/ EndsAtStatus(c, tok) /\ EndEffects(c, tok)
              \/ EndsWithBody(c, tok) /\ EmitsAndSaves(c, tok)
           /\ Request(Left, Tail(cmdlist))
  <2>1. ~junk
    BY <1>7 DEF Refused, Excused, junk
  <2>2. NetTypes' /\ FlagTypes' /\ ConnTypes' /\ Streams'
    <3>1. \/ left.req = <<>> /\ left.rep = <<>>
          \/ /\ left.rep # <<>> /\ left.rep[1].kind = "body"
             /\ Tail(cmdlist) # <<>> => Tail(cmdlist)[1].reading = "status"
      <4>1. Tail(cmdlist) # <<>> => 1 \in DOMAIN Tail(cmdlist)
        BY <1>2
      <4>2. QED
        BY <1>2, <2>1, <4>1
    <3>2. Request(Left, Tail(cmdlist)) /\ Used(Left[channel])
      BY <1>2, <1>7 DEF left
    <3>3. QED
      BY <1>1, <1>2, <1>3, <3>1, <3>2, RequestKeeps DEF left
  <2>3. PoolTypes' /\ PoolsMatch' /\ SignalsMatch' /\ user' \in Accounts \cup {Guest}
    <3>1. /\ tok.for = c.text /\ tok.mask \in Nat /\ channel \in Descriptors
          /\ user \in Accounts \cup {Guest} /\ register_user \in Accounts \cup {Guest}
      BY <1>1, <1>2, <2>1, TokenKinds DEF IInv, ConnTypes, ConfigTypes
    <3>2. CASE EmitsAndSaves(c, tok)
      BY <1>1, <1>2, <3>1, <3>2, EmitsAndSavesKeeps
    <3>3. CASE EndEffects(c, tok)
      <4>1. CASE SetAuth(register_user) /\ signals' = <<>>
        BY <1>1, <3>1, <4>1, SetAuthKeeps DEF SignalsMatch
      <4>2. CASE OutdateByMask /\ signals' = <<>> /\ UNCHANGED user
        <5>1. /\ str_pool' \in Pool(StrPoolSize, Texts, DataSet)
              /\ Elements(str_pool') \subseteq Elements(str_pool)
              /\ lookup_pool' \in Pool(LookupPoolSize, Texts, DataSet)
              /\ Elements(lookup_pool') = {}
          BY <1>1, <4>2, CleanKeyIsPool, CleanPoolIsPool DEF PoolTypes, OutdateByMask
        <5>2. QED
          BY <1>1, <3>1, <4>2, <5>1 DEF PoolTypes, PoolsMatch, SignalsMatch
      <4>3. CASE EmitsAndSaves(c, [tok EXCEPT !.kind = "body"])
        <5>1. [tok EXCEPT !.kind = "body"].for = c.text /\ [tok EXCEPT !.kind = "body"].mask \in Nat
          BY <1>2, <3>1 DEF TokenSet
        <5>2. QED
          BY <1>1, <1>2, <3>1, <4>3, <5>1, EmitsAndSavesKeeps
      <4>4. CASE signals' = <<>> /\ UNCHANGED <<user, acked, poolVars>>
        BY <1>1, <3>1, <4>4 DEF PoolTypes, PoolsMatch, SignalsMatch, poolVars
      <4>5. QED
        BY <3>3, <4>1, <4>2, <4>3, <4>4 DEF EndEffects
    <3>4. QED
      BY <1>7, <3>2, <3>3
  <2>4. QED
    BY <1>4, <2>2, <2>3 DEF IInv, ConfigTypes
<1>8. QED
  BY <1>5, <1>6, <1>7 DEF ParseReply, c, tok

------------------------------------------------------------------------------
(* The callbacks of the channel. *)

LEMMA IoInKeeps ==
  ASSUME IInv, IoIn
  PROVE  IInv'
<1>1. /\ channel # Nil /\ net[channel].rep # <<>> /\ UNCHANGED untouchedByInput
      /\ leaked' = leaked
  BY DEF IoIn
<1>2. CASE waiting_banner
  <2>1. ParseBanner(Left, Head(net[channel].rep))
    BY <1>2 DEF IoIn, Left
  <2>2. QED
    BY <1>1, <1>2, <2>1, BannerKeeps
<1>3. CASE ~waiting_banner
  <2>1. ParseReply(Left, Head(net[channel].rep))
    BY <1>3 DEF IoIn, Left
  <2>2. QED
    BY <1>1, <1>3, <2>1, ReplyKeeps
<1>4. QED
  BY <1>2, <1>3

(* The end of the stream, or an error on any watch. *)
LEMMA BreakKeeps ==
  ASSUME IInv, IoEof \/ \E w \in Descriptors : IoErr(w)
  PROVE  IInv'
<1>1. /\ Disconnect(net) /\ UNCHANGED <<untouchedByInput, configVars, poolVars>>
      /\ leaked' \subseteq leaked /\ next_seq' = next_seq /\ signals' = <<>>
  BY DEF IoEof, IoErr
<1>2. waiting_banner' = waiting_banner
  BY Zenon DEF IoEof, IoErr
<1>3. waiting_banner' \in BOOLEAN
  BY <1>2, Zenon DEF IInv, FlagTypes
<1>4. next_seq' \in Nat \ {0}
  BY <1>1 DEF IInv, ConnTypes
<1>5. NetTypes' /\ FlagTypes' /\ ConnTypes' /\ Streams'
  BY <1>1, <1>3, <1>4, NetIsRest, DisconnectKeeps DEF IInv
<1>6. ConfigTypes' /\ PoolTypes' /\ PoolsMatch' /\ SignalsMatch'
  BY <1>1 DEF IInv, ConfigTypes, PoolTypes, PoolsMatch, SignalsMatch, configVars, poolVars
<1>7. QED
  BY <1>5, <1>6 DEF IInv

(* A watch that has outlived its channel. *)
LEMMA StaleKeeps ==
  ASSUME IInv, NEW w \in Descriptors, IoStale(w)
  PROVE  IInv'
<1>1. /\ UNCHANGED <<sockVars, sd, channel, configVars, poolVars, sa, cmdlist, next_seq>>
      /\ channel = Nil /\ in_source' \in {in_source, Nil} /\ leaked' \subseteq leaked
      /\ signals' = <<>>
  BY DEF IoStale
<1>2. /\ is_connected' = is_connected /\ waiting_banner' = waiting_banner
      /\ host_resolved' = host_resolved
  BY Zenon DEF IoStale
<1>3. FlagTypes' /\ (host_resolved' => sa' \in Hosts)
  <2>1. sa' = sa
    BY <1>1
  <2>2. QED
    BY <1>2, <2>1, Zenon DEF IInv, FlagTypes, ConnTypes
<1>4. NetTypes'
  BY <1>1 DEF IInv, NetTypes, sockVars
<1>5. ConnTypes'
  BY <1>1, <1>3 DEF IInv, ConnTypes
<1>6. ConfigTypes' /\ PoolTypes' /\ PoolsMatch' /\ SignalsMatch'
  BY <1>1 DEF IInv, ConfigTypes, PoolTypes, PoolsMatch, SignalsMatch, configVars, poolVars
<1>7. Streams'
  BY <1>1 DEF IInv, sockVars, Streams, UnusedIsFresh, SdIsFresh, ChannelConnected,
              BannerAwaited, FrontBelongs, OthersNotRead
<1>8. QED
  BY <1>3, <1>4, <1>5, <1>6, <1>7 DEF IInv

------------------------------------------------------------------------------
(* The theorems. *)

LEMMA InitHolds == Init => IInv
<1> SUFFICES ASSUME Init PROVE IInv
  OBVIOUS
<1>1. StrPoolSize \in Nat \ {0} /\ LookupPoolSize \in Nat \ {0}
  BY ClientAssumption DEF ClientAssumption
<1>2. PoolTypes /\ PoolsMatch
  BY <1>1, EmptyPoolIsPool DEF Init, PoolTypes, PoolsMatch
<1>3. <<>> \in Seq(Texts) /\ <<>> \in Seq(TokenSet) /\ <<>> \in Seq({text.command : text \in Texts})
  OBVIOUS
<1>4. NetTypes
  BY <1>3 DEF Init, SocketsInit, NetTypes, HasPeer, Unused, StreamSet
<1>5. ConfigTypes /\ FlagTypes /\ ConnTypes /\ SignalsMatch
  <2>1. FlagTypes /\ ~host_resolved
    BY Zenon DEF Init, FlagTypes
  <2>2. next_seq \in Nat \ {0} /\ cmdlist \in Seq(CmdSet)
    BY DEF Init
  <2>3. QED
    BY <2>1, <2>2 DEF Init, ConfigTypes, ConnTypes, SignalsMatch
<1>6. Streams
  BY DEF Init, SocketsInit, Streams, UnusedIsFresh, SdIsFresh, ChannelConnected,
         BannerAwaited, FrontBelongs, OthersNotRead, Fresh, Unused
<1>7. QED
  BY <1>2, <1>4, <1>5, <1>6 DEF IInv

LEMMA StutterKeeps == IInv /\ UNCHANGED vars => IInv'
BY DEF vars, sockVars, connVars, configVars, poolVars, IInv, NetTypes, ConfigTypes, FlagTypes,
   ConnTypes, PoolTypes, PoolsMatch, SignalsMatch, Streams, UnusedIsFresh, SdIsFresh,
   ChannelConnected, BannerAwaited, FrontBelongs, OthersNotRead

LEMMA NextKeeps == IInv /\ [Next]_vars => IInv'
<1> SUFFICES ASSUME IInv, [Next]_vars PROVE IInv'
  OBVIOUS
<1>1. CASE \E batch \in Batches : Send(batch) \/ Register(batch)
  BY <1>1, BatchKeeps
<1>2. CASE \/ \E h \in Hosts : SetServer(h)
           \/ \E account \in Accounts \cup {Guest} : SetAccount(account)
  BY <1>2, ConfigurationKeeps
<1>3. CASE \E h \in Hosts, ok \in BOOLEAN : ResolveDone(h, ok)
  BY <1>3, ResolveDoneKeeps
<1>4. CASE \E result \in connected : ConnectDone(result)
  BY <1>4, ConnectDoneKeeps
<1>5. CASE IoIn
  BY <1>5, IoInKeeps
<1>6. CASE IoEof \/ \E w \in Descriptors : IoErr(w)
  BY <1>6, BreakKeeps
<1>7. CASE \E w \in Descriptors : IoStale(w)
  BY <1>7, StaleKeeps
<1>8. CASE \E s \in Descriptors : Environment(s)
  BY <1>8, EnvironmentKeeps
<1>9. CASE UNCHANGED vars
  BY <1>9, StutterKeeps
<1>10. QED
  BY <1>1, <1>2, <1>3, <1>4, <1>5, <1>6, <1>7, <1>8, <1>9 DEF Next

(* Whatever windows, threads, server and network do, the invariant holds:
   it relates the queue of the client to what is on its connection.        *)
THEOREM Invariance == Spec => []IInv
<1>1. Init => IInv
  BY InitHolds
<1>2. IInv /\ [Next]_vars => IInv'
  BY NextKeeps
<1>3. QED
  BY <1>1, <1>2, PTL DEF Spec

(* The variables of the client keep the types their declarations give them,
   and no element of a pool lies outside of it.                            *)
THEOREM TypeCorrect == Spec => []TypeOK
<1>1. IInv => TypeOK
  <2> SUFFICES ASSUME IInv PROVE TypeOK
    OBVIOUS
  <2>1. /\ DOMAIN str_pool.slot \subseteq Slots(StrPoolSize)
        /\ DOMAIN lookup_pool.slot \subseteq Slots(LookupPoolSize)
    BY PoolShape DEF IInv, PoolTypes
  <2>2. is_connected \in BOOLEAN /\ waiting_banner \in BOOLEAN /\ host_resolved \in BOOLEAN
    BY Zenon DEF IInv, FlagTypes
  <2>3. QED
    BY <2>1, <2>2 DEF IInv, ConfigTypes, ConnTypes, TypeOK
<1>2. QED
  BY <1>1, Invariance, PTL

(* An answer is emitted for, and kept under, the command it answers, for
   any number of connections, overlapping or not, and any batches.         *)
THEOREM AnswersAlwaysMatch == Spec => []AnswersMatch
<1>1. IInv => AnswersMatch
  BY DEF IInv, PoolsMatch, SignalsMatch, AnswersMatch, PoolEntries, Elements
<1>2. QED
  BY <1>1, Invariance, PTL
-----------------------------------------------------------------------------
(***************************************************************************)
(* What StarDictClient answers, for any batches, connections and numbers   *)
(* of them: it hands the answers on in the order of the commands, and      *)
(* keeps none that is older than the mask the server confirmed.  As long   *)
(* as attempts to connect did not overlap, the reply that is read is that  *)
(* of the front command, its body is what is kept, and every connection is *)
(* begun with the greeting.                                                *)
(*                                                                         *)
(* The greeting of a connection, CMD_CLIENT and CMD_AUTH, is numbered      *)
(* after the batch that it is queued before: the order is that of the      *)
(* other commands.                                                         *)
(***************************************************************************)

Counted(c) == c.text.command \notin {"CLIENT", "AUTH"}

(* The commands of a queue come in the order of their numbers, which lie   *)
(* between two bounds: the one answered last and the next to be given.     *)
Between(q, low, high) ==
  \A i \in DOMAIN q : Counted(q[i]) => low < q[i].seq /\ q[i].seq < high

Rising(q) ==
  \A i, j \in DOMAIN q : i < j /\ Counted(q[i]) /\ Counted(q[j]) => q[i].seq < q[j].seq

InOrder(q, low, high) == Between(q, low, high) /\ Rising(q)

OrderInv ==
  /\ answered \in Nat /\ answered < next_seq
  /\ InOrder(cmdlist, answered, next_seq)

-----------------------------------------------------------------------------
(* Lemmas about queues. *)

LEMMA TailInOrder ==
  ASSUME NEW q \in Seq(CmdSet), q # <<>>, NEW low \in Nat, NEW high \in Nat,
         InOrder(q, low, high)
  PROVE  /\ InOrder(Tail(q), low, high)
         /\ Counted(q[1]) => low < q[1].seq /\ q[1].seq < high /\ InOrder(Tail(q), q[1].seq, high)
<1>1. \A i \in DOMAIN Tail(q) : i + 1 \in DOMAIN q /\ i + 1 > 1 /\ Tail(q)[i] = q[i + 1]
  OBVIOUS
<1>2. 1 \in DOMAIN q /\ \A i \in DOMAIN q : i \in Nat
  OBVIOUS
<1>3. Rising(Tail(q))
  BY <1>1, <1>2 DEF InOrder, Rising
<1>4. QED
  BY <1>1, <1>2, <1>3 DEF InOrder, Between, Rising

LEMMA QueuesInOrder ==
  ASSUME NEW p \in Seq(CmdSet), NEW q \in Seq(CmdSet),
         NEW low \in Nat, NEW mid \in Nat, NEW high \in Nat, low < mid, mid <= high,
         InOrder(p, low, mid),
         \A i \in DOMAIN q : Counted(q[i]) => mid <= q[i].seq /\ q[i].seq < high,
         Rising(q)
  PROVE  InOrder(p \o q, low, high)
<1> DEFINE r == p \o q
<1>1. DOMAIN r = 1 .. (Len(p) + Len(q)) /\ DOMAIN p = 1 .. Len(p) /\ DOMAIN q = 1 .. Len(q)
  OBVIOUS
<1>2. /\ \A i \in DOMAIN p : r[i] = p[i] /\ p[i].seq \in Nat
      /\ \A i \in DOMAIN r : i \notin DOMAIN p => i - Len(p) \in DOMAIN q /\ r[i] = q[i - Len(p)]
      /\ \A i \in DOMAIN q : q[i].seq \in Nat
  <2>1. /\ \A i \in DOMAIN p : r[i] = p[i] /\ p[i] \in CmdSet
        /\ \A i \in DOMAIN q : q[i] \in CmdSet
    OBVIOUS
  <2>2. \A i \in DOMAIN r : i \notin DOMAIN p => i - Len(p) \in DOMAIN q /\ r[i] = q[i - Len(p)]
    OBVIOUS
  <2>3. \A c \in CmdSet : c.seq \in Nat
    BY DEF CmdSet
  <2>4. QED
    BY <2>1, <2>2, <2>3
<1> HIDE DEF r
<1>3. Between(r, low, high)
  BY <1>1, <1>2 DEF InOrder, Between
<1>4. ASSUME NEW i \in DOMAIN r, NEW j \in DOMAIN r, i < j, Counted(r[i]), Counted(r[j])
      PROVE  r[i].seq < r[j].seq
  <2>1. CASE j \in DOMAIN p
    <3>1. i \in DOMAIN p
      BY <1>1, <1>4, <2>1
    <3>2. QED
      BY <1>2, <1>4, <2>1, <3>1 DEF InOrder, Rising
  <2>2. CASE i \in DOMAIN p /\ j \notin DOMAIN p
    BY <1>2, <1>4, <2>2 DEF InOrder, Between
  <2>3. CASE i \notin DOMAIN p /\ j \notin DOMAIN p
    <3>1. i - Len(p) < j - Len(p)
      BY <1>1, <1>4
    <3>2. QED
      BY <1>2, <1>4, <2>3, <3>1 DEF Rising
  <2>4. QED
    BY <2>1, <2>2, <2>3
<1>5. Rising(r)
  BY <1>4 DEF Rising
<1>6. QED
  BY <1>3, <1>5 DEF InOrder, r

LEMMA GreetingNotCounted ==
  ASSUME NEW seq, NEW account, NEW i \in DOMAIN Preamble(seq, account)
  PROVE  ~ Counted(Preamble(seq, account)[i])
  BY DEF Preamble, Counted, Cmd, Text

-----------------------------------------------------------------------------
(* What is asked next: the queue as it is, CMD_QUIT, or nothing. *)
LEMMA RequestInOrder ==
  ASSUME NEW n, NEW q \in Seq(CmdSet), NEW low \in Nat, next_seq \in Nat,
         low < next_seq, InOrder(q, low, next_seq), Request(n, q)
  PROVE  low < next_seq' /\ InOrder(cmdlist', low, next_seq')
<1>1. cmdlist' \in {<<>>, OrQuit(q)}
  BY DEF Request, RequestCommand, Disconnect
<1>2. InOrder(<<>>, low, next_seq')
  BY DEF InOrder, Between, Rising
<1>3. CASE q # <<>>
  BY <1>1, <1>2, <1>3 DEF Request, OrQuit
<1>4. CASE q = <<>>
  <2> DEFINE quit == Cmd(next_seq, Text("QUIT", Nil))
  <2>1. next_seq' = next_seq + 1 /\ quit.seq = next_seq
    BY <1>4 DEF Request, Cmd
  <2> HIDE DEF quit
  <2>2. InOrder(<<quit>>, low, next_seq')
    BY <2>1 DEF InOrder, Between, Rising
  <2>3. OrQuit(q) = <<quit>>
    BY <1>4 DEF OrQuit, quit
  <2>4. QED
    BY <1>1, <1>2, <2>1, <2>2, <2>3
<1>5. QED
  BY <1>3, <1>4

(* A batch: what the cache has is taken out of it, the rest stays in order. *)
LEMMA SubmitInOrder ==
  ASSUME IInv, OrderInv, NEW batch \in Batches, NEW account \in Accounts \cup {Guest},
         Submit(batch, account)
  PROVE  OrderInv'
<1> DEFINE n        == Len(batch)
           command(i) == Cmd(next_seq + i - 1, batch[i])
           found    == {i \in 1 .. n : InCache(batch[i])}
           missed   == (1 .. n) \ found
           preamble == IF found = 1 .. n \/ is_connected THEN <<>>
                       ELSE Preamble(next_seq + n, account)
           queued(miss) == [i \in 1 .. Len(miss) |-> command(miss[i])]
<1>1. n \in Nat /\ next_seq \in Nat \ {0} /\ \A i \in 1 .. n : batch[i] \in Texts
  BY Commanded DEF IInv, ConnTypes
<1>2. /\ preamble \in Seq(CmdSet) /\ Len(preamble) \in Nat
      /\ \A i \in DOMAIN preamble : ~ Counted(preamble[i])
  <2>1. CASE found = 1 .. n \/ is_connected
    BY <2>1
  <2>2. CASE ~(found = 1 .. n \/ is_connected)
    <3>1. next_seq + n \in Nat
      BY <1>1
    <3>2. QED
      BY <2>2, <3>1, PreambleCommands, GreetingNotCounted
  <2>3. QED
    BY <2>1, <2>2
<1>3. answered' = answered /\ next_seq' = next_seq + n + Len(preamble)
  BY DEF Submit
<1>4. PICK miss \in Ascending(missed, n) : cmdlist' = Enqueue(cmdlist, preamble, queued(miss))
  BY DEF Submit
<1>5. /\ Len(miss) \in Nat /\ DOMAIN miss = 1 .. Len(miss)
      /\ \A i \in 1 .. Len(miss) : miss[i] \in 1 .. n
  BY <1>1, AscendingPicks
<1>6. \A i, j \in 1 .. Len(miss) : i < j => miss[i] < miss[j]
  BY <1>5 DEF Ascending
<1>7. \A i \in 1 .. n : command(i) \in CmdSet /\ command(i).seq = next_seq + i - 1
  BY <1>1, Commanded DEF Cmd
<1> HIDE DEF command, preamble
<1>8. /\ queued(miss) \in Seq(CmdSet) /\ DOMAIN queued(miss) = 1 .. Len(miss)
      /\ \A i \in 1 .. Len(miss) :
           queued(miss)[i].seq = next_seq + miss[i] - 1
  BY <1>5, <1>7
<1> HIDE DEF queued
<1>9. /\ Rising(queued(miss))
      /\ \A i \in DOMAIN queued(miss) :
           next_seq <= queued(miss)[i].seq /\ queued(miss)[i].seq < next_seq + n
  BY <1>1, <1>5, <1>6, <1>8 DEF Rising
<1>10. next_seq' \in Nat /\ next_seq + n <= next_seq'
  BY <1>1, <1>2, <1>3
<1>11. /\ cmdlist \o preamble \in Seq(CmdSet)
       /\ InOrder(cmdlist \o preamble, answered, next_seq)
  <2>1. Rising(preamble)
    BY <1>2 DEF Rising
  <2>2. cmdlist \in Seq(CmdSet)
    BY DEF IInv, ConnTypes
  <2>3. InOrder(cmdlist \o preamble, answered, next_seq)
    BY <1>1, <1>2, <2>1, <2>2, QueuesInOrder DEF OrderInv
  <2>4. QED
    BY <1>2, <2>2, <2>3
<1>12. InOrder((cmdlist \o preamble) \o queued(miss), answered, next_seq')
  <2> DEFINE asked == cmdlist \o preamble
             rest  == queued(miss)
  <2>1. /\ asked \in Seq(CmdSet) /\ rest \in Seq(CmdSet)
        /\ InOrder(asked, answered, next_seq) /\ Rising(rest)
    BY <1>8, <1>9, <1>11
  <2>2. /\ answered \in Nat /\ next_seq \in Nat /\ next_seq' \in Nat
        /\ answered < next_seq /\ next_seq <= next_seq'
    BY <1>1, <1>10 DEF OrderInv
  <2>3. \A i \in DOMAIN rest : rest[i].seq \in Nat
    <3>1. \A i \in DOMAIN rest : rest[i] \in CmdSet
      BY <1>8
    <3>2. \A k \in CmdSet : k.seq \in Nat
      BY DEF CmdSet
    <3>3. QED
      BY <3>1, <3>2
  <2>4. \A i \in DOMAIN rest : next_seq <= rest[i].seq /\ rest[i].seq < next_seq'
    BY <1>1, <1>9, <1>10, <2>2, <2>3
  <2> HIDE DEF asked, rest
  <2>5. InOrder(asked \o rest, answered, next_seq')
    BY <2>1, <2>2, <2>4, QueuesInOrder
  <2>6. QED
    BY <2>5 DEF asked, rest
<1>13. QED
  BY <1>1, <1>3, <1>4, <1>10, <1>12 DEF OrderInv, Enqueue

-----------------------------------------------------------------------------
(* The reply to the front of the queue. *)
LEMMA ReplyInOrder ==
  ASSUME IInv, OrderInv, cmdlist # <<>>, NEW n, NEW tok, ParseReply(n, tok)
  PROVE  OrderInv' /\ (answered' # answered => answered' > answered)
<1> DEFINE c == Head(cmdlist)
<1>1. cmdlist \in Seq(CmdSet) /\ next_seq \in Nat /\ c = cmdlist[1] /\ c \in CmdSet
  BY DEF IInv, ConnTypes
<1>2. CASE Disconnect(n) /\ UNCHANGED <<answered, next_seq>>
  BY <1>2 DEF Disconnect, OrderInv, InOrder, Between, Rising
<1>3. ASSUME NEW reading \in {"body", "dirty"},
             cmdlist' = <<[c EXCEPT !.reading = reading]>> \o Tail(cmdlist),
             UNCHANGED <<answered, next_seq>>
      PROVE  OrderInv' /\ (answered' # answered => answered' > answered)
  <2>1. /\ DOMAIN cmdlist' = DOMAIN cmdlist
        /\ \A i \in DOMAIN cmdlist : i # 1 => cmdlist'[i] = cmdlist[i]
        /\ cmdlist'[1] = [c EXCEPT !.reading = reading]
    BY <1>1, <1>3
  <2>2. \A i \in DOMAIN cmdlist : cmdlist'[i].seq = cmdlist[i].seq /\ cmdlist'[i].text = cmdlist[i].text
    BY <1>1, <2>1 DEF CmdSet
  <2>3. QED
    BY <1>3, <2>1, <2>2 DEF OrderInv, InOrder, Between, Rising, Counted
<1>4. CASE /\ answered' = IF c.text.command \in {"CLIENT", "AUTH"} THEN answered ELSE c.seq
           /\ Request(n, Tail(cmdlist))
  <2>1. /\ answered' \in Nat /\ answered' < next_seq
        /\ answered' # answered => answered' > answered
        /\ InOrder(Tail(cmdlist), answered', next_seq)
    BY <1>1, <1>4, TailInOrder DEF OrderInv, Counted, CmdSet
  <2>2. Tail(cmdlist) \in Seq(CmdSet)
    BY <1>1
  <2>3. answered' < next_seq' /\ InOrder(cmdlist', answered', next_seq')
    BY <1>1, <1>4, <2>1, <2>2, RequestInOrder
  <2>4. QED
    BY <2>1, <2>3 DEF OrderInv
<1>5. QED
  BY <1>2, <1>3, <1>4 DEF ParseReply

LEMMA BannerInOrder ==
  ASSUME IInv, OrderInv, NEW n, NEW tok, ParseBanner(n, tok)
  PROVE  OrderInv' /\ answered' = answered
<1>1. cmdlist \in Seq(CmdSet) /\ next_seq \in Nat /\ answered' = answered
  BY DEF IInv, ConnTypes, ParseBanner
<1>2. CASE Request(n, cmdlist)
  BY <1>1, <1>2, RequestInOrder DEF OrderInv
<1>3. CASE Disconnect(n) /\ UNCHANGED next_seq
  BY <1>1, <1>3 DEF Disconnect, OrderInv, InOrder, Between, Rising
<1>4. QED
  BY <1>1, <1>2, <1>3 DEF ParseBanner

LEMMA IoInInOrder ==
  ASSUME IInv, OrderInv, IoIn
  PROVE  OrderInv' /\ (answered' # answered => answered' > answered)
<1>1. CASE waiting_banner
  BY <1>1, BannerInOrder DEF IoIn
<1>2. CASE ~ waiting_banner
  <2>1. cmdlist # <<>>
    BY <1>2 DEF IoIn, IInv, Streams, FrontBelongs
  <2>2. QED
    BY <1>2, <2>1, ReplyInOrder DEF IoIn
<1>3. QED
  BY <1>1, <1>2

-----------------------------------------------------------------------------
LEMMA NextInOrder ==
  ASSUME IInv, OrderInv, [Next]_vars
  PROVE  OrderInv' /\ (answered' # answered => answered' > answered)
<1>1. ASSUME NEW batch \in Batches, Send(batch) \/ Register(batch)
      PROVE  OrderInv' /\ answered' = answered
  <2>1. PICK account \in Accounts \cup {Guest} : Submit(batch, account)
    BY <1>1 DEF Send, Register, IInv, ConfigTypes
  <2>2. QED
    BY <2>1, SubmitInOrder DEF Submit
<1>2. CASE IoIn
  BY <1>2, IoInInOrder
<1>3. CASE cmdlist' = <<>> /\ UNCHANGED <<answered, next_seq>>
  BY <1>3 DEF OrderInv, InOrder, Between, Rising
<1>4. CASE UNCHANGED <<cmdlist, answered, next_seq>>
  BY <1>4 DEF OrderInv
<1>5. ASSUME NEW w \in Descriptors, IoErr(w) \/ IoStale(w) \/ Environment(w)
      PROVE  \/ cmdlist' = <<>> /\ UNCHANGED <<answered, next_seq>>
             \/ UNCHANGED <<cmdlist, answered, next_seq>>
  BY <1>5 DEF IoErr, IoStale, Environment, clientVars, histVars, Disconnect
<1>6. IoEof => cmdlist' = <<>> /\ UNCHANGED <<answered, next_seq>>
  BY DEF IoEof, Disconnect
<1>7. ASSUME NEW h \in Hosts, SetServer(h) \/ \E ok \in BOOLEAN : ResolveDone(h, ok)
      PROVE  UNCHANGED <<cmdlist, answered, next_seq>>
  BY <1>7 DEF SetServer, ResolveDone, histVars
<1>8. ASSUME NEW account, SetAccount(account)
      PROVE  UNCHANGED <<cmdlist, answered, next_seq>>
  BY <1>8 DEF SetAccount, histVars
<1>9. ASSUME NEW result, ConnectDone(result)
      PROVE  UNCHANGED <<cmdlist, answered, next_seq>>
  BY <1>9 DEF ConnectDone, histVars
<1>10. CASE UNCHANGED vars
  BY <1>4, <1>10 DEF vars, histVars
<1>11. QED
  BY <1>1, <1>2, <1>3, <1>4, <1>5, <1>6, <1>7, <1>8, <1>9, <1>10 DEF Next

(* The answers come in the order the commands were made, through any       *)
(* connections that end or overlap: a queue that is dropped is not asked   *)
(* again, and what the cache answers is not asked at all.                  *)
THEOREM AnswersComeInOrder == Spec => AnswersInOrder
<1>1. Init => OrderInv
  BY DEF Init, OrderInv, InOrder, Between, Rising
<1>2. IInv /\ OrderInv /\ [Next]_vars => OrderInv'
  BY NextInOrder
<1>3. IInv /\ OrderInv /\ [Next]_vars => [answered' # answered => answered' > answered]_vars
  BY NextInOrder
<1>4. QED
  BY <1>1, <1>2, <1>3, Invariance, PTL DEF Spec, AnswersInOrder

-----------------------------------------------------------------------------
(* The masks.  The server computes the replies of a connection one after   *)
(* another, so that their masks rise along the stream and the last is not  *)
(* newer than the mask it has; those still to be read from the channel are *)
(* not older than the mask that was confirmed.                             *)
MasksRise(s) ==
  LET rep == net[s].rep IN
  /\ rep # <<>> => net[s].phase # "unused" /\ net[s].peer \in Hosts
  /\ \A i \in DOMAIN rep : rep[i].mask <= mask[net[s].peer]
  /\ \A i, j \in DOMAIN rep : i < j => rep[i].mask <= rep[j].mask

NotOlder(rep, m) == \A i \in DOMAIN rep : rep[i].kind # "hello" => m <= rep[i].mask

ToBeRead ==
  channel # Nil /\ ~ (waiting_banner /\ Fresh(net[channel])) =>
    NotOlder(net[channel].rep, acked[net[channel].peer])

Confirmed == acked \in [Hosts -> Nat] /\ \A h \in Hosts : acked[h] <= mask[h]

KeptNotOlder ==
  /\ \A e \in Elements(str_pool) : e.key.command \in StrCommands
  /\ \A e \in Elements(str_pool) \cup Elements(lookup_pool) :
       OfMask(e.key) => e.data.host \in Hosts /\ acked[e.data.host] <= e.data.mask

MaskInv == (\A s \in Descriptors : MasksRise(s)) /\ ToBeRead /\ Confirmed /\ KeptNotOlder

(* What a step may do to the replies of a stream. *)
Moves(s) ==
  \/ net'[s].rep = <<>>
  \/ net'[s].rep = net[s].rep /\ net'[s].peer = net[s].peer
  \/ s = channel /\ net[s].rep # <<>> /\ net'[s].rep = Tail(net[s].rep) /\ net'[s].peer = net[s].peer
  \/ /\ net'[s].peer = net[s].peer /\ net[s].peer \in Hosts /\ net[s].phase = "up"
     /\ \E code \in {"HELLO", "UNAVAILABLE"} : net'[s].rep = <<Banner(code)>>
  \/ /\ net'[s].peer = net[s].peer /\ net[s].peer \in Hosts /\ net[s].phase = "up"
     /\ \E request \in Texts : \E code \in StatusCodes(request.command) :
          net'[s].rep = net[s].rep \o Reply(request, code, mask'[net[s].peer])

StreamsMove ==
  /\ \A s \in Descriptors : Moves(s) /\ (net'[s].phase = "unused" => net[s].phase = "unused")
  /\ \A h \in Hosts : mask[h] <= mask'[h]

(* Masks of two streams in a row. *)
LEMMA MasksOfReply ==
  ASSUME NEW request \in Texts, NEW code \in StatusCodes(request.command), NEW m \in Nat
  PROVE  \A i \in DOMAIN Reply(request, code, m) : Reply(request, code, m)[i].mask = m
  BY DEF Reply, Token

LEMMA MasksRiseOn ==
  ASSUME IInv, IInv', NEW s \in Descriptors, MasksRise(s), StreamsMove
  PROVE  MasksRise(s)'
<1> DEFINE rep == net[s].rep
           h == net[s].peer
<1>1. /\ rep \in Seq(TokenSet) /\ \A t \in TokenSet : t.mask \in Nat
      /\ \A g \in Hosts : mask[g] \in Nat /\ mask'[g] \in Nat /\ mask[g] <= mask'[g]
  <2>1. net[s] \in StreamSet
    BY DEF IInv, NetTypes
  <2>2. rep \in Seq(TokenSet)
    BY <2>1 DEF StreamSet
  <2>3. \A t \in TokenSet : t.mask \in Nat
    BY TokenKinds
  <2>4. \A g \in Hosts : mask[g] \in Nat /\ mask'[g] \in Nat /\ mask[g] <= mask'[g]
    BY DEF IInv, NetTypes, StreamsMove
  <2>5. QED
    BY <2>2, <2>3, <2>4
<1>2. Len(rep) \in Nat /\ DOMAIN rep = 1 .. Len(rep) /\ \A i \in DOMAIN rep : rep[i].mask \in Nat
  BY <1>1
<1>3. CASE net'[s].rep = <<>>
  BY <1>3 DEF MasksRise
<1>4. CASE rep # <<>> /\ net'[s].rep = rep /\ net'[s].peer = h
  <2>1. h \in Hosts /\ net'[s].phase # "unused"
    BY <1>4 DEF MasksRise, StreamsMove
  <2>2. \A i \in DOMAIN rep : rep[i].mask <= mask'[h]
    BY <1>1, <1>2, <2>1 DEF MasksRise
  <2>3. QED
    BY <1>4, <2>1, <2>2 DEF MasksRise
<1>5. CASE rep # <<>> /\ net'[s].rep = Tail(rep) /\ net'[s].peer = h
  <2>1. \A i \in DOMAIN Tail(rep) : i \in Nat /\ i + 1 \in DOMAIN rep /\ Tail(rep)[i] = rep[i + 1]
    BY <1>1, <1>5
  <2>2. h \in Hosts /\ net'[s].phase # "unused"
    BY <1>5 DEF MasksRise, StreamsMove
  <2>3. \A i \in DOMAIN Tail(rep) : Tail(rep)[i].mask <= mask'[h]
    BY <1>1, <1>2, <2>1, <2>2 DEF MasksRise
  <2>4. \A i, j \in DOMAIN Tail(rep) : i < j => Tail(rep)[i].mask <= Tail(rep)[j].mask
    BY <1>2, <2>1 DEF MasksRise
  <2>5. QED
    BY <1>5, <2>2, <2>3, <2>4 DEF MasksRise
<1>6. ASSUME NEW code, net'[s].rep = <<Banner(code)>>, net'[s].peer = h, h \in Hosts,
             net[s].phase = "up"
      PROVE  MasksRise(s)'
  BY <1>1, <1>6 DEF MasksRise, StreamsMove, Banner, Token
<1>7. ASSUME NEW request \in Texts, NEW code \in StatusCodes(request.command),
             net'[s].rep = rep \o Reply(request, code, mask'[h]), net'[s].peer = h, h \in Hosts,
             net[s].phase = "up"
      PROVE  MasksRise(s)'
  <2> DEFINE reply == Reply(request, code, mask'[h])
             new == rep \o reply
  <2>1. reply \in Seq(TokenSet) /\ \A i \in DOMAIN reply : reply[i].mask = mask'[h]
    <3>1. mask'[h] \in Nat
      BY <1>1, <1>7
    <3>2. reply \in Seq(TokenSet)
      BY <3>1, ReplyIsOwn
    <3>3. QED
      BY <3>1, <3>2, MasksOfReply
  <2> HIDE DEF reply
  <2>2. /\ \A i \in DOMAIN new : i \in DOMAIN rep \/ i - Len(rep) \in DOMAIN reply
        /\ \A i \in DOMAIN rep : new[i] = rep[i]
        /\ \A i \in DOMAIN new : i \notin DOMAIN rep => i > Len(rep) /\ new[i] = reply[i - Len(rep)]
        /\ DOMAIN new \subseteq Nat
    BY <1>1, <2>1
  <2> HIDE DEF new
  <2>3. \A i \in DOMAIN rep : rep[i].mask <= mask'[h]
    BY <1>1, <1>2, <1>7 DEF MasksRise
  <2>4. /\ \A i \in DOMAIN new : i \in DOMAIN rep => new[i].mask = rep[i].mask
        /\ \A i \in DOMAIN new : i \notin DOMAIN rep => i > Len(rep) /\ new[i].mask = mask'[h]
    BY <2>1, <2>2
  <2>5. \A i \in DOMAIN new : new[i].mask <= mask'[h]
    BY <1>1, <1>7, <2>3, <2>4
  <2>6. \A i, j \in DOMAIN new : i < j => new[i].mask <= new[j].mask
    BY <1>2, <2>2, <2>4, <2>5 DEF MasksRise
  <2>7. net'[s].rep = new /\ net'[s].phase # "unused"
    BY <1>7 DEF new, reply, StreamsMove
  <2>8. QED
    BY <1>7, <2>5, <2>6, <2>7 DEF MasksRise
<1>8. QED
  BY <1>3, <1>4, <1>5, <1>6, <1>7 DEF StreamsMove, Moves

(* How the steps move the streams. *)
LEMMA UntouchedMove ==
  ASSUME IInv, net' = net, mask' = mask
  PROVE  StreamsMove
<1>1. \A h \in Hosts : mask[h] \in Nat
  BY DEF IInv, NetTypes
<1>2. QED
  BY <1>1 DEF StreamsMove, Moves

LEMMA OpenedMove ==
  ASSUME IInv, \A s \in Descriptors : MasksRise(s), NEW address, OnResolved(address), mask' = mask
  PROVE  StreamsMove
<1>1. CASE net' = net
  BY <1>1, UntouchedMove
<1>2. ASSUME NEW s \in Descriptors, NextDescriptor(s), Opened(s, address)
      PROVE  StreamsMove
  <2> DEFINE new == [net[s] EXCEPT !.phase = "open", !.peer = address]
  <2>1. net[s] \in StreamSet /\ net[s].rep = <<>>
    BY <1>2 DEF IInv, NetTypes, NextDescriptor, MasksRise
  <2>2. new.rep = <<>> /\ new.phase = "open"
    BY <2>1 DEF StreamSet
  <2> HIDE DEF new
  <2>3. net' = [net EXCEPT ![s] = new]
    BY <1>2 DEF Opened, new
  <2>4. \A t \in Descriptors : net'[t] = IF t = s THEN new ELSE net[t]
    BY <2>3 DEF IInv, NetTypes
  <2>5. \A h \in Hosts : mask[h] <= mask'[h]
    BY DEF IInv, NetTypes
  <2>6. QED
    BY <2>2, <2>4, <2>5 DEF StreamsMove, Moves
<1>3. QED
  BY <1>1, <1>2 DEF OnResolved

LEMMA ConnectMoves ==
  ASSUME IInv, \A s \in Descriptors : MasksRise(s), Connect, mask' = mask
  PROVE  StreamsMove
  BY OpenedMove, UntouchedMove DEF Connect

(* n is the streams of net, but for a line read from the channel. *)
ReadFrom(n) ==
  /\ RestOf(n)
  /\ n # net => channel # Nil /\ net[channel].rep # <<>> /\ n = Left

LEMMA ReadMoves ==
  ASSUME IInv, NEW n, ReadFrom(n), mask' = mask, NEW s \in Descriptors,
         \/ net'[s].rep = <<>> /\ net'[s].phase = "closed"
         \/ net'[s].rep = n[s].rep /\ net'[s].peer = n[s].peer /\ net'[s].phase = n[s].phase
  PROVE  Moves(s) /\ (net'[s].phase = "unused" => net[s].phase = "unused")
<1>1. n[s].phase = net[s].phase /\ n[s].peer = net[s].peer /\ (s # channel => n[s] = net[s])
  BY DEF ReadFrom, RestOf
<1>2. s = channel /\ n # net => net[s].rep # <<>> /\ n[s].rep = Tail(net[s].rep)
  BY LeftIsRest DEF IInv, ReadFrom
<1>3. QED
  BY <1>1, <1>2 DEF Moves

LEMMA DisconnectMoves ==
  ASSUME IInv, NEW n, ReadFrom(n), Disconnect(n), mask' = mask
  PROVE  StreamsMove
<1>1. DOMAIN n = Descriptors /\ \A s \in Descriptors : n[s] \in StreamSet
  BY DEF ReadFrom, RestOf
<1>2. \A s \in Descriptors :
        net'[s] = n[s] \/ net'[s] = [n[s] EXCEPT !.phase = "closed", !.rep = <<>>]
  BY <1>1 DEF Disconnect, Closed
<1>3. \A s \in Descriptors :
        \/ net'[s].rep = <<>> /\ net'[s].phase = "closed"
        \/ net'[s].rep = n[s].rep /\ net'[s].peer = n[s].peer /\ net'[s].phase = n[s].phase
  BY <1>1, <1>2 DEF StreamSet
<1>4. \A h \in Hosts : mask[h] <= mask'[h]
  BY DEF IInv, NetTypes
<1>5. QED
  BY <1>3, <1>4, ReadMoves DEF StreamsMove

LEMMA RequestMoves ==
  ASSUME IInv, NEW n, ReadFrom(n), NEW q, Request(n, q), mask' = mask, channel # Nil
  PROVE  StreamsMove
<1>1. CASE Disconnect(n)
  BY <1>1, DisconnectMoves
<1>2. ASSUME NEW req, NEW sent, net' = [n EXCEPT ![channel].req = req, ![channel].sent = sent]
      PROVE  StreamsMove
  <2> DEFINE new == [n[channel] EXCEPT !.req = req, !.sent = sent]
  <2>1. channel \in Descriptors /\ n \in [Descriptors -> StreamSet]
    BY DEF IInv, ConnTypes, ReadFrom, RestOf
  <2>2. new.rep = n[channel].rep /\ new.peer = n[channel].peer /\ new.phase = n[channel].phase
    BY <2>1 DEF StreamSet
  <2> HIDE DEF new
  <2>3. net' = [n EXCEPT ![channel] = new]
    BY <1>2 DEF new
  <2>4. \A s \in Descriptors : net'[s] = IF s = channel THEN new ELSE n[s]
    BY <2>1, <2>3
  <2>5. \A h \in Hosts : mask[h] <= mask'[h]
    BY DEF IInv, NetTypes
  <2>6. QED
    BY <2>2, <2>4, <2>5, ReadMoves DEF StreamsMove
<1>3. QED
  BY <1>1, <1>2 DEF Request, RequestCommand

LEMMA EnvironmentMoves ==
  ASSUME IInv, NEW s \in Descriptors, Environment(s)
  PROVE  StreamsMove
<1>1. /\ DOMAIN net = Descriptors /\ net[s] \in StreamSet
      /\ \A h \in Hosts : mask[h] \in Nat
  BY DEF IInv, NetTypes
<1>2. ASSUME NEW new, net' = [net EXCEPT ![s] = new], new.peer = net[s].peer,
             new.phase # "unused", new.rep \in {<<>>, net[s].rep}, mask' = mask
      PROVE  StreamsMove
  <2>1. net'[s] = new /\ \A t \in Descriptors \ {s} : net'[t] = net[t]
    BY <1>1, <1>2
  <2>2. \A h \in Hosts : mask[h] <= mask'[h]
    BY <1>1, <1>2
  <2>3. Moves(s)
    BY <1>2, <2>1 DEF Moves
  <2>4. QED
    BY <1>2, <2>1, <2>2, <2>3 DEF StreamsMove, Moves
<1>3. ASSUME NEW ok \in BOOLEAN, ConnectThread(s, ok)
      PROVE  StreamsMove
  <2> DEFINE new == [net[s] EXCEPT !.phase = IF ok THEN "up" ELSE "failed"]
  <2>1. /\ new.peer = net[s].peer /\ new.phase # "unused" /\ new.rep = net[s].rep
    BY <1>1 DEF StreamSet
  <2>2. CASE net[s].phase = "open"
    <3>1. net' = [net EXCEPT ![s] = new] /\ mask' = mask
      BY <1>3, <2>2 DEF ConnectThread
    <3> HIDE DEF new
    <3>2. QED
      BY <1>2, <2>1, <3>1
  <2>3. CASE net[s].phase # "open"
    BY <1>3, <2>3, UntouchedMove DEF ConnectThread
  <2>4. QED
    BY <2>2, <2>3
<1>4. CASE PeerCloses(s)
  <2> DEFINE new == [net[s] EXCEPT !.phase = "eof", !.req = <<>>]
  <2>1. new.peer = net[s].peer /\ new.phase = "eof" /\ new.rep = net[s].rep
    BY <1>1 DEF StreamSet
  <2>2. net' = [net EXCEPT ![s] = new] /\ mask' = mask
    BY <1>4 DEF PeerCloses
  <2> HIDE DEF new
  <2>3. QED
    BY <1>2, <2>1, <2>2
<1>5. CASE PeerResets(s)
  <2> DEFINE new == [net[s] EXCEPT !.phase = "reset", !.req = <<>>, !.rep = <<>>]
  <2>1. new.peer = net[s].peer /\ new.phase = "reset" /\ new.rep = <<>>
    BY <1>1 DEF StreamSet
  <2>2. net' = [net EXCEPT ![s] = new] /\ mask' = mask
    BY <1>5 DEF PeerResets
  <2> HIDE DEF new
  <2>3. QED
    BY <1>2, <2>1, <2>2
<1>6. CASE Greet(s)
  <2>1. PICK code \in {"HELLO", "UNAVAILABLE"} :
          net' = [net EXCEPT ![s].rep = <<Banner(code)>>, ![s].greeted = TRUE]
    BY <1>6 DEF Greet
  <2> DEFINE new == [net[s] EXCEPT !.rep = <<Banner(code)>>, !.greeted = TRUE]
  <2>2. new.peer = net[s].peer /\ new.phase = net[s].phase /\ new.rep = <<Banner(code)>>
    BY <1>1 DEF StreamSet
  <2>3. net' = [net EXCEPT ![s] = new]
    BY <2>1
  <2> HIDE DEF new
  <2>4. net[s].phase = "up" /\ net[s].peer \in Hosts /\ mask' = mask
    BY <1>6 DEF Greet, IInv, NetTypes, HasPeer
  <2>5. net'[s] = new /\ \A t \in Descriptors \ {s} : net'[t] = net[t]
    BY <1>1, <2>3
  <2>6. Moves(s)
    BY <2>2, <2>4, <2>5 DEF Moves
  <2>7. \A h \in Hosts : mask[h] <= mask'[h]
    BY <1>1, <2>4
  <2>8. QED
    BY <2>2, <2>4, <2>5, <2>6, <2>7 DEF StreamsMove, Moves
<1>7. CASE Serve(s)
  <2> DEFINE request == Head(net[s].req)
             h == net[s].peer
  <2>1. h \in Hosts /\ request \in Texts
    <3>1. net[s].req \in Seq(Texts) /\ net[s].req # <<>> /\ HasPeer(net[s])
      BY <1>1, <1>7 DEF Serve, StreamSet, IInv, NetTypes
    <3>2. QED
      BY <3>1 DEF HasPeer
  <2>2. PICK code \in StatusCodes(request.command), m \in {mask[h], mask[h] + 1} :
          /\ mask' = [mask EXCEPT ![h] = m]
          /\ net' = [net EXCEPT ![s].req = Tail(@),
                                ![s].rep = IF net[s].phase = "up"
                                             THEN @ \o Reply(request, code, m) ELSE @]
    BY <1>7, Zenon DEF Serve
  <2> DEFINE rep == IF net[s].phase = "up" THEN net[s].rep \o Reply(request, code, m)
                    ELSE net[s].rep
             new == [net[s] EXCEPT !.req = Tail(@), !.rep = rep]
  <2> HIDE DEF request
  <2>3. new.peer = h /\ new.phase = net[s].phase /\ new.rep = rep
    BY <1>1 DEF StreamSet
  <2>4. net' = [net EXCEPT ![s] = new]
    BY <2>2
  <2>5. m \in Nat /\ mask[h] <= m /\ mask'[h] = m /\ \A g \in Hosts : g # h => mask'[g] = mask[g]
    BY <1>1, <2>1, <2>2 DEF IInv, NetTypes
  <2> HIDE DEF new
  <2>6. net'[s] = new /\ \A t \in Descriptors \ {s} : net'[t] = net[t]
    BY <1>1, <2>4
  <2>7. Moves(s)
    BY <2>1, <2>3, <2>5, <2>6 DEF Moves
  <2>8. \A g \in Hosts : mask[g] <= mask'[g]
    BY <1>1, <2>5
  <2>9. QED
    BY <2>3, <2>6, <2>7, <2>8 DEF StreamsMove, Moves
<1>8. QED
  BY <1>3, <1>4, <1>5, <1>6, <1>7 DEF Environment

LEMMA IoInMoves ==
  ASSUME IInv, IoIn
  PROVE  StreamsMove /\ ReadFrom(Left) /\ channel' \in {channel, Nil}
<1>1. /\ channel # Nil /\ net[channel].rep # <<>> /\ mask' = mask
      /\ IF waiting_banner THEN ParseBanner(Left, Head(net[channel].rep))
         ELSE ParseReply(Left, Head(net[channel].rep))
  BY DEF IoIn, untouchedByInput, Left
<1>2. ReadFrom(Left)
  BY <1>1, LeftIsRest DEF IInv, ReadFrom
<1>3. CASE Disconnect(Left)
  BY <1>1, <1>2, <1>3, DisconnectMoves DEF Disconnect
<1>4. ASSUME NEW q, Request(Left, q)
      PROVE  StreamsMove /\ channel' \in {channel, Nil}
  BY <1>1, <1>2, <1>4, RequestMoves DEF Request, RequestCommand, Disconnect
<1>5. CASE net' = Left /\ channel' = channel
  <2>1. \A h \in Hosts : mask[h] <= mask'[h]
    BY <1>1 DEF IInv, NetTypes
  <2>2. QED
    BY <1>1, <1>2, <1>5, <2>1, ReadMoves DEF StreamsMove
<1>6. QED
  BY <1>1, <1>2, <1>3, <1>4, <1>5 DEF ParseBanner, ParseReply

LEMMA StepMoves ==
  ASSUME IInv, \A s \in Descriptors : MasksRise(s), [Next]_vars
  PROVE  StreamsMove
<1>1. ReadFrom(net)
  BY NetIsRest DEF IInv, ReadFrom
<1>2. ASSUME NEW batch \in Batches, Send(batch) \/ Register(batch)
      PROVE  StreamsMove
  <2>1. PICK account : Submit(batch, account)
    BY <1>2 DEF Send, Register
  <2>2. (net' = net \/ Connect) /\ mask' = mask
    BY <2>1, Zenon DEF Submit
  <2>3. QED
    BY <2>2, ConnectMoves, UntouchedMove
<1>3. ASSUME NEW h \in Hosts, NEW ok \in BOOLEAN, ResolveDone(h, ok)
      PROVE  StreamsMove
  BY <1>3, OpenedMove, UntouchedMove DEF ResolveDone
<1>4. CASE \/ \E h \in Hosts : SetServer(h)
           \/ \E account \in Accounts \cup {Guest} : SetAccount(account)
           \/ \E result \in connected : ConnectDone(result)
           \/ \E w \in Descriptors : IoStale(w)
           \/ UNCHANGED vars
  BY <1>4, UntouchedMove DEF SetServer, SetAccount, ConnectDone, IoStale, vars, sockVars
<1>5. CASE IoEof \/ \E w \in Descriptors : IoErr(w)
  BY <1>1, <1>5, DisconnectMoves DEF IoEof, IoErr, untouchedByInput
<1>6. QED
  BY <1>2, <1>3, <1>4, <1>5, IoInMoves, EnvironmentMoves DEF Next

(* What a step that reads nothing leaves alone: the masks confirmed, the   *)
(* banner that is awaited, and, but for a cleaning, the answers kept.      *)
Aside ==
  /\ acked' = acked
  /\ UNCHANGED poolVars \/ CleanAll
  /\ waiting_banner => waiting_banner'
  /\ \/ channel' = Nil
     \/ channel' = channel /\ \A s \in Descriptors : Fresh(net[s]) => Fresh(net'[s])
     \/ channel' = sd /\ net' = net /\ waiting_banner'

LEMMA BatchAside ==
  ASSUME IInv, NEW batch \in Batches, Send(batch) \/ Register(batch)
  PROVE  Aside
<1>1. PICK account : Submit(batch, account)
  BY DEF Send, Register
<1>2. acked' = acked /\ channel' = channel /\ UNCHANGED <<dns_map, connected, mask>>
  BY <1>1 DEF Submit
<1>3. UNCHANGED poolVars \/ CleanAll
  BY DEF Send, Register, SetAuth
<1>4. /\ (waiting_banner' = waiting_banner /\ net' = net) \/ (waiting_banner' /\ Connect)
  BY <1>1, Zenon DEF Submit
<1>5. waiting_banner => waiting_banner'
  BY <1>4, Zenon
<1>6. ASSUME Connect
      PROVE  \A s \in Descriptors : Fresh(net[s]) => Fresh(net'[s])
  BY <1>2, <1>6, ConnectGoesOn DEF IInv, ConfigTypes, ConnTypes, GoesOn
<1>7. net' = net => \A s \in Descriptors : Fresh(net[s]) => Fresh(net'[s])
  OBVIOUS
<1>8. QED
  BY <1>2, <1>3, <1>4, <1>5, <1>6, <1>7 DEF Aside

LEMMA ResolveAside ==
  ASSUME IInv, NEW h \in Hosts, NEW ok \in BOOLEAN, ResolveDone(h, ok)
  PROVE  Aside
<1>1. /\ acked' = acked /\ channel' = channel /\ UNCHANGED poolVars
      /\ connected' = connected /\ mask' = mask
      /\ dns_map' \subseteq Hosts /\ resolving' \in [Hosts -> Nat]
  BY DEF ResolveDone, TakeResolved, histVars, IInv, NetTypes
<1>2. waiting_banner => waiting_banner'
  BY Zenon DEF ResolveDone
<1>3. CASE OnResolved(h)
  <2>1. \A s \in Descriptors : GoesOn(net[s], net'[s])
    BY <1>1, <1>3, OnResolvedGoesOn DEF IInv, ConnTypes
  <2>2. QED
    BY <1>1, <1>2, <2>1 DEF Aside, GoesOn
<1>4. CASE net' = net
  BY <1>1, <1>2, <1>4 DEF Aside
<1>5. QED
  BY <1>3, <1>4 DEF ResolveDone

LEMMA StepAside ==
  ASSUME IInv, [Next]_vars, ~ IoIn
  PROVE  Aside
<1>1. ASSUME UNCHANGED <<acked, channel, net>>, waiting_banner' = waiting_banner,
             UNCHANGED poolVars \/ CleanAll
      PROVE  Aside
  <2>1. waiting_banner => waiting_banner'
    BY <1>1, Zenon
  <2>2. QED
    BY <1>1, <2>1 DEF Aside
<1>2. ASSUME NEW h \in Hosts, SetServer(h)
      PROVE  Aside
  <2>1. waiting_banner' = waiting_banner
    BY <1>2, Zenon DEF SetServer
  <2>2. QED
    BY <1>1, <1>2, <2>1 DEF SetServer, sockVars, connVars, histVars
<1>3. ASSUME NEW account, SetAccount(account)
      PROVE  Aside
  <2>1. waiting_banner' = waiting_banner
    BY <1>3, Zenon DEF SetAccount
  <2>2. QED
    BY <1>1, <1>3, <2>1 DEF SetAccount, SetAuth, sockVars, connVars, histVars
<1>4. ASSUME NEW w \in Descriptors, IoStale(w)
      PROVE  Aside
  <2>1. waiting_banner' = waiting_banner
    BY <1>4, Zenon DEF IoStale
  <2>2. QED
    BY <1>1, <1>4, <2>1 DEF IoStale, sockVars, histVars
<1>5. ASSUME NEW result, ConnectDone(result)
      PROVE  Aside
  <2>1. acked' = acked /\ net' = net /\ UNCHANGED poolVars
    BY <1>5 DEF ConnectDone, histVars
  <2>2. /\ waiting_banner => waiting_banner'
        /\ channel' \in {channel, Nil} \/ (channel' = sd /\ waiting_banner')
    BY <1>5, Zenon DEF ConnectDone, connVars
  <2>3. QED
    BY <2>1, <2>2 DEF Aside
<1>6. CASE IoEof \/ \E w \in Descriptors : IoErr(w)
  <2>1. waiting_banner => waiting_banner'
    BY <1>6, Zenon DEF IoEof, IoErr
  <2>2. QED
    BY <1>6, <2>1 DEF IoEof, IoErr, Disconnect, Aside
<1>7. ASSUME NEW s \in Descriptors, Environment(s)
      PROVE  Aside
  <2>1. \A t \in Descriptors : GoesOn(net[t], net'[t])
    BY <1>7, ThreadGoesOn, GreetGoesOn, ServeGoesOn, PeerGoesOn DEF IInv, Environment
  <2>2. waiting_banner => waiting_banner'
    BY <1>7, Zenon DEF Environment, clientVars
  <2>3. QED
    BY <1>7, <2>1, <2>2 DEF Environment, clientVars, connVars, histVars, Aside, GoesOn
<1>8. CASE UNCHANGED vars
  <2>1. waiting_banner' = waiting_banner
    BY <1>8, Zenon DEF vars
  <2>2. QED
    BY <1>1, <1>8, <2>1 DEF vars, sockVars, connVars, histVars
<1>9. QED
  BY <1>2, <1>3, <1>4, <1>5, <1>6, <1>7, <1>8, BatchAside, ResolveAside DEF Next

(* What was not older than the confirmed mask is not, wherever it moves. *)
LEMMA NotOlderMoves ==
  ASSUME IInv, IInv', NEW s \in Descriptors, MasksRise(s), Confirmed, StreamsMove, acked' = acked,
         NotOlder(net[s].rep, acked[net[s].peer])
  PROVE  NotOlder(net'[s].rep, acked'[net'[s].peer])
<1> DEFINE rep == net[s].rep
           h == net[s].peer
<1>1. rep \in Seq(TokenSet) /\ Len(rep) \in Nat /\ DOMAIN rep = 1 .. Len(rep)
  <2>1. net[s] \in StreamSet
    BY DEF IInv, NetTypes
  <2>2. QED
    BY <2>1 DEF StreamSet
<1>2. CASE net'[s].rep = <<>>
  BY <1>2 DEF NotOlder
<1>3. CASE net'[s].rep = rep /\ net'[s].peer = h
  BY <1>3 DEF NotOlder
<1>4. CASE rep # <<>> /\ net'[s].rep = Tail(rep) /\ net'[s].peer = h
  <2>1. \A i \in DOMAIN Tail(rep) : i + 1 \in DOMAIN rep /\ Tail(rep)[i] = rep[i + 1]
    BY <1>1, <1>4
  <2>2. QED
    BY <1>4, <2>1 DEF NotOlder
<1>5. ASSUME NEW code, net'[s].rep = <<Banner(code)>>
      PROVE  NotOlder(net'[s].rep, acked'[net'[s].peer])
  BY <1>5 DEF NotOlder, Banner, Token
<1>6. ASSUME NEW request \in Texts, NEW code \in StatusCodes(request.command),
             net'[s].rep = rep \o Reply(request, code, mask'[h]), net'[s].peer = h, h \in Hosts
      PROVE  NotOlder(net'[s].rep, acked'[net'[s].peer])
  <2> DEFINE reply == Reply(request, code, mask'[h])
             new == rep \o reply
  <2>1. mask'[h] \in Nat /\ mask[h] \in Nat /\ acked[h] \in Nat /\ acked[h] <= mask'[h]
    BY <1>6 DEF IInv, NetTypes, Confirmed, StreamsMove
  <2>2. reply \in Seq(TokenSet) /\ \A i \in DOMAIN reply : reply[i].mask = mask'[h]
    BY <1>6, <2>1, ReplyIsOwn, MasksOfReply
  <2> HIDE DEF reply
  <2>3. /\ \A i \in DOMAIN rep : new[i] = rep[i]
        /\ \A i \in DOMAIN new : i \notin DOMAIN rep =>
             i - Len(rep) \in DOMAIN reply /\ new[i] = reply[i - Len(rep)]
    BY <1>1, <2>2
  <2> HIDE DEF new
  <2>4. \A i \in DOMAIN new : new[i].kind # "hello" => acked[h] <= new[i].mask
    BY <2>1, <2>2, <2>3 DEF NotOlder
  <2>5. QED
    BY <1>6, <2>4 DEF NotOlder, new, reply
<1>7. QED
  BY <1>2, <1>3, <1>4, <1>5, <1>6 DEF StreamsMove, Moves

LEMMA AsideKeeps ==
  ASSUME IInv, IInv', MaskInv, StreamsMove, Aside
  PROVE  ToBeRead' /\ Confirmed' /\ KeptNotOlder'
<1>1. Confirmed'
  <2>1. \A h \in Hosts : acked[h] \in Nat /\ mask[h] \in Nat /\ mask'[h] \in Nat
    BY DEF MaskInv, Confirmed, IInv, NetTypes
  <2>2. QED
    BY <2>1 DEF MaskInv, Confirmed, Aside, StreamsMove
<1>2. KeptNotOlder'
  <2>1. CASE UNCHANGED poolVars
    BY <2>1 DEF MaskInv, KeptNotOlder, Aside, poolVars
  <2>2. CASE CleanAll
    BY <2>2, CleanPoolIsPool DEF KeptNotOlder, IInv, PoolTypes, CleanAll
  <2>3. QED
    BY <2>1, <2>2 DEF Aside
<1>3. ToBeRead'
  <2> SUFFICES ASSUME channel' # Nil, ~ (waiting_banner' /\ Fresh(net'[channel']))
               PROVE  NotOlder(net'[channel'].rep, acked'[net'[channel'].peer])
    BY Zenon DEF ToBeRead, Fresh, NotOlder
  <2>1. CASE channel' = channel /\ (Fresh(net[channel]) => Fresh(net'[channel]))
    <3>1. channel # Nil /\ ~ (waiting_banner /\ Fresh(net[channel]))
      BY <2>1, Zenon DEF Aside
    <3>2. NotOlder(net[channel].rep, acked[net[channel].peer]) /\ channel \in Descriptors
      BY <3>1 DEF MaskInv, ToBeRead, IInv, ConnTypes
    <3>3. QED
      BY <2>1, <3>2, NotOlderMoves DEF MaskInv, Aside
  <2>2. CASE channel' = sd /\ net' = net /\ waiting_banner'
    <3>1. sd # Nil /\ ~ Fresh(net[sd])
      BY <2>2, Zenon
    <3>2. channel = sd
      BY <3>1 DEF IInv, Streams, SdIsFresh
    <3>3. NotOlder(net[channel].rep, acked[net[channel].peer])
      BY <3>1, <3>2 DEF MaskInv, ToBeRead
    <3>4. QED
      BY <2>2, <3>2, <3>3 DEF Aside
  <2>3. channel' \in Descriptors
    BY DEF IInv, ConnTypes
  <2>4. QED
    BY <2>1, <2>2, <2>3 DEF Aside
<1>4. QED
  BY <1>1, <1>2, <1>3

(* One line was read: the channel is given up, or holds what followed it. *)
LEMMA LineRead ==
  ASSUME IInv, IoIn
  PROVE  \/ channel' = Nil
         \/ /\ channel' = channel
            /\ net'[channel].rep = Tail(net[channel].rep) /\ net'[channel].peer = net[channel].peer
<1>1. /\ channel # Nil /\ net[channel].rep # <<>>
      /\ IF waiting_banner THEN ParseBanner(Left, Head(net[channel].rep))
         ELSE ParseReply(Left, Head(net[channel].rep))
  BY DEF IoIn, Left
<1>2. /\ channel \in Descriptors /\ Left[channel] \in StreamSet /\ Left \in [Descriptors -> StreamSet]
      /\ Left[channel].rep = Tail(net[channel].rep) /\ Left[channel].peer = net[channel].peer
  BY <1>1, LeftIsRest DEF IInv, ConnTypes, RestOf
<1>3. ASSUME NEW q, Request(Left, q), channel' # Nil
      PROVE  /\ channel' = channel
             /\ net'[channel].rep = Left[channel].rep /\ net'[channel].peer = Left[channel].peer
  <2>1. PICK req, sent : net' = [Left EXCEPT ![channel].req = req, ![channel].sent = sent]
    BY <1>3 DEF Request, RequestCommand, Disconnect
  <2> DEFINE new == [Left[channel] EXCEPT !.req = req, !.sent = sent]
  <2>2. new.rep = Left[channel].rep /\ new.peer = Left[channel].peer
    BY <1>2 DEF StreamSet
  <2> HIDE DEF new
  <2>3. net' = [Left EXCEPT ![channel] = new]
    BY <2>1 DEF new
  <2>4. net'[channel] = new
    BY <1>2, <2>3
  <2>5. channel' = channel
    BY <1>3 DEF Request, RequestCommand, Disconnect
  <2>6. QED
    BY <2>2, <2>4, <2>5
<1>4. CASE Disconnect(Left) \/ (net' = Left /\ channel' = channel)
  BY <1>2, <1>4 DEF Disconnect
<1>5. CASE \E q : Request(Left, q)
  BY <1>2, <1>3, <1>5
<1>6. QED
  BY <1>1, <1>4, <1>5 DEF ParseBanner, ParseReply

(* What reading a line does to the answers and to the confirmed masks. *)
Reads(tok) ==
  \/ acked' = acked /\ (UNCHANGED poolVars \/ CleanAll)
  \/ /\ ~ waiting_banner /\ OutdateByMask
     /\ acked' = [acked EXCEPT ![net[channel].peer] = tok.mask]
  \/ /\ ~ waiting_banner
     /\ \E c \in CmdSet : \E t :
          t.mask = tok.mask /\ t.for \in Texts \cup {Nil} /\ EmitsAndSaves(c, t)

LEMMA LineReads ==
  ASSUME IInv, IoIn
  PROVE  Reads(Head(net[channel].rep))
<1> DEFINE tok == Head(net[channel].rep)
           c   == Head(cmdlist)
<1>1. CASE waiting_banner
  BY <1>1, Zenon DEF IoIn, ParseBanner, Reads, poolVars
<1>2. CASE ~ waiting_banner
  <2>1. ParseReply(Left, tok) /\ c \in CmdSet /\ tok \in TokenSet
    BY <1>2, ReplyBelongs, LeftIsRest DEF IoIn, Left, IInv
  <2>2. /\ tok.for \in Texts \cup {Nil}
        /\ [tok EXCEPT !.kind = "body"].mask = tok.mask
        /\ [tok EXCEPT !.kind = "body"].for = tok.for
    BY <2>1, TokenKinds DEF TokenSet
  <2> HIDE DEF tok, c
  <2>3. CASE EmitsAndSaves(c, tok)
    BY <1>2, <2>1, <2>2, <2>3 DEF Reads, tok
  <2>4. CASE EndEffects(c, tok)
    <3>1. CASE SetAuth(register_user) /\ UNCHANGED acked
      BY <3>1 DEF SetAuth, Reads, tok
    <3>2. CASE OutdateByMask /\ acked' = [acked EXCEPT ![net[channel].peer] = tok.mask]
      BY <1>2, <3>2 DEF Reads, tok
    <3>3. CASE EmitsAndSaves(c, [tok EXCEPT !.kind = "body"])
      BY <1>2, <2>1, <2>2, <3>3 DEF Reads, tok
    <3>4. CASE UNCHANGED <<acked, poolVars>>
      BY <3>4 DEF Reads, tok
    <3>5. QED
      BY <2>4, <3>1, <3>2, <3>3, <3>4 DEF EndEffects
  <2>5. CASE UNCHANGED <<poolVars, acked>>
    BY <2>5 DEF Reads, tok
  <2>6. QED
    BY <2>1, <2>3, <2>4, <2>5 DEF ParseReply, c
<1>3. QED
  BY <1>1, <1>2

(* The pools of a line, whose mask is not older than the confirmed one. *)
LEMMA SavedNotOlder ==
  ASSUME IInv, KeptNotOlder, NEW c \in CmdSet, NEW tok, EmitsAndSaves(c, tok),
         tok.mask \in Nat, tok.for \in Texts \cup {Nil}, channel \in Descriptors,
         net[channel].peer \in Hosts, acked[net[channel].peer] <= tok.mask
  PROVE  KeptNotOlder'
<1> DEFINE data == Answer(c, tok)
           e    == [key |-> c.text, data |-> data]
<1>1. /\ c.text \in Texts /\ data \in DataSet
      /\ e.key = c.text /\ e.data.host = net[channel].peer /\ e.data.mask = tok.mask
  BY DEF Answer, Data, DataSet, CmdSet, IInv, NetTypes, StreamSet
<1>2. StrPoolSize \in Nat \ {0} /\ LookupPoolSize \in Nat \ {0}
  BY ClientAssumption DEF ClientAssumption
<1> HIDE DEF data
<1>3. /\ Elements(str_pool') \subseteq Elements(str_pool) \cup {e}
      /\ e \in Elements(str_pool') => c.text.command \in StrCommands \/ e \in Elements(str_pool)
  BY <1>1, <1>2, SavePoolIsPool DEF IInv, PoolTypes, EmitsAndSaves, data
<1>4. Elements(lookup_pool') \subseteq Elements(lookup_pool) \cup {e}
  BY <1>1, <1>2, SavePoolIsPool DEF IInv, PoolTypes, EmitsAndSaves, data
<1>5. acked' = acked
  BY DEF EmitsAndSaves
<1> HIDE DEF e
<1>6. QED
  BY <1>1, <1>3, <1>4, <1>5 DEF KeptNotOlder

(* A cleaned key is in no element that stays. *)
LEMMA KeyIsCleaned ==
  ASSUME NEW pool, NEW key, NEW size, pool \in Pool(size, Texts, DataSet)
  PROVE  \A e \in Elements(CleanKey(pool, key)) : e.key # key
<1> DEFINE Others == {j \in DOMAIN pool.slot : pool.slot[j].key # key}
<1>1. CleanKey(pool, key) = [slot |-> [i \in Others |-> pool.slot[i]], pos |-> pool.pos]
  BY PoolShape DEF CleanKey
<1>2. QED
  BY <1>1 DEF Elements

LEMMA OutdatedNotOlder ==
  ASSUME IInv, KeptNotOlder, OutdateByMask
  PROVE  KeptNotOlder'
<1>1. /\ Elements(str_pool') \subseteq Elements(str_pool) /\ Elements(lookup_pool') = {}
      /\ \A e \in Elements(str_pool') : e.key # Text("GET_DICT_MASK", Nil)
  BY CleanKeyIsPool, CleanPoolIsPool, KeyIsCleaned DEF IInv, PoolTypes, OutdateByMask
<1>2. \A e \in Elements(str_pool') : e.key.command \in StrCommands /\ ~ OfMask(e.key)
  BY <1>1 DEF KeptNotOlder, OfMask, StrCommands, DictCommands
<1>3. QED
  BY <1>1, <1>2 DEF KeptNotOlder

LEMMA IoInKeepsMasks ==
  ASSUME IInv, IInv', MaskInv, IoIn
  PROVE  ToBeRead' /\ Confirmed' /\ KeptNotOlder'
<1> DEFINE rep == net[channel].rep
           h   == net[channel].peer
           tok == Head(rep)
<1>1. /\ channel \in Descriptors /\ rep \in Seq(TokenSet) /\ rep # <<>> /\ mask' = mask
      /\ channel # Nil
  <2>1. channel \in Descriptors /\ rep # <<>> /\ mask' = mask /\ channel # Nil
    BY DEF IoIn, IInv, ConnTypes, untouchedByInput
  <2>2. net[channel] \in StreamSet
    BY <2>1 DEF IInv, NetTypes
  <2>3. QED
    BY <2>1, <2>2 DEF StreamSet
<1>2. /\ tok = rep[1] /\ 1 \in DOMAIN rep /\ tok \in TokenSet /\ tok.mask \in Nat
      /\ Len(rep) \in Nat /\ DOMAIN rep = 1 .. Len(rep)
      /\ \A i \in DOMAIN Tail(rep) : i + 1 \in DOMAIN rep /\ 1 < i + 1 /\ Tail(rep)[i] = rep[i + 1]
  BY <1>1, TokenKinds
<1>3. /\ h \in Hosts /\ tok.mask <= mask[h]
      /\ \A i \in DOMAIN Tail(rep) : tok.mask <= Tail(rep)[i].mask
  BY <1>1, <1>2 DEF MaskInv, MasksRise
<1>4. channel' = Nil \/ (channel' = channel /\ net'[channel].rep = Tail(rep) /\ net'[channel].peer = h)
  BY LineRead
<1>5. NotOlder(Tail(rep), acked[h])
  <2>1. CASE waiting_banner /\ Fresh(net[channel])
    <3>1. DOMAIN Tail(rep) = {}
      BY <1>1, <1>2, <2>1 DEF Fresh
    <3>2. QED
      BY <3>1 DEF NotOlder
  <2>2. CASE ~ (waiting_banner /\ Fresh(net[channel]))
    <3>1. NotOlder(rep, acked[h])
      BY <1>1, <2>2 DEF MaskInv, ToBeRead
    <3>2. QED
      BY <1>2, <3>1 DEF NotOlder
  <2>3. QED
    BY <2>1, <2>2
<1>6. ~ waiting_banner => acked[h] <= tok.mask
  <2>1. ~ waiting_banner => NotOlder(rep, acked[h]) /\ tok.kind # "hello"
    BY <1>1, <1>2 DEF MaskInv, ToBeRead, IInv, Streams, FrontBelongs, Used
  <2>2. QED
    BY <1>2, <2>1 DEF NotOlder
<1>7. /\ acked \in [Hosts -> Nat] /\ \A g \in Hosts : acked[g] <= mask[g]
      /\ KeptNotOlder
  BY DEF MaskInv, Confirmed
<1>8. Reads(tok)
  BY LineReads
<1>9. /\ \/ acked' = acked /\ NotOlder(Tail(rep), acked'[h])
         \/ acked' = [acked EXCEPT ![h] = tok.mask]
      /\ KeptNotOlder'
  <2>1. CASE acked' = acked /\ UNCHANGED poolVars
    BY <1>5, <1>7, <2>1 DEF KeptNotOlder, poolVars
  <2>2. CASE acked' = acked /\ CleanAll
    BY <1>5, <2>2, CleanPoolIsPool DEF KeptNotOlder, IInv, PoolTypes, CleanAll
  <2>3. CASE OutdateByMask /\ acked' = [acked EXCEPT ![h] = tok.mask]
    BY <1>7, <2>3, OutdatedNotOlder
  <2>4. ASSUME NEW c \in CmdSet, NEW t, t.mask = tok.mask, t.for \in Texts \cup {Nil},
               EmitsAndSaves(c, t), ~ waiting_banner
        PROVE  acked' = acked /\ KeptNotOlder'
    <3>1. acked[h] <= t.mask /\ t.mask \in Nat
      BY <1>2, <1>6, <2>4
    <3>2. KeptNotOlder'
      BY <1>1, <1>3, <1>7, <2>4, <3>1, SavedNotOlder
    <3>3. QED
      BY <2>4, <3>2 DEF EmitsAndSaves
  <2>5. QED
    BY <1>5, <1>8, <2>1, <2>2, <2>3, <2>4 DEF Reads
<1> HIDE DEF rep, h, tok
<1>10. NotOlder(Tail(rep), acked'[h]) /\ Confirmed'
  <2>1. CASE acked' = acked /\ NotOlder(Tail(rep), acked'[h])
    BY <1>1, <1>7, <2>1 DEF Confirmed
  <2>2. CASE acked' = [acked EXCEPT ![h] = tok.mask]
    <3>1. acked' \in [Hosts -> Nat] /\ acked'[h] = tok.mask /\ \A g \in Hosts \ {h} : acked'[g] = acked[g]
      BY <1>2, <1>3, <1>7, <2>2
    <3>2. Confirmed'
      BY <1>1, <1>3, <1>7, <3>1 DEF Confirmed
    <3>3. NotOlder(Tail(rep), acked'[h])
      BY <1>3, <3>1 DEF NotOlder
    <3>4. QED
      BY <3>2, <3>3
  <2>3. QED
    BY <1>9, <2>1, <2>2
<1>11. ToBeRead'
  BY <1>4, <1>10, Zenon DEF ToBeRead
<1>12. QED
  BY <1>9, <1>10, <1>11

LEMMA NextKeepsMasks == IInv /\ MaskInv /\ [Next]_vars => MaskInv'
<1> SUFFICES ASSUME IInv, MaskInv, [Next]_vars
             PROVE  MaskInv'
  OBVIOUS
<1>1. IInv'
  BY NextKeeps
<1>2. StreamsMove
  BY StepMoves DEF MaskInv
<1>3. \A s \in Descriptors : MasksRise(s)'
  BY <1>1, <1>2, MasksRiseOn DEF MaskInv
<1>4. ToBeRead' /\ Confirmed' /\ KeptNotOlder'
  BY <1>1, <1>2, StepAside, AsideKeeps, IoInKeepsMasks
<1>5. QED
  BY <1>3, <1>4 DEF MaskInv

LEMMA InitIsMasked == Init => MaskInv
<1> SUFFICES ASSUME Init
             PROVE  MaskInv
  OBVIOUS
<1>1. \A s \in Descriptors : net[s].rep = <<>>
  BY DEF Init, SocketsInit, Unused
<1>2. Elements(str_pool) = {} /\ Elements(lookup_pool) = {}
  BY DEF Init, EmptyPool, Elements
<1>3. \A s \in Descriptors : MasksRise(s)
  BY <1>1 DEF MasksRise
<1>4. ToBeRead /\ Confirmed
  BY DEF Init, SocketsInit, ToBeRead, Confirmed
<1>5. KeptNotOlder
  BY <1>2 DEF KeptNotOlder
<1>6. QED
  BY <1>3, <1>4, <1>5 DEF MaskInv

(* Once the server has confirmed a mask, no answer it computed with an     *)
(* older one is kept, or can still come and be kept: those under way on    *)
(* the channel when the confirmation is read were asked, and computed,     *)
(* after it.                                                               *)
THEOREM NothingOlderIsKept == Spec => []CacheNotOlderThanMask
<1>1. IInv /\ MaskInv => CacheNotOlderThanMask
  BY DEF MaskInv, KeptNotOlder, CacheNotOlderThanMask, PoolEntries, Elements
<1>2. Init => MaskInv
  BY InitIsMasked
<1>3. IInv /\ MaskInv /\ [Next]_vars => MaskInv'
  BY NextKeepsMasks
<1>4. QED
  BY <1>1, <1>2, <1>3, Invariance, PTL DEF Spec
-----------------------------------------------------------------------------
(* One attempt to connect at a time.  As long as attempts did not overlap  *)
(* there is either none under way, or one, while there is no channel and   *)
(* something is queued.                                                    *)
Nobody == \A h \in Hosts : resolving[h] = 0

OneAttempt ==
  \/ /\ connecting = {} /\ connected = {}
     /\ \E h \in Hosts : resolving = [g \in Hosts |-> IF g = h THEN 1 ELSE 0]
  \/ connecting = {sd} /\ connected = {} /\ Nobody /\ sd # Nil
  \/ /\ connecting = {} /\ Nobody /\ sd # Nil
     /\ \E ok \in BOOLEAN : connected = {[sd |-> sd, succeeded |-> ok]}

Attempts == ~ AttemptPending \/ (channel = Nil /\ cmdlist # <<>> /\ OneAttempt)

(* Until the banner was read the front of the queue is CMD_CLIENT, which   *)
(* was not asked yet.                                                      *)
Greeting(q) == q # <<>> => q[1].text.command = "CLIENT" /\ q[1].reading = "status"

HeadGreets == channel = Nil \/ waiting_banner => Greeting(cmdlist)

BannerFirst == channel # Nil /\ waiting_banner => cmdlist # <<>> /\ net[channel].sent = <<>>

(* After it the channel holds the request of the front command, or what is *)
(* left of its reply, unless the peer has gone away.                       *)
RestOfReply(rep, c) ==
  \/ /\ ~ InBody(c)
     /\ \E code \in StatusCodes(c.text.command), m \in Nat : rep = Reply(c.text, code, m)
  \/ /\ c.reading = "body" /\ c.text.command \in WithBody
     /\ \E m \in Nat : rep = <<Token("body", "BODY", c.text, m)>>

Serving(stream, c) ==
  /\ stream.phase = "up" => stream.req # <<>> \/ stream.rep # <<>>
  /\ stream.req # <<>> => stream.req = <<c.text>> /\ stream.rep = <<>> /\ ~ InBody(c)
  /\ stream.rep # <<>> => RestOfReply(stream.rep, c)

LastSent(sent, command) == sent # <<>> /\ sent[Len(sent)] = command

FrontServed ==
  channel # Nil /\ ~ waiting_banner =>
    /\ Serving(net[channel], cmdlist[1])
    /\ LastSent(net[channel].sent, cmdlist[1].text.command)

(* Nothing is sent on a socket that is not the channel yet. *)
Unwritten ==
  \A s \in Descriptors :
    net[s].phase = "unused" \/ (s = sd /\ s # channel) => net[s].sent = <<>>

InUse == \A s \in {sd, channel} \ {Nil} : net[s].phase # "unused"

(* CMD_AUTH is queued right behind a CMD_CLIENT, and sent right after one. *)
Chained(q) ==
  \A i \in DOMAIN q :
    i > 1 /\ q[i].text.command = "AUTH" => q[i - 1].text.command = "CLIENT"

Greets(sent) ==
  \A i \in DOMAIN sent :
    /\ i = 1 => sent[i] = "CLIENT"
    /\ sent[i] = "AUTH" => i > 1 /\ sent[i - 1] = "CLIENT"

Single ==
  /\ Attempts /\ HeadGreets /\ BannerFirst /\ FrontServed /\ Unwritten /\ InUse
  /\ Chained(cmdlist)
  /\ \A s \in Descriptors : Greets(net[s].sent)

HasChannel == is_connected => channel # Nil

Clean ==
  /\ \A e \in Elements(str_pool) \cup Elements(lookup_pool) : e.data.clean
  /\ \A i \in DOMAIN signals : signals[i].data.clean

SingleInv == ~ overlap => Single /\ HasChannel /\ Clean

-----------------------------------------------------------------------------
(* Lemmas about what is sent and about queues. *)

LEMMA SendGreets ==
  ASSUME NEW S, NEW sent \in Seq(S), NEW x \in S, Greets(sent),
         sent = <<>> => x = "CLIENT",
         x = "AUTH" => LastSent(sent, "CLIENT")
  PROVE  Greets(Append(sent, x)) /\ LastSent(Append(sent, x), x)
<1>1. Len(sent) \in Nat /\ DOMAIN sent = 1 .. Len(sent) /\ (sent # <<>> => Len(sent) > 0)
  OBVIOUS
<1>2. /\ DOMAIN Append(sent, x) = 1 .. (Len(sent) + 1) /\ Len(Append(sent, x)) = Len(sent) + 1
      /\ \A i \in 1 .. Len(sent) : Append(sent, x)[i] = sent[i]
      /\ Append(sent, x)[Len(sent) + 1] = x /\ Append(sent, x) # <<>>
  OBVIOUS
<1>3. sent = <<>> => Len(sent) = 0
  OBVIOUS
<1> DEFINE new == Append(sent, x)
<1> HIDE DEF new
<1>4. Greets(new)
  <2> SUFFICES ASSUME NEW i \in DOMAIN new
               PROVE  /\ i = 1 => new[i] = "CLIENT"
                      /\ new[i] = "AUTH" => i > 1 /\ new[i - 1] = "CLIENT"
    BY DEF Greets
  <2>1. CASE i \in 1 .. Len(sent)
    <3>1. i > 1 => i - 1 \in 1 .. Len(sent)
      BY <1>1, <2>1
    <3>2. QED
      BY <1>1, <1>2, <2>1, <3>1 DEF Greets, new
  <2>2. CASE i = Len(sent) + 1
    <3>1. new[i] = x
      BY <1>2, <2>2 DEF new
    <3>2. i = 1 => sent = <<>>
      BY <1>1, <2>2
    <3>3. x = "AUTH" => i > 1 /\ i - 1 \in 1 .. Len(sent) /\ sent[i - 1] = "CLIENT"
      BY <1>1, <2>2 DEF LastSent
    <3>4. QED
      BY <1>2, <3>1, <3>2, <3>3 DEF new
  <2>3. QED
    BY <1>1, <1>2, <2>1, <2>2 DEF new
<1>5. QED
  BY <1>2, <1>4 DEF LastSent, new

LEMMA TailChained ==
  ASSUME NEW q \in Seq(CmdSet), q # <<>>, Chained(q)
  PROVE  /\ Chained(Tail(q))
         /\ Tail(q) # <<>> /\ Tail(q)[1].text.command = "AUTH" => q[1].text.command = "CLIENT"
<1>1. /\ \A i \in DOMAIN Tail(q) : /\ i \in Nat /\ i > 0 /\ i + 1 \in DOMAIN q
                                   /\ Tail(q)[i] = q[i + 1]
                                   /\ i > 1 => i - 1 \in DOMAIN Tail(q)
      /\ Tail(q) # <<>> => 1 \in DOMAIN Tail(q)
      /\ Tail(q) \in Seq(CmdSet)
  OBVIOUS
<1>3. ASSUME NEW i \in DOMAIN Tail(q), i > 1, Tail(q)[i].text.command = "AUTH"
      PROVE  Tail(q)[i - 1].text.command = "CLIENT"
  <2>1. q[i + 1].text.command = "AUTH" /\ i + 1 \in DOMAIN q /\ (i + 1) - 1 = i /\ i + 1 > 1
    BY <1>1, <1>3
  <2>2. q[i].text.command = "CLIENT"
    BY <2>1 DEF Chained
  <2>3. i - 1 \in DOMAIN Tail(q) /\ (i - 1) + 1 = i
    BY <1>1, <1>3
  <2>4. Tail(q)[i - 1] = q[i]
    BY <1>1, <2>3
  <2>5. QED
    BY <2>2, <2>4
<1>4. ASSUME Tail(q) # <<>>, Tail(q)[1].text.command = "AUTH"
      PROVE  q[1].text.command = "CLIENT"
  <2>1. q[2].text.command = "AUTH" /\ 2 \in DOMAIN q
    BY <1>1, <1>4
  <2>2. QED
    BY <2>1 DEF Chained
<1>5. QED
  BY <1>3, <1>4 DEF Chained

LEMMA ConcatChained ==
  ASSUME NEW p \in Seq(CmdSet), NEW q \in Seq(CmdSet), Chained(p), Chained(q),
         q # <<>> => q[1].text.command # "AUTH"
  PROVE  Chained(p \o q)
<1> DEFINE r == p \o q
<1>1. /\ Len(p) \in Nat /\ DOMAIN p = 1 .. Len(p)
      /\ \A i \in DOMAIN q : i \in Nat
      /\ \A i \in DOMAIN r : i \in Nat
      /\ \A i \in DOMAIN p : r[i] = p[i]
      /\ \A i \in DOMAIN r : i \notin DOMAIN p =>
           i > Len(p) /\ i - Len(p) \in DOMAIN q /\ r[i] = q[i - Len(p)]
      /\ \A i \in DOMAIN q : i + Len(p) \in DOMAIN r /\ r[i + Len(p)] = q[i]
      /\ \A i \in DOMAIN q : i > 1 => i - 1 \in DOMAIN q
      /\ \A i \in DOMAIN q : i > 0 /\ q # <<>>
  OBVIOUS
<1> HIDE DEF r
<1>2. ASSUME NEW i \in DOMAIN r, i > 1, r[i].text.command = "AUTH"
      PROVE  r[i - 1].text.command = "CLIENT"
  <2>1. CASE i \in DOMAIN p
    <3>1. p[i - 1].text.command = "CLIENT"
      BY <1>1, <1>2, <2>1 DEF Chained
    <3>2. i - 1 \in DOMAIN p
      BY <1>1, <1>2, <2>1
    <3>3. QED
      BY <1>1, <3>1, <3>2
  <2>2. CASE i \notin DOMAIN p
    <3> DEFINE j == i - Len(p)
    <3>1. j \in DOMAIN q /\ j > 1 /\ q[j - 1].text.command = "CLIENT"
      <4>1. j \in DOMAIN q /\ q[j].text.command = "AUTH" /\ j \in Nat /\ j > 0
        BY <1>1, <1>2, <2>2
      <4>2. j # 1
        BY <1>1, <4>1
      <4>3. QED
        BY <4>1, <4>2 DEF Chained
    <3>2. j - 1 \in DOMAIN q /\ (j - 1) + Len(p) = i - 1
      BY <1>1, <3>1
    <3>3. r[i - 1] = q[j - 1]
      BY <1>1, <3>2
    <3>4. QED
      BY <3>1, <3>3
  <2>3. QED
    BY <2>1, <2>2
<1>3. QED
  BY <1>2 DEF Chained, r

LEMMA PreambleChained ==
  ASSUME NEW seq \in Nat, NEW account
  PROVE  LET p == Preamble(seq, account) IN Chained(p) /\ Greeting(p) /\ p # <<>>
<1>1. CASE account = Guest
  BY <1>1 DEF Preamble, Chained, Greeting, Cmd, Text
<1>2. CASE account # Guest
  <2> DEFINE client == Cmd(seq, Text("CLIENT", Nil))
             auth   == Cmd(seq + 1, Text("AUTH", account))
  <2>1. Preamble(seq, account) = <<client>> \o <<auth>>
    BY <1>2 DEF Preamble
  <2>2. /\ client.text.command = "CLIENT" /\ client.reading = "status"
        /\ auth.text.command = "AUTH"
    BY DEF Cmd, Text
  <2> HIDE DEF client, auth
  <2> DEFINE S == {client, auth}
             p == <<client>> \o <<auth>>
  <2>3. <<client>> \in Seq(S) /\ <<auth>> \in Seq(S)
    OBVIOUS
  <2>4. DOMAIN p = 1 .. 2 /\ p[1] = client /\ p[2] = auth /\ p # <<>>
    BY <2>3
  <2> HIDE DEF p
  <2>5. \A i \in DOMAIN p : i = 1 \/ i = 2
    BY <2>4
  <2>6. Chained(p) /\ Greeting(p) /\ p # <<>>
    BY <2>2, <2>4, <2>5 DEF Chained, Greeting
  <2>7. QED
    BY <2>1, <2>6 DEF p
<1>3. QED
  BY <1>1, <1>2

-----------------------------------------------------------------------------
(* What the parser does to the connection. *)

(* n is the streams of net, but for what was read. *)
SentAsBefore(n) == \A s \in Descriptors : n[s].sent = net[s].sent

LEMMA LeftSentAsBefore ==
  ASSUME NetTypes, ConnTypes, channel # Nil
  PROVE  SentAsBefore(Left) /\ SentAsBefore(net)
<1> DEFINE new == [net[channel] EXCEPT !.rep = Tail(@)]
<1>1. channel \in Descriptors /\ net[channel] \in StreamSet
  BY DEF NetTypes, ConnTypes
<1>2. new.sent = net[channel].sent
  BY <1>1 DEF StreamSet
<1>3. Left = [net EXCEPT ![channel] = new]
  BY DEF Left
<1> HIDE DEF new
<1>4. \A s \in Descriptors : Left[s] = IF s = channel THEN new ELSE net[s]
  BY <1>3 DEF NetTypes
<1>5. QED
  BY <1>2, <1>4 DEF SentAsBefore

LEMMA DisconnectSingle ==
  ASSUME IInv, Single, channel # Nil, NEW n, RestOf(n), SentAsBefore(n), Disconnect(n),
         UNCHANGED <<resolving, connecting, connected>>
  PROVE  Single'
<1>1. /\ cmdlist' = <<>> /\ channel' = Nil /\ sd' = Nil
      /\ ~ AttemptPending /\ ~ AttemptPending'
  BY DEF Disconnect, Single, Attempts, AttemptPending
<1>2. DOMAIN n = Descriptors /\ \A s \in Descriptors : n[s] \in StreamSet
  BY DEF RestOf
<1>3. \A s \in Descriptors :
        net'[s] = n[s] \/ net'[s] = [n[s] EXCEPT !.phase = "closed", !.rep = <<>>]
  BY <1>2 DEF Disconnect, Closed
<1>4. \A s \in Descriptors :
        net'[s].sent = net[s].sent /\ (net'[s].phase = net[s].phase \/ net'[s].phase = "closed")
  BY <1>2, <1>3 DEF StreamSet, RestOf, SentAsBefore
<1>5. Attempts' /\ HeadGreets' /\ BannerFirst' /\ FrontServed' /\ InUse' /\ Chained(cmdlist)'
  BY <1>1 DEF Attempts, HeadGreets, Greeting, BannerFirst, FrontServed, InUse, Chained
<1>6. Unwritten'
  BY <1>1, <1>4 DEF Single, Unwritten
<1>7. \A s \in Descriptors : Greets(net[s].sent)'
  BY <1>4 DEF Single
<1>8. QED
  BY <1>5, <1>6, <1>7 DEF Single

(* The next command is asked on a channel on which nothing is under way. *)
LEMMA RequestSingle ==
  ASSUME IInv, Single, channel # Nil, NEW n, RestOf(n), SentAsBefore(n),
         n[channel].req = <<>>, n[channel].rep = <<>>,
         NEW q \in Seq(CmdSet), Chained(q), \A i \in DOMAIN q : q[i].reading = "status",
         q # <<>> /\ q[1].text.command = "AUTH" => LastSent(net[channel].sent, "CLIENT"),
         net[channel].sent = <<>> => q # <<>> /\ q[1].text.command = "CLIENT",
         Request(n, q), waiting_banner' = FALSE,
         UNCHANGED <<resolving, connecting, connected>>
  PROVE  Single'
<1>1. CASE Disconnect(n)
  BY <1>1, DisconnectSingle
<1>2. CASE /\ cmdlist' = OrQuit(q)
           /\ net' = [n EXCEPT ![channel].req = IF n[channel].phase = "up"
                                                  THEN Append(@, Head(OrQuit(q)).text) ELSE @,
                               ![channel].sent = Append(@, Head(OrQuit(q)).text.command)]
           /\ UNCHANGED <<sd, channel, in_source, is_connected>>
  <2> DEFINE quit == Cmd(next_seq, Text("QUIT", Nil))
             r    == OrQuit(q)
             c    == r[1]
  <2>1. /\ r \in Seq(CmdSet) /\ r # <<>> /\ Head(r) = c /\ c \in CmdSet /\ c.reading = "status"
        /\ Chained(r)
        /\ c.text.command = "AUTH" => LastSent(net[channel].sent, "CLIENT")
        /\ net[channel].sent = <<>> => c.text.command = "CLIENT"
    <3>1. quit \in CmdSet /\ quit.reading = "status" /\ quit.text.command = "QUIT"
      BY OwnTexts, Commanded DEF IInv, ConnTypes, Cmd, Text
    <3>2. r = IF q = <<>> THEN <<quit>> ELSE q
      BY DEF OrQuit
    <3> HIDE DEF quit, r
    <3>3. CASE q = <<>>
      BY <3>1, <3>2, <3>3 DEF Chained
    <3>4. CASE q # <<>>
      BY <3>2, <3>4
    <3>5. QED
      BY <3>3, <3>4
  <2> HIDE DEF r, quit
  <2> DEFINE old == n[channel]
             req == IF old.phase = "up" THEN Append(old.req, c.text) ELSE old.req
             new == [old EXCEPT !.req = req, !.sent = Append(@, c.text.command)]
  <2>2. net' = [n EXCEPT ![channel] = new]
    BY <1>2, <2>1 DEF r
  <2>3. /\ channel \in Descriptors /\ old \in StreamSet /\ n \in [Descriptors -> StreamSet]
        /\ old.sent = net[channel].sent /\ old.phase = net[channel].phase
        /\ old.sent \in Seq({text.command : text \in Texts}) /\ c.text \in Texts
    BY <2>1 DEF IInv, ConnTypes, RestOf, SentAsBefore, StreamSet, CmdSet
  <2>4. /\ new.phase = old.phase /\ new.req = req /\ new.rep = <<>>
        /\ new.sent = Append(old.sent, c.text.command)
    BY <2>3 DEF StreamSet
  <2> HIDE DEF new
  <2>5. /\ net'[channel] = new
        /\ \A s \in Descriptors \ {channel} : net'[s] = net[s]
    BY <2>2, <2>3 DEF RestOf
  <2>6. channel' = channel /\ sd' = sd /\ cmdlist' = r
    BY <1>2 DEF r
  <2>7. Greets(new.sent) /\ LastSent(new.sent, c.text.command)
    <3>1. Greets(old.sent) /\ c.text.command \in {text.command : text \in Texts}
      BY <2>3 DEF Single
    <3>2. QED
      BY <2>1, <2>3, <2>4, <3>1, SendGreets
  <2>8. Serving(new, c)
    <3>1. req = IF old.phase = "up" THEN <<c.text>> ELSE <<>>
      BY <2>3
    <3>2. QED
      BY <2>1, <2>4, <3>1 DEF Serving, InBody
  <2>9. Attempts' /\ HeadGreets' /\ BannerFirst' /\ FrontServed'
    <3>1. ~ AttemptPending'
      BY DEF Single, Attempts, AttemptPending
    <3>2. ~ waiting_banner' /\ channel' # Nil
      BY <2>6
    <3>3. QED
      BY <2>5, <2>6, <2>7, <2>8, <3>1, <3>2
         DEF Attempts, HeadGreets, BannerFirst, FrontServed
  <2>10. InUse' /\ Unwritten'
    <3>1. /\ sd \in Descriptors \cup {Nil} /\ new.phase # "unused"
          /\ \A s \in Descriptors : net'[s].phase = net[s].phase
      BY <2>3, <2>4, <2>5 DEF IInv, ConnTypes, Single, InUse
    <3>2. InUse'
      BY <2>3, <2>6, <3>1 DEF Single, InUse
    <3>3. Unwritten'
      BY <2>3, <2>5, <2>6, <3>1 DEF Single, Unwritten
    <3>4. QED
      BY <3>2, <3>3
  <2>11. QED
    BY <2>1, <2>5, <2>6, <2>7, <2>9, <2>10 DEF Single
<1>3. QED
  BY <1>1, <1>2 DEF Request, RequestCommand

(* What a line of the reply leaves behind, when all of it belongs to c. *)
LEMMA ReplyTail ==
  ASSUME NEW c \in CmdSet, NEW stream \in StreamSet, stream.rep # <<>>, RestOfReply(stream.rep, c)
  PROVE  LET tok == Head(stream.rep) IN
         \/ /\ ~ InBody(c) /\ tok.kind = "status" /\ tok.code # "BODY"
            /\ \/ /\ tok.code = "OK" /\ c.text.command \in WithBody
                  /\ \E m \in Nat : Tail(stream.rep) = <<Token("body", "BODY", c.text, m)>>
               \/ ~ (tok.code = "OK" /\ c.text.command \in WithBody) /\ Tail(stream.rep) = <<>>
         \/ /\ c.reading = "body" /\ c.text.command \in WithBody
            /\ tok.kind = "body" /\ tok.code = "BODY" /\ Tail(stream.rep) = <<>>
<1> DEFINE rep == stream.rep
           tok == Head(rep)
<1>1. ASSUME ~ InBody(c), NEW code \in StatusCodes(c.text.command), NEW m \in Nat,
             rep = Reply(c.text, code, m)
      PROVE  /\ tok.kind = "status" /\ tok.code # "BODY"
             /\ \/ /\ tok.code = "OK" /\ c.text.command \in WithBody
                   /\ Tail(rep) = <<Token("body", "BODY", c.text, m)>>
                \/ ~ (tok.code = "OK" /\ c.text.command \in WithBody) /\ Tail(rep) = <<>>
  <2> DEFINE status == Token("status", code, c.text, m)
             body   == Token("body", "BODY", c.text, m)
  <2>1. /\ status.kind = "status" /\ status.code = code /\ code # "BODY"
    BY <1>1 DEF Token, StatusCodes
  <2>2. rep = IF code = "OK" /\ c.text.command \in WithBody THEN <<status, body>> ELSE <<status>>
    BY <1>1 DEF Reply
  <2> HIDE DEF status, body, rep
  <2>3. /\ Head(<<status, body>>) = status /\ Tail(<<status, body>>) = <<body>>
        /\ Head(<<status>>) = status /\ Tail(<<status>>) = <<>>
    OBVIOUS
  <2>4. QED
    BY <2>1, <2>2, <2>3 DEF body
<1>2. ASSUME NEW m \in Nat, rep = <<Token("body", "BODY", c.text, m)>>
      PROVE  tok.kind = "body" /\ tok.code = "BODY" /\ Tail(rep) = <<>>
  BY <1>2 DEF Token
<1>3. QED
  BY <1>1, <1>2 DEF RestOfReply

(* An answer that is emitted is the body of one. *)
Emits ==
  \E c \in CmdSet : \E tok :
    /\ tok.kind = "body" /\ c.reading # "dirty" /\ EmitsAndSaves(c, tok)
    /\ tok.for \in Texts \cup {Nil} /\ tok.mask \in Nat

(* A line of the reply to the front command. *)
LEMMA ReplySingle ==
  ASSUME IInv, Single, channel # Nil, net[channel].rep # <<>>, ~ waiting_banner,
         ParseReply(Left, Head(net[channel].rep)),
         UNCHANGED <<resolving, connecting, connected>>
  PROVE  /\ Single'
         /\ \/ UNCHANGED poolVars /\ signals' = <<>>
            \/ CleanAll /\ signals' = <<>>
            \/ OutdateByMask /\ signals' = <<>>
            \/ Emits
<1> DEFINE c   == Head(cmdlist)
           old == net[channel]
           tok == Head(old.rep)
           left == Left[channel]
<1>1. /\ cmdlist # <<>> /\ c = cmdlist[1] /\ c \in CmdSet /\ cmdlist \in Seq(CmdSet)
      /\ Tail(cmdlist) \in Seq(CmdSet)
      /\ \A i \in DOMAIN Tail(cmdlist) : Tail(cmdlist)[i].reading = "status"
      /\ tok \in TokenSet
  BY ReplyBelongs DEF IInv, ConnTypes
<1>2. /\ channel \in Descriptors /\ old \in StreamSet /\ RestOf(Left)
      /\ SentAsBefore(Left) /\ left.req = old.req /\ left.rep = Tail(old.rep)
      /\ Left \in [Descriptors -> StreamSet] /\ left.phase = old.phase
  BY LeftIsRest, LeftSentAsBefore DEF IInv, NetTypes, ConnTypes, RestOf
<1>3. /\ Serving(old, c) /\ LastSent(old.sent, c.text.command) /\ Chained(cmdlist)
      /\ RestOfReply(old.rep, c) /\ old.req = <<>>
  BY <1>1 DEF Single, FrontServed, Serving
<1>4. \/ /\ ~ InBody(c) /\ tok.kind = "status" /\ tok.code # "BODY"
         /\ \/ /\ tok.code = "OK" /\ c.text.command \in WithBody
               /\ \E m \in Nat : left.rep = <<Token("body", "BODY", c.text, m)>>
            \/ ~ (tok.code = "OK" /\ c.text.command \in WithBody) /\ left.rep = <<>>
      \/ /\ c.reading = "body" /\ c.text.command \in WithBody
         /\ tok.kind = "body" /\ tok.code = "BODY" /\ left.rep = <<>>
  BY <1>1, <1>2, <1>3, ReplyTail
<1>5. ~ waiting_banner'
  BY Zenon DEF ParseReply
<1> HIDE DEF c, old, tok, left
<1>6. CASE Disconnect(Left) /\ UNCHANGED poolVars /\ signals' = <<>>
  BY <1>2, <1>6, DisconnectSingle
<1>7. ASSUME NEW reading \in {"body", "dirty"}, ReadsOn(c, tok, reading),
             cmdlist' = <<[c EXCEPT !.reading = reading]>> \o Tail(cmdlist), net' = Left,
             UNCHANGED <<sd, channel>>, UNCHANGED poolVars, signals' = <<>>
      PROVE  Single' /\ UNCHANGED poolVars /\ signals' = <<>>
  <2>1. /\ reading = "body" /\ c.text.command \in WithBody /\ ~ InBody(c)
        /\ \E m \in Nat : left.rep = <<Token("body", "BODY", c.text, m)>>
    BY <1>4, <1>7 DEF ReadsOn, InBody
  <2> DEFINE front == [c EXCEPT !.reading = reading]
  <2>2. front \in CmdSet /\ front.text = c.text /\ front.reading = "body"
    BY <1>1, <2>1 DEF CmdSet
  <2> HIDE DEF front
  <2>3. cmdlist' = <<front>> \o Tail(cmdlist)
    BY <1>7 DEF front
  <2>4. /\ cmdlist' # <<>> /\ cmdlist'[1] = front /\ DOMAIN cmdlist' = DOMAIN cmdlist
        /\ \A i \in DOMAIN cmdlist : i # 1 => cmdlist'[i] = cmdlist[i]
    BY <1>1, <2>2, <2>3
  <2>5. \A i \in DOMAIN cmdlist : cmdlist'[i].text = cmdlist[i].text
    BY <1>1, <2>2, <2>4
  <2>6. Chained(cmdlist')
    <3>1. \A i \in DOMAIN cmdlist : i > 1 => i - 1 \in DOMAIN cmdlist
      BY <1>1
    <3>2. QED
      BY <1>3, <2>4, <2>5, <3>1 DEF Chained
  <2>7. Serving(left, front)
    <3>1. PICK m \in Nat : left.rep = <<Token("body", "BODY", c.text, m)>>
      BY <2>1
    <3>2. RestOfReply(left.rep, front)
      BY <2>1, <2>2, <3>1 DEF RestOfReply
    <3>3. left.rep # <<>> /\ left.req = <<>>
      <4> DEFINE body == Token("body", "BODY", c.text, m)
      <4> HIDE DEF body
      <4>1. <<body>> # <<>>
        OBVIOUS
      <4>2. QED
        BY <1>2, <1>3, <3>1, <4>1 DEF body
    <3>4. QED
      BY <3>2, <3>3 DEF Serving
  <2>8. LastSent(left.sent, front.text.command)
    BY <1>2, <1>3, <2>2 DEF SentAsBefore, left, old
  <2>9. FrontServed' /\ HeadGreets' /\ BannerFirst' /\ Attempts'
    <3>1. ~ AttemptPending'
      BY DEF Single, Attempts, AttemptPending
    <3>2. FrontServed'
      BY <1>7, <2>4, <2>7, <2>8 DEF FrontServed, left
    <3>3. channel' # Nil
      BY <1>7
    <3>4. QED
      BY <1>5, <3>1, <3>2, <3>3 DEF HeadGreets, BannerFirst, Attempts
  <2>10. \A s \in Descriptors : net'[s].phase = net[s].phase /\ net'[s].sent = net[s].sent
    BY <1>2, <1>7 DEF RestOf, SentAsBefore
  <2>11. InUse' /\ Unwritten' /\ \A s \in Descriptors : Greets(net'[s].sent)
    <3>1. sd \in Descriptors \cup {Nil} /\ channel \in Descriptors \cup {Nil}
      BY DEF IInv, ConnTypes
    <3>2. QED
      BY <1>7, <2>10, <3>1 DEF Single, InUse, Unwritten
  <2>12. QED
    BY <1>7, <2>6, <2>9, <2>11 DEF Single
<1>8. CASE /\ ~ Refused(c, tok)
           /\ \/ EndsAtStatus(c, tok) /\ EndEffects(c, tok)
              \/ EndsWithBody(c, tok) /\ EmitsAndSaves(c, tok)
           /\ Request(Left, Tail(cmdlist))
  <2>1. left.rep = <<>> /\ (EndsWithBody(c, tok) => c.reading = "body" /\ tok.kind = "body")
        /\ (EndsAtStatus(c, tok) => ~ InBody(c))
    BY <1>4, <1>8 DEF EndsAtStatus, EndsWithBody, Excused, InBody, StatusCommands, WithBody,
       Refused
  <2>2. Single'
    <3>1. /\ Chained(Tail(cmdlist))
          /\ Tail(cmdlist) # <<>> /\ Tail(cmdlist)[1].text.command = "AUTH" =>
               LastSent(net[channel].sent, "CLIENT")
      BY <1>1, <1>3, TailChained DEF old, LastSent
    <3>2. net[channel].sent # <<>>
      BY <1>3 DEF LastSent, old
    <3>3. waiting_banner' = FALSE
      <4>1. waiting_banner = FALSE /\ waiting_banner' = waiting_banner
        BY Zenon DEF IInv, FlagTypes, ParseReply
      <4>2. QED
        BY <4>1
    <3>4. QED
      BY <1>1, <1>2, <1>3, <1>8, <2>1, <3>1, <3>2, <3>3, RequestSingle DEF left, old
  <2>3. \/ UNCHANGED poolVars /\ signals' = <<>>
        \/ CleanAll /\ signals' = <<>>
        \/ OutdateByMask /\ signals' = <<>>
        \/ Emits
    <3>1. CASE EndsWithBody(c, tok) /\ EmitsAndSaves(c, tok)
      BY <1>1, <2>1, <3>1, TokenKinds DEF Emits
    <3>2. CASE EndsAtStatus(c, tok) /\ EndEffects(c, tok)
      <4>1. c.reading # "dirty" /\ ~ InBody(c)
        BY <2>1, <3>2 DEF InBody
      <4>2. CASE EmitsAndSaves(c, [tok EXCEPT !.kind = "body"])
        <5> DEFINE t == [tok EXCEPT !.kind = "body"]
        <5>1. t.kind = "body" /\ t.for \in Texts \cup {Nil} /\ t.mask \in Nat
          BY <1>1, TokenKinds DEF TokenSet
        <5> HIDE DEF t
        <5>2. EmitsAndSaves(c, t)
          BY <4>2 DEF t
        <5>3. QED
          BY <1>1, <4>1, <5>1, <5>2 DEF Emits
      <4>3. QED
        BY <3>2, <4>2 DEF EndEffects, SetAuth
    <3>3. QED
      BY <1>8, <3>1, <3>2
  <2>4. QED
    BY <2>2, <2>3
<1>9. QED
  BY <1>6, <1>7, <1>8 DEF ParseReply, c, tok, old

(* The banner, after which the front of the queue is asked. *)
LEMMA BannerSingle ==
  ASSUME IInv, Single, channel # Nil, net[channel].rep # <<>>, waiting_banner,
         ParseBanner(Left, Head(net[channel].rep)),
         UNCHANGED <<resolving, connecting, connected>>
  PROVE  Single' /\ UNCHANGED poolVars /\ signals' = <<>>
<1> DEFINE old == net[channel]
           tok == Head(old.rep)
<1>1. UNCHANGED poolVars /\ signals' = <<>> /\ waiting_banner' = FALSE
  BY DEF ParseBanner
<1>2. /\ channel \in Descriptors /\ old \in StreamSet /\ RestOf(Left) /\ SentAsBefore(Left)
      /\ tok = old.rep[1] /\ tok \in TokenSet
      /\ Left[channel].req = old.req /\ Left[channel].rep = Tail(old.rep)
  BY LeftIsRest, LeftSentAsBefore DEF IInv, NetTypes, ConnTypes
<1>3. CASE tok.code # "HELLO"
  <2>1. Disconnect(Left)
    BY <1>3 DEF ParseBanner
  <2>2. QED
    BY <1>1, <1>2, <2>1, DisconnectSingle
<1>4. CASE tok.code = "HELLO"
  <2>1. old.rep \in Seq(TokenSet) /\ old.rep # <<>> /\ 1 \in DOMAIN old.rep
    BY <1>2 DEF StreamSet
  <2>2. Fresh(old)
    <3>1. ~ Used(old)
      BY <1>2, <1>4, <2>1, TokenKinds DEF Used
    <3>2. QED
      BY <3>1 DEF IInv, Streams, BannerAwaited
  <2>3. Left[channel].req = <<>> /\ Left[channel].rep = <<>>
    <3>1. Tail(old.rep) \in Seq(TokenSet) /\ Len(Tail(old.rep)) = 0
      BY <2>1, <2>2 DEF Fresh
    <3>2. QED
      BY <1>2, <2>2, <3>1, EmptySeq DEF Fresh
  <2>4. /\ cmdlist \in Seq(CmdSet) /\ cmdlist # <<>> /\ old.sent = <<>> /\ Chained(cmdlist)
        /\ cmdlist[1].text.command = "CLIENT"
        /\ \A i \in DOMAIN cmdlist : cmdlist[i].reading = "status"
    <3>1. cmdlist # <<>> /\ old.sent = <<>> /\ Chained(cmdlist) /\ Greeting(cmdlist)
      BY DEF Single, HeadGreets, BannerFirst
    <3>2. cmdlist \in Seq(CmdSet) /\ \A i \in DOMAIN cmdlist : i > 1 => cmdlist[i].reading = "status"
      BY DEF IInv, ConnTypes, Streams, OthersNotRead
    <3>3. \A i \in DOMAIN cmdlist : i = 1 \/ i > 1
      BY <3>2
    <3>4. QED
      BY <3>1, <3>2, <3>3 DEF Greeting
  <2>5. Request(Left, cmdlist)
    BY <1>4 DEF ParseBanner
  <2> HIDE DEF tok
  <2>6. Single'
    BY <1>1, <1>2, <2>3, <2>4, <2>5, RequestSingle
  <2>7. QED
    BY <1>1, <2>6
<1>5. QED
  BY <1>3, <1>4

-----------------------------------------------------------------------------
(* The steps outside the parser. *)

(* A step that leaves the connection and the queue alone. *)
LEMMA SameSingle ==
  ASSUME Single, waiting_banner' = waiting_banner,
         UNCHANGED <<resolving, connecting, connected, net, sd, channel, cmdlist>>
  PROVE  Single'
<1>1. (AttemptPending' <=> AttemptPending) /\ (OneAttempt' <=> OneAttempt)
  BY DEF AttemptPending, OneAttempt, Nobody
<1>2. Attempts' /\ InUse' /\ Unwritten' /\ Chained(cmdlist)' /\ \A s \in Descriptors : Greets(net[s].sent)'
  BY <1>1 DEF Single, Attempts, InUse, Unwritten
<1>3. HeadGreets'
  BY Zenon DEF Single, HeadGreets
<1>4. BannerFirst'
  BY Zenon DEF Single, BannerFirst
<1>5. FrontServed'
  BY Zenon DEF Single, FrontServed
<1>6. QED
  BY <1>2, <1>3, <1>4, <1>5 DEF Single

(* A stream that moves under the client. *)
LEMMA StreamSingle ==
  ASSUME IInv, Single, NEW s \in Descriptors, NEW new, net' = [net EXCEPT ![s] = new],
         new.sent = net[s].sent, new.phase # "unused", net[s].phase # "unused",
         waiting_banner' = waiting_banner, UNCHANGED <<sd, channel, cmdlist>>,
         Attempts', s = channel /\ ~ waiting_banner => Serving(new, cmdlist[1])
  PROVE  Single'
<1>1. net'[s] = new /\ \A t \in Descriptors \ {s} : net'[t] = net[t]
  BY DEF IInv, NetTypes
<1>2. /\ sd \in Descriptors \cup {Nil} /\ channel \in Descriptors \cup {Nil}
      /\ \A t \in Descriptors : net'[t].sent = net[t].sent
  BY <1>1 DEF IInv, ConnTypes
<1>3. InUse' /\ Unwritten' /\ Chained(cmdlist)' /\ \A t \in Descriptors : Greets(net[t].sent)'
  BY <1>1, <1>2 DEF Single, InUse, Unwritten
<1>4. HeadGreets'
  BY Zenon DEF Single, HeadGreets
<1>5. BannerFirst'
  <2>1. channel' = channel /\ cmdlist' = cmdlist /\ (channel # Nil => net'[channel].sent = net[channel].sent)
    BY <1>2
  <2>2. QED
    BY <2>1, Zenon DEF Single, BannerFirst
<1>6. FrontServed'
  <2>1. ASSUME channel # Nil, ~ waiting_banner
        PROVE  /\ Serving(net'[channel], cmdlist[1])
               /\ LastSent(net'[channel].sent, cmdlist[1].text.command)
    BY <1>1, <1>2, <2>1 DEF Single, FrontServed
  <2>2. channel' = channel /\ cmdlist' = cmdlist
    OBVIOUS
  <2>3. QED
    BY <2>1, <2>2, Zenon DEF FrontServed
<1>7. QED
  BY <1>3, <1>4, <1>5, <1>6 DEF Single

LEMMA ThreadSingle ==
  ASSUME IInv, Single, NEW s \in Descriptors, NEW ok \in BOOLEAN, ConnectThread(s, ok),
         UNCHANGED clientVars
  PROVE  Single'
<1>1. /\ s \in connecting /\ connecting' = connecting \ {s} /\ resolving' = resolving
      /\ connected' = connected \cup {[sd |-> s, succeeded |-> ok]}
      /\ UNCHANGED <<sd, channel, cmdlist>>
  BY DEF ConnectThread, clientVars, connVars
<1>2. waiting_banner' = waiting_banner
  BY Zenon DEF clientVars
<1>3. channel = Nil /\ cmdlist # <<>> /\ connecting = {sd} /\ connected = {} /\ Nobody /\ sd # Nil
  BY <1>1 DEF Single, Attempts, AttemptPending, OneAttempt
<1>4. Attempts'
  <2>1. s = sd /\ connecting' = {} /\ connected' = {[sd |-> sd, succeeded |-> ok]} /\ Nobody'
    BY <1>1, <1>3 DEF Nobody
  <2>2. OneAttempt'
    BY <1>1, <1>3, <2>1 DEF OneAttempt
  <2>3. QED
    BY <1>1, <1>3, <2>2 DEF Attempts
<1>5. CASE net[s].phase = "open"
  <2> DEFINE new == [net[s] EXCEPT !.phase = IF ok THEN "up" ELSE "failed"]
  <2>1. net[s] \in StreamSet /\ net' = [net EXCEPT ![s] = new]
    BY <1>5 DEF ConnectThread, IInv, NetTypes
  <2>2. new.sent = net[s].sent /\ new.phase # "unused"
    BY <2>1 DEF StreamSet
  <2>3. s # channel
    BY <1>1, <1>3
  <2> HIDE DEF new
  <2>4. QED
    BY <1>1, <1>2, <1>4, <1>5, <2>1, <2>2, <2>3, StreamSingle
<1>6. CASE net[s].phase # "open"
  <2>1. net' = net
    BY <1>6 DEF ConnectThread
  <2>2. /\ InUse' /\ Unwritten' /\ Chained(cmdlist)' /\ \A t \in Descriptors : Greets(net[t].sent)'
    BY <1>1, <2>1 DEF Single, InUse, Unwritten
  <2>3. HeadGreets' /\ BannerFirst' /\ FrontServed'
    BY <1>1, <1>3 DEF Single, HeadGreets, BannerFirst, FrontServed
  <2>4. QED
    BY <1>4, <2>2, <2>3 DEF Single
<1>7. QED
  BY <1>5, <1>6

LEMMA ServerSingle ==
  ASSUME IInv, Single, NEW s \in Descriptors,
         Greet(s) \/ Serve(s) \/ PeerCloses(s) \/ PeerResets(s), UNCHANGED clientVars
  PROVE  Single'
<1> DEFINE old == net[s]
           c   == cmdlist[1]
<1>1. /\ UNCHANGED <<resolving, connecting, connected, sd, channel, cmdlist>>
      /\ old \in StreamSet /\ old.phase # "unused"
  BY DEF Greet, Serve, PeerCloses, PeerResets, clientVars, connVars, IInv, NetTypes
<1>2. waiting_banner' = waiting_banner
  BY Zenon DEF clientVars
<1>3. Attempts'
  BY <1>1 DEF Single, Attempts, AttemptPending, OneAttempt, Nobody
<1>4. s = channel /\ ~ waiting_banner => Serving(old, c) /\ old.greeted /\ c \in CmdSet
  <2> SUFFICES ASSUME s = channel, ~ waiting_banner
               PROVE  Serving(old, c) /\ old.greeted /\ c \in CmdSet
    OBVIOUS
  <2>1. channel # Nil
    BY SocketsAssumption DEF SocketsAssumption, Descriptors
  <2>2. Used(net[channel]) /\ cmdlist # <<>> /\ cmdlist \in Seq(CmdSet)
    BY <2>1 DEF IInv, Streams, FrontBelongs, ConnTypes
  <2>3. QED
    BY <2>1, <2>2 DEF Single, FrontServed, Used
<1>5. CASE Greet(s)
  <2>1. PICK code : net' = [net EXCEPT ![s].rep = <<Banner(code)>>, ![s].greeted = TRUE]
    BY <1>5 DEF Greet
  <2> DEFINE new == [old EXCEPT !.rep = <<Banner(code)>>, !.greeted = TRUE]
  <2>2. new.sent = old.sent /\ new.phase = old.phase
    BY <1>1 DEF StreamSet
  <2>3. net' = [net EXCEPT ![s] = new]
    BY <2>1
  <2>4. ~ (s = channel /\ ~ waiting_banner)
    BY <1>4, <1>5 DEF Greet
  <2> HIDE DEF new, old
  <2>5. QED
    BY <1>1, <1>2, <1>3, <2>2, <2>3, <2>4, StreamSingle DEF old
<1>6. CASE Serve(s)
  <2> DEFINE request == Head(old.req)
             h == old.peer
  <2>1. h \in Hosts /\ request \in Texts /\ old.req \in Seq(Texts) /\ old.req # <<>>
        /\ old.rep \in Seq(TokenSet) /\ old.phase \in {"up", "closed"}
    <3>1. old.req \in Seq(Texts) /\ old.req # <<>> /\ HasPeer(old) /\ old.rep \in Seq(TokenSet)
          /\ old.phase \in {"up", "closed"}
      BY <1>1, <1>6 DEF Serve, StreamSet, IInv, NetTypes
    <3>2. QED
      BY <3>1 DEF HasPeer
  <2>2. PICK code \in StatusCodes(request.command), m \in {mask[h], mask[h] + 1} :
          net' = [net EXCEPT ![s].req = Tail(@),
                             ![s].rep = IF net[s].phase = "up"
                                          THEN @ \o Reply(request, code, m) ELSE @]
    BY <1>6, Zenon DEF Serve
  <2>3. m \in Nat
    BY <2>1 DEF IInv, NetTypes
  <2> DEFINE reply == Reply(request, code, m)
             rep == IF old.phase = "up" THEN old.rep \o reply ELSE old.rep
             new == [old EXCEPT !.req = Tail(@), !.rep = rep]
  <2>4. reply \in Seq(TokenSet) /\ Len(reply) \in 1 .. 2
    BY <2>1, <2>3, ReplyIsOwn
  <2> HIDE DEF request, reply
  <2>5. /\ new.sent = old.sent /\ new.phase = old.phase /\ new.req = Tail(old.req)
        /\ new.rep = rep
    BY <1>1 DEF StreamSet
  <2>6. net' = [net EXCEPT ![s] = new]
    BY <2>2 DEF reply
  <2>7. ASSUME s = channel, ~ waiting_banner
        PROVE  Serving(new, c)
    <3>1. Serving(old, c) /\ c \in CmdSet
      BY <1>4, <2>7
    <3>2. old.req = <<c.text>> /\ old.rep = <<>> /\ ~ InBody(c)
      BY <2>1, <3>1 DEF Serving
    <3>3. request = c.text /\ new.req = <<>>
      BY <2>5, <3>2 DEF request
    <3>4. reply # <<>> /\ old.rep \o reply = reply
      <4>1. <<>> \o reply = reply
        BY <2>4, ConcatEmptySeq
      <4>2. ASSUME reply = <<>>
            PROVE  FALSE
        <5>1. Len(reply) = 0
          BY <4>2
        <5>2. QED
          BY <2>4, <5>1
      <4>3. QED
        BY <3>2, <4>1, <4>2
    <3>5. RestOfReply(reply, c)
      BY <2>2, <2>3, <3>2, <3>3 DEF RestOfReply, reply
    <3>6. new.rep = IF old.phase = "up" THEN reply ELSE <<>>
      BY <2>5, <3>2, <3>4
    <3> HIDE DEF new, old
    <3>7. QED
      BY <2>5, <3>3, <3>4, <3>5, <3>6 DEF Serving
  <2> HIDE DEF new, old, c
  <2>8. QED
    BY <1>1, <1>2, <1>3, <2>5, <2>6, <2>7, StreamSingle DEF old, c
<1>7. CASE PeerCloses(s)
  <2> DEFINE new == [old EXCEPT !.phase = "eof", !.req = <<>>]
  <2>1. new.sent = old.sent /\ new.phase = "eof" /\ new.req = <<>> /\ new.rep = old.rep
    BY <1>1 DEF StreamSet
  <2>2. net' = [net EXCEPT ![s] = new]
    BY <1>7 DEF PeerCloses
  <2> HIDE DEF new
  <2>3. s = channel /\ ~ waiting_banner => Serving(new, c)
    BY <1>4, <2>1 DEF Serving
  <2>4. QED
    BY <1>1, <1>2, <1>3, <2>1, <2>2, <2>3, StreamSingle
<1>8. CASE PeerResets(s)
  <2> DEFINE new == [old EXCEPT !.phase = "reset", !.req = <<>>, !.rep = <<>>]
  <2>1. new.sent = old.sent /\ new.phase = "reset" /\ new.req = <<>> /\ new.rep = <<>>
    BY <1>1 DEF StreamSet
  <2>2. net' = [net EXCEPT ![s] = new]
    BY <1>8 DEF PeerResets
  <2> HIDE DEF new
  <2>3. s = channel /\ ~ waiting_banner => Serving(new, c)
    BY <2>1 DEF Serving
  <2>4. QED
    BY <1>1, <1>2, <1>3, <2>1, <2>2, <2>3, StreamSingle
<1>9. QED
  BY <1>5, <1>6, <1>7, <1>8

(* on_connected, with the attempt that is over: a new, unwritten channel. *)
LEMMA ConnectDoneSingle ==
  ASSUME IInv, Single, NEW result, ConnectDone(result)
  PROVE  Single'
<1>1. /\ result \in connected /\ connected' = connected \ {result}
      /\ UNCHANGED <<resolving, connecting, net, cmdlist>>
  BY DEF ConnectDone
<1>2. /\ channel = Nil /\ cmdlist # <<>> /\ connecting = {} /\ Nobody /\ sd # Nil
      /\ connected = {result} /\ Greeting(cmdlist)
  BY <1>1 DEF Single, Attempts, AttemptPending, OneAttempt, HeadGreets
<1>3. ~ AttemptPending'
  BY <1>1, <1>2 DEF AttemptPending, Nobody
<1>4. sd \in Descriptors /\ net[sd].sent = <<>> /\ net[sd].phase # "unused"
  BY <1>2 DEF IInv, ConnTypes, Single, Unwritten, InUse
<1>5. CASE ~ result.succeeded
  <2>1. UNCHANGED <<sd, channel>>
    BY <1>5 DEF ConnectDone, connVars
  <2>2. QED
    BY <1>1, <1>2, <1>3, <2>1 DEF Single, Attempts, HeadGreets, BannerFirst, FrontServed,
       Unwritten, InUse
<1>6. CASE result.succeeded
  <2>1. channel' = sd /\ sd' = sd /\ waiting_banner'
    BY <1>2, <1>6 DEF ConnectDone
  <2>2. QED
    BY <1>1, <1>2, <1>3, <1>4, <2>1 DEF Single, Attempts, HeadGreets, BannerFirst, FrontServed,
       Unwritten, InUse
<1>7. QED
  BY <1>5, <1>6

(* on_resolved with the attempt that is under way: a new socket or none. *)
LEMMA OnResolvedSingle ==
  ASSUME IInv, Unwritten, InUse, channel = Nil, channel' = Nil, cmdlist' # <<>>,
         Greeting(cmdlist'), Chained(cmdlist'), \A s \in Descriptors : Greets(net[s].sent),
         connecting = {}, connected = {}, connected' = {}, Nobody', NEW address,
         OnResolved(address)
  PROVE  Single'
<1>1. HeadGreets' /\ BannerFirst' /\ FrontServed' /\ Chained(cmdlist)'
  BY DEF HeadGreets, BannerFirst, FrontServed
<1>2. CASE sd' = Nil /\ UNCHANGED <<net, connecting>>
  <2>1. Attempts' /\ InUse'
    BY <1>2 DEF Attempts, AttemptPending, Nobody, InUse
  <2>2. Unwritten'
    BY <1>2, SocketsAssumption DEF Unwritten, SocketsAssumption, Descriptors
  <2>3. QED
    BY <1>1, <1>2, <2>1, <2>2 DEF Single
<1>3. ASSUME NEW s \in Descriptors, NextDescriptor(s), sd' = s, Opened(s, address)
      PROVE  Single'
  <2> DEFINE new == [net[s] EXCEPT !.phase = "open", !.peer = address]
  <2>1. net[s] \in StreamSet /\ net[s].phase = "unused" /\ net[s].sent = <<>>
    BY <1>3 DEF IInv, NetTypes, NextDescriptor, Unwritten
  <2>2. new.sent = net[s].sent /\ new.phase = "open"
    BY <2>1 DEF StreamSet
  <2>3. net' = [net EXCEPT ![s] = new] /\ connecting' = {s}
    BY <1>3 DEF Opened
  <2> HIDE DEF new
  <2>4. net'[s] = new /\ \A t \in Descriptors \ {s} : net'[t] = net[t]
    BY <2>3 DEF IInv, NetTypes
  <2>5. s # Nil
    BY SocketsAssumption DEF SocketsAssumption, Descriptors
  <2>6. OneAttempt'
    BY <1>3, <2>3, <2>5 DEF OneAttempt
  <2>7. Attempts'
    BY <2>6 DEF Attempts
  <2>8. InUse' /\ Unwritten' /\ \A t \in Descriptors : Greets(net'[t].sent)
    BY <1>3, <2>1, <2>2, <2>4 DEF InUse, Unwritten
  <2>9. QED
    BY <1>1, <2>7, <2>8 DEF Single
<1>4. QED
  BY <1>2, <1>3 DEF OnResolved

LEMMA ResolveDoneSingle ==
  ASSUME IInv, Single, NEW h \in Hosts, NEW ok \in BOOLEAN, ResolveDone(h, ok)
  PROVE  Single'
<1>1. /\ resolving[h] > 0 /\ resolving' = [resolving EXCEPT ![h] = @ - 1]
      /\ UNCHANGED <<connected, channel, cmdlist>>
  BY DEF ResolveDone, TakeResolved
<1>2. /\ channel = Nil /\ cmdlist # <<>> /\ connecting = {} /\ connected = {}
      /\ \E g \in Hosts : resolving = [k \in Hosts |-> IF k = g THEN 1 ELSE 0]
  BY <1>1 DEF Single, Attempts, AttemptPending, OneAttempt, Nobody
<1>3. Nobody'
  BY <1>1, <1>2 DEF Nobody
<1>4. Greeting(cmdlist)
  BY <1>2 DEF Single, HeadGreets
<1>5. CASE ok
  <2>1. OnResolved(h)
    BY <1>5 DEF ResolveDone
  <2>2. QED
    BY <1>1, <1>2, <1>3, <1>4, <2>1, OnResolvedSingle DEF Single
<1>6. CASE ~ ok
  <2>1. UNCHANGED <<sd, net, connecting>>
    BY <1>6, Zenon DEF ResolveDone
  <2>2. Attempts'
    BY <1>1, <1>2, <1>3, <2>1 DEF Attempts, AttemptPending, Nobody
  <2>3. QED
    BY <1>1, <1>2, <1>4, <2>1, <2>2 DEF Single, HeadGreets, BannerFirst, FrontServed, InUse,
       Unwritten
<1>7. QED
  BY <1>5, <1>6

LEMMA ConnectSingle ==
  ASSUME IInv, Single, channel = Nil, channel' = Nil, cmdlist' # <<>>,
         Greeting(cmdlist'), Chained(cmdlist'), ~ AttemptPending, Connect,
         connected' = connected
  PROVE  Single'
<1>1. connecting = {} /\ connected = {} /\ Nobody
  BY DEF AttemptPending, Nobody, IInv, NetTypes
<1>2. ASSUME NEW address, OnResolved(address), UNCHANGED resolving
      PROVE  Single'
  <2>1. Nobody'
    BY <1>1, <1>2 DEF Nobody
  <2>2. QED
    BY <1>1, <1>2, <2>1, OnResolvedSingle DEF Single
<1>3. CASE StartResolve(host) /\ UNCHANGED <<sd, net, connecting>>
  <2>1. resolving' = [g \in Hosts |-> IF g = host THEN 1 ELSE 0] /\ host \in Hosts
    <3>1. resolving \in [Hosts -> Nat] /\ host \in Hosts
      BY DEF IInv, NetTypes, ConfigTypes
    <3>2. \A g \in Hosts : resolving'[g] = IF g = host THEN 1 ELSE 0
      BY <1>1, <1>3, <3>1 DEF StartResolve, Nobody
    <3>3. resolving' \in [Hosts -> Nat]
      BY <1>3, <3>1 DEF StartResolve
    <3>4. QED
      BY <3>1, <3>2, <3>3
  <2>2. Attempts'
    BY <1>1, <1>3, <2>1 DEF Attempts, OneAttempt
  <2>3. QED
    BY <1>3, <2>2 DEF Single, HeadGreets, BannerFirst, FrontServed, InUse, Unwritten
<1>4. QED
  BY <1>2, <1>3, Zenon DEF Connect

(* A batch, when no other attempt is under way. *)
LEMMA SubmitSingle ==
  ASSUME IInv, Single, HasChannel, NEW batch \in Batches, NEW account \in Accounts \cup {Guest},
         Submit(batch, account), ~ overlap'
  PROVE  Single'
<1> DEFINE n        == Len(batch)
           command(i) == Cmd(next_seq + i - 1, batch[i])
           found    == {i \in 1 .. n : InCache(batch[i])}
           missed   == (1 .. n) \ found
           preamble == IF found = 1 .. n \/ is_connected THEN <<>>
                       ELSE Preamble(next_seq + n, account)
           queued(miss) == [i \in 1 .. Len(miss) |-> command(miss[i])]
<1>1. /\ n \in Nat /\ next_seq \in Nat \ {0}
      /\ \A i \in 1 .. n : batch[i] \in Texts /\ batch[i].command # "AUTH"
  <2>1. \A i \in DOMAIN batch : batch[i].command \notin {"CLIENT", "AUTH", "QUIT"}
    BY ClientAssumption DEF ClientAssumption
  <2>2. batch \in Seq(Texts)
    BY ClientAssumption DEF ClientAssumption
  <2>3. QED
    BY <2>1, <2>2 DEF IInv, ConnTypes
<1>2. /\ preamble \in Seq(CmdSet) /\ Chained(preamble) /\ Greeting(preamble)
      /\ preamble # <<>> => ~ is_connected
      /\ preamble = <<>> => found = 1 .. n \/ is_connected
  <2>1. CASE found = 1 .. n \/ is_connected
    BY <2>1 DEF Chained, Greeting
  <2>2. CASE ~ (found = 1 .. n \/ is_connected)
    <3>1. next_seq + n \in Nat
      BY <1>1
    <3>2. QED
      BY <2>2, <3>1, PreambleCommands, PreambleChained
  <2>3. QED
    BY <2>1, <2>2
<1>3. PICK miss \in Ascending(missed, n) : cmdlist' = Enqueue(cmdlist, preamble, queued(miss))
  BY DEF Submit
<1>4. /\ Len(miss) \in Nat /\ \A i \in 1 .. Len(miss) : miss[i] \in missed
      /\ \A i \in 1 .. Len(miss) : miss[i] \in 1 .. n
  BY <1>1, AscendingPicks
<1>5. /\ \A i \in 1 .. n : command(i) \in CmdSet /\ command(i).text.command # "AUTH"
  BY <1>1, Commanded
<1> HIDE DEF command
<1>6. /\ queued(miss) \in Seq(CmdSet) /\ DOMAIN queued(miss) = 1 .. Len(miss)
      /\ \A i \in DOMAIN queued(miss) : queued(miss)[i].text.command # "AUTH"
      /\ missed = {} => queued(miss) = <<>>
  <2>1. missed = {} => Len(miss) = 0
    BY <1>4
  <2>2. queued(miss) \in Seq(CmdSet) /\ Len(queued(miss)) = Len(miss)
    BY <1>4, <1>5
  <2>3. QED
    BY <1>4, <1>5, <2>1, <2>2, EmptySeq
<1>7. /\ UNCHANGED <<connected, channel>>
      /\ preamble = <<>> => UNCHANGED <<sd, net, connecting, resolving>>
      /\ preamble # <<>> => Connect /\ ~ AttemptPending
  <2>1. preamble # <<>> => overlap' = (overlap \/ AttemptPending)
    BY DEF Submit
  <2>2. preamble # <<>> => ~ AttemptPending
    BY <2>1, Zenon
  <2>3. QED
    BY <2>2 DEF Submit
<1>8. preamble = <<>> => waiting_banner' = waiting_banner
  BY Zenon DEF Submit
<1>9. found = 1 .. n => missed = {}
  OBVIOUS
<1> HIDE DEF preamble, found, missed, queued
<1>10. cmdlist \in Seq(CmdSet) /\ Chained(cmdlist)
  BY DEF IInv, ConnTypes, Single
<1> DEFINE asked == cmdlist \o preamble
           r == asked \o queued(miss)
<1>11. /\ Chained(r) /\ r = cmdlist'
       /\ cmdlist # <<>> => r # <<>> /\ r[1] = cmdlist[1]
       /\ cmdlist = <<>> /\ preamble # <<>> => r # <<>> /\ r[1] = preamble[1]
       /\ cmdlist = <<>> /\ preamble = <<>> => r = queued(miss)
  <2>1. preamble # <<>> => preamble[1].text.command # "AUTH"
    BY <1>2 DEF Greeting
  <2>2. asked \in Seq(CmdSet) /\ Chained(asked)
    BY <1>2, <1>10, <2>1, ConcatChained
  <2>3. Chained(queued(miss)) /\ (queued(miss) # <<>> => queued(miss)[1].text.command # "AUTH")
    <3>1. queued(miss) # <<>> => 1 \in DOMAIN queued(miss)
      BY <1>6
    <3>2. QED
      BY <1>6, <3>1 DEF Chained
  <2>4. /\ cmdlist # <<>> => asked # <<>> /\ asked[1] = cmdlist[1]
        /\ cmdlist = <<>> => asked = preamble
    BY <1>2, <1>10, ConcatEmptySeq
  <2> HIDE DEF asked
  <2>5. Chained(r)
    BY <1>6, <2>2, <2>3, ConcatChained
  <2>6. /\ asked # <<>> => r # <<>> /\ r[1] = asked[1]
        /\ asked = <<>> => r = queued(miss)
    BY <1>6, <2>2, ConcatEmptySeq
  <2>7. r = cmdlist'
    BY <1>3 DEF Enqueue, asked
  <2>8. QED
    BY <2>4, <2>5, <2>6, <2>7
<1> HIDE DEF asked, r
<1>12. CASE preamble # <<>>
  <2>1. channel = Nil /\ channel' = Nil
    BY <1>2, <1>7, <1>12 DEF IInv, Streams, ChannelConnected
  <2>2. Greeting(cmdlist)
    BY <2>1 DEF Single, HeadGreets
  <2>3. cmdlist' # <<>> /\ Greeting(cmdlist') /\ Chained(cmdlist')
    BY <1>2, <1>11, <1>12, <2>2 DEF Greeting
  <2>4. QED
    BY <1>7, <1>12, <2>1, <2>3, ConnectSingle
<1>13. CASE preamble = <<>>
  <2>1. UNCHANGED <<connected, channel, sd, net, connecting, resolving>>
    BY <1>7, <1>13
  <2>2. channel # Nil => cmdlist # <<>>
    BY DEF Single, BannerFirst, IInv, Streams, FrontBelongs
  <2>3. channel = Nil /\ cmdlist = <<>> => cmdlist' = <<>>
    <3> SUFFICES ASSUME channel = Nil, cmdlist = <<>>
                   PROVE  cmdlist' = <<>>
      OBVIOUS
    <3>2. ~ is_connected
      BY Zenon DEF HasChannel
    <3>3. QED
      BY <1>2, <1>6, <1>9, <1>11, <1>13, <3>2
  <2>4. Attempts'
    <3>1. (AttemptPending' <=> AttemptPending) /\ (OneAttempt' <=> OneAttempt)
      BY <2>1 DEF AttemptPending, OneAttempt, Nobody
    <3>2. QED
      BY <1>11, <2>1, <3>1 DEF Single, Attempts
  <2>5. HeadGreets'
    <3>1. Greeting(cmdlist) => Greeting(cmdlist')
      BY <1>11, <2>2, <2>3 DEF Greeting
    <3>2. QED
      BY <1>8, <1>13, <2>1, <3>1, Zenon DEF Single, HeadGreets
  <2>6. BannerFirst' /\ FrontServed'
    <3>1. channel # Nil => cmdlist' # <<>> /\ cmdlist'[1] = cmdlist[1]
      BY <1>11, <2>2
    <3>2. BannerFirst'
      BY <1>8, <1>13, <2>1, <3>1, Zenon DEF Single, BannerFirst
    <3>3. FrontServed'
      BY <1>8, <1>13, <2>1, <3>1, Zenon DEF Single, FrontServed
    <3>4. QED
      BY <3>2, <3>3
  <2>7. QED
    BY <1>11, <2>1, <2>4, <2>5, <2>6 DEF Single, InUse, Unwritten
<1>14. QED
  BY <1>12, <1>13

(* is_connected says that there is a channel. *)
LEMMA HasChannelKept ==
  ASSUME IInv, Single, HasChannel, [Next]_vars
  PROVE  HasChannel'
<1>1. CASE is_connected' = is_connected /\ channel' = channel
  BY <1>1, Zenon DEF HasChannel
<1>2. CASE is_connected' = FALSE
  BY <1>2 DEF HasChannel
<1>3. ASSUME NEW result, ConnectDone(result)
      PROVE  HasChannel'
  <2>1. sd # Nil
    BY <1>3 DEF ConnectDone, Single, Attempts, AttemptPending, OneAttempt
  <2>2. (is_connected' = is_connected /\ channel' = channel) \/ (is_connected' = TRUE /\ channel' = sd)
    BY <1>3, <2>1, Zenon DEF ConnectDone, connVars
  <2>3. QED
    BY <1>1, <2>1, <2>2 DEF HasChannel
<1>4. ASSUME NEW batch \in Batches, Send(batch) \/ Register(batch)
      PROVE  is_connected' = is_connected /\ channel' = channel
  BY <1>4, Zenon DEF Send, Register, Submit
<1>5. ASSUME NEW h \in Hosts, SetServer(h) \/ \E ok \in BOOLEAN : ResolveDone(h, ok)
      PROVE  is_connected' = is_connected /\ channel' = channel
  BY <1>5, Zenon DEF SetServer, ResolveDone, connVars
<1>6. ASSUME NEW account, SetAccount(account)
      PROVE  is_connected' = is_connected /\ channel' = channel
  BY <1>6, Zenon DEF SetAccount, connVars
<1>7. ASSUME NEW n, NEW q, Request(n, q)
      PROVE  is_connected' = FALSE \/ (is_connected' = is_connected /\ channel' = channel)
  BY <1>7, Zenon DEF Request, RequestCommand, Disconnect
<1>8. ASSUME IoIn
      PROVE  is_connected' = FALSE \/ (is_connected' = is_connected /\ channel' = channel)
  <2>1. \/ ParseBanner(Left, Head(net[channel].rep))
        \/ ParseReply(Left, Head(net[channel].rep))
    BY <1>8 DEF IoIn, Left
  <2>2. \/ Disconnect(Left) \/ (\E q : Request(Left, q))
        \/ (is_connected' = is_connected /\ channel' = channel)
    BY <2>1, Zenon DEF ParseBanner, ParseReply
  <2>3. QED
    BY <1>7, <2>2, Zenon DEF Disconnect
<1>9. CASE IoEof \/ \E w \in Descriptors : IoErr(w)
  BY <1>2, <1>9 DEF IoEof, IoErr, Disconnect
<1>10. ASSUME NEW w \in Descriptors, IoStale(w) \/ Environment(w)
       PROVE  is_connected' = is_connected /\ channel' = channel
  BY <1>10, Zenon DEF IoStale, Environment, clientVars, connVars
<1>11. CASE UNCHANGED vars
  <2>1. is_connected' = is_connected /\ channel' = channel
    BY <1>11, Zenon DEF vars, connVars
  <2>2. QED
    BY <1>1, <2>1
<1>12. QED
  BY <1>1, <1>2, <1>3, <1>4, <1>5, <1>6, <1>8, <1>9, <1>10, <1>11 DEF Next

-----------------------------------------------------------------------------
(* Answers that are bodies. *)

LEMMA CleanStays ==
  ASSUME Clean, UNCHANGED poolVars \/ CleanAll \/ OutdateByMask, signals' = <<>>, PoolTypes
  PROVE  Clean'
<1>1. \A i \in DOMAIN signals' : signals'[i].data.clean
  OBVIOUS
<1>2. CASE UNCHANGED poolVars
  BY <1>1, <1>2 DEF Clean, poolVars, Elements
<1>3. CASE CleanAll
  BY <1>1, <1>3, CleanPoolIsPool DEF Clean, CleanAll, PoolTypes
<1>4. CASE OutdateByMask
  BY <1>1, <1>4, CleanKeyIsPool, CleanPoolIsPool DEF Clean, OutdateByMask, PoolTypes
<1>5. QED
  BY <1>2, <1>3, <1>4

LEMMA EmitsClean ==
  ASSUME IInv, Clean, channel # Nil, Emits
  PROVE  Clean'
<1>1. PICK c \in CmdSet : \E tok :
        /\ tok.kind = "body" /\ c.reading # "dirty" /\ EmitsAndSaves(c, tok)
        /\ tok.for \in Texts \cup {Nil} /\ tok.mask \in Nat
  BY DEF Emits
<1>2. PICK tok :
        /\ tok.kind = "body" /\ c.reading # "dirty" /\ EmitsAndSaves(c, tok)
        /\ tok.for \in Texts \cup {Nil} /\ tok.mask \in Nat
  BY <1>1
<1> DEFINE data == Answer(c, tok)
<1>3. channel \in Descriptors /\ net[channel].peer \in Hosts \cup {Nil}
  BY DEF IInv, ConnTypes, NetTypes, StreamSet
<1>4. data.clean = TRUE /\ data \in DataSet /\ c.text \in Texts
  BY <1>2, <1>3 DEF Answer, Data, DataSet, CmdSet
<1>5. /\ signals' = <<Signal(c.seq, c.text, data)>>
      /\ str_pool' = str_pool \/ str_pool' = SavePool(str_pool, StrPoolSize, c.text, data)
      /\ lookup_pool' = lookup_pool
         \/ lookup_pool' = SavePool(lookup_pool, LookupPoolSize, c.text, data)
  BY <1>2 DEF EmitsAndSaves
<1>6. StrPoolSize \in Nat \ {0} /\ LookupPoolSize \in Nat \ {0}
  BY ClientAssumption DEF ClientAssumption
<1> HIDE DEF data
<1> DEFINE e == [key |-> c.text, data |-> data]
<1>7. Elements(str_pool') \subseteq Elements(str_pool) \cup {e}
  BY <1>4, <1>5, <1>6, SavePoolIsPool DEF IInv, PoolTypes
<1>8. Elements(lookup_pool') \subseteq Elements(lookup_pool) \cup {e}
  BY <1>4, <1>5, <1>6, SavePoolIsPool DEF IInv, PoolTypes
<1>9. e.data = data /\ Signal(c.seq, c.text, data).data = data
  BY DEF Signal
<1> HIDE DEF e
<1>10. QED
  BY <1>4, <1>5, <1>7, <1>8, <1>9 DEF Clean

(* What try_cache emits was kept. *)
LEMMA SubmitClean ==
  ASSUME IInv, Clean, NEW batch \in Batches, Send(batch) \/ Register(batch)
  PROVE  Clean'
<1>1. PICK account : Submit(batch, account)
  BY DEF Send, Register
<1> DEFINE n == Len(batch)
           found == {i \in 1 .. n : InCache(batch[i])}
<1>2. PICK hit \in Ascending(found, n) :
        signals' = [i \in 1 .. Len(hit) |->
                      Signal(0, batch[hit[i]], Cached(PoolOf(batch[hit[i]]), batch[hit[i]]))]
  BY <1>1 DEF Submit
<1>3. Len(hit) \in Nat /\ \A i \in 1 .. Len(hit) : hit[i] \in found
  BY Commanded, AscendingPicks
<1>4. ASSUME NEW text, InCache(text)
      PROVE  Cached(PoolOf(text), text).clean
  <2>1. PICK e \in Elements(PoolOf(text)) : e.key = text /\ Cached(PoolOf(text), text) = e.data
    BY <1>4, ClientAssumption, CachedIsElement DEF ClientAssumption, InCache, PoolOf, IInv, PoolTypes
  <2>2. e.data.clean
    BY DEF Clean, PoolOf
  <2>3. QED
    BY <2>1, <2>2
<1>5. \A i \in DOMAIN signals' : signals'[i].data.clean
  BY <1>2, <1>3, <1>4 DEF Signal
<1>6. UNCHANGED poolVars \/ CleanAll
  BY DEF Send, Register, SetAuth
<1>7. \A e \in Elements(str_pool') \cup Elements(lookup_pool') : e.data.clean
  <2>1. CASE UNCHANGED poolVars
    BY <2>1 DEF Clean, poolVars
  <2>2. CASE CleanAll
    BY <2>2, CleanPoolIsPool DEF CleanAll, IInv, PoolTypes
  <2>3. QED
    BY <1>6, <2>1, <2>2
<1>8. QED
  BY <1>5, <1>7 DEF Clean

-----------------------------------------------------------------------------
LEMMA NextKeepsSingle == IInv /\ SingleInv /\ [Next]_vars => SingleInv'
<1> SUFFICES ASSUME IInv, SingleInv, [Next]_vars, ~ overlap'
             PROVE  Single' /\ Clean' /\ HasChannel'
  BY Zenon DEF SingleInv
<1>1. Single /\ Clean /\ HasChannel
  <2>1. ~ overlap
    <3>1. overlap' = overlap \/ \E batch, account : Submit(batch, account)
      BY Zenon DEF Next, Send, Register, SetServer, SetAccount, ResolveDone, ConnectDone,
         IoIn, IoEof, IoErr, IoStale, Environment, untouchedByInput, clientVars, histVars, vars
    <3>2. (\E batch, account : Submit(batch, account)) =>
            overlap' = overlap \/ overlap' = (overlap \/ AttemptPending)
      BY Zenon DEF Submit
    <3>3. QED
      BY <3>1, <3>2, Zenon
  <2>2. QED
    BY <2>1, Zenon DEF SingleInv
<1>2. HasChannel'
  BY <1>1, HasChannelKept
<1>3. PoolTypes /\ FlagTypes
  BY DEF IInv
<1>4. ASSUME NEW batch \in Batches, Send(batch) \/ Register(batch)
      PROVE  Single' /\ Clean'
  <2>1. PICK account \in Accounts \cup {Guest} : Submit(batch, account)
    BY <1>4 DEF Send, Register, IInv, ConfigTypes
  <2>2. QED
    BY <1>1, <1>4, <2>1, SubmitSingle, SubmitClean
<1>5. ASSUME NEW h \in Hosts, SetServer(h)
      PROVE  Single' /\ Clean'
  <2>1. waiting_banner' = waiting_banner
    BY <1>5, Zenon DEF SetServer
  <2>2. UNCHANGED <<resolving, connecting, connected, net, sd, channel, cmdlist>>
    BY <1>5 DEF SetServer, sockVars, connVars
  <2>3. Single'
    BY <1>1, <2>1, <2>2, SameSingle
  <2>4. Clean'
    BY <1>1, <1>3, <1>5, CleanStays DEF SetServer
  <2>5. QED
    BY <2>3, <2>4
<1>6. ASSUME NEW account, SetAccount(account)
      PROVE  Single' /\ Clean'
  <2>1. waiting_banner' = waiting_banner
    BY <1>6, Zenon DEF SetAccount
  <2>2. UNCHANGED <<resolving, connecting, connected, net, sd, channel, cmdlist>>
    BY <1>6 DEF SetAccount, sockVars, connVars
  <2>3. Single'
    BY <1>1, <2>1, <2>2, SameSingle
  <2>4. Clean'
    BY <1>1, <1>3, <1>6, CleanStays DEF SetAccount, SetAuth
  <2>5. QED
    BY <2>3, <2>4
<1>7. ASSUME NEW h \in Hosts, NEW ok \in BOOLEAN, ResolveDone(h, ok)
      PROVE  Single' /\ Clean'
  <2>1. Clean'
    BY <1>1, <1>3, <1>7, CleanStays DEF ResolveDone
  <2>2. QED
    BY <1>1, <1>7, <2>1, ResolveDoneSingle
<1>8. ASSUME NEW result, ConnectDone(result)
      PROVE  Single' /\ Clean'
  <2>1. Clean'
    BY <1>1, <1>3, <1>8, CleanStays DEF ConnectDone
  <2>2. QED
    BY <1>1, <1>8, <2>1, ConnectDoneSingle
<1>9. CASE IoIn
  <2>1. /\ channel # Nil /\ net[channel].rep # <<>>
        /\ UNCHANGED <<resolving, connecting, connected>>
        /\ IF waiting_banner THEN ParseBanner(Left, Head(net[channel].rep))
           ELSE ParseReply(Left, Head(net[channel].rep))
    BY <1>9 DEF IoIn, Left, untouchedByInput
  <2>2. CASE waiting_banner
    BY <1>1, <1>2, <1>3, <2>1, <2>2, BannerSingle, CleanStays
  <2>3. CASE ~ waiting_banner
    <3>1. /\ Single'
          /\ \/ UNCHANGED poolVars /\ signals' = <<>>
             \/ CleanAll /\ signals' = <<>>
             \/ OutdateByMask /\ signals' = <<>>
             \/ Emits
      BY <1>1, <2>1, <2>3, ReplySingle
    <3>2. Clean'
      BY <1>1, <1>3, <2>1, <3>1, CleanStays, EmitsClean
    <3>3. QED
      BY <1>2, <3>1, <3>2
  <2>4. QED
    BY <2>2, <2>3
<1>10. CASE IoEof \/ \E w \in Descriptors : IoErr(w)
  <2>1. /\ channel # Nil /\ Disconnect(net) /\ UNCHANGED <<resolving, connecting, connected>>
        /\ UNCHANGED poolVars /\ signals' = <<>>
    BY <1>10 DEF IoEof, IoErr, untouchedByInput
  <2>2. RestOf(net) /\ SentAsBefore(net)
    BY <2>1, NetIsRest, LeftSentAsBefore DEF IInv
  <2>3. QED
    BY <1>1, <1>2, <1>3, <2>1, <2>2, DisconnectSingle, CleanStays
<1>11. ASSUME NEW w \in Descriptors, IoStale(w)
       PROVE  Single' /\ Clean'
  <2>1. waiting_banner' = waiting_banner
    BY <1>11, Zenon DEF IoStale
  <2>2. UNCHANGED <<resolving, connecting, connected, net, sd, channel, cmdlist>>
    BY <1>11 DEF IoStale, sockVars
  <2>3. Single'
    BY <1>1, <2>1, <2>2, SameSingle
  <2>4. Clean'
    BY <1>1, <1>3, <1>11, CleanStays DEF IoStale
  <2>5. QED
    BY <2>3, <2>4
<1>12. ASSUME NEW s \in Descriptors, Environment(s)
       PROVE  Single' /\ Clean'
  <2>1. Single'
    BY <1>1, <1>12, ThreadSingle, ServerSingle DEF Environment
  <2>2. UNCHANGED <<poolVars, signals>>
    BY <1>12 DEF Environment, clientVars
  <2>3. Clean'
    BY <1>1, <2>2 DEF Clean, poolVars
  <2>4. QED
    BY <2>1, <2>3
<1>13. CASE UNCHANGED vars
  <2>1. waiting_banner' = waiting_banner
    BY <1>13, Zenon DEF vars
  <2>2. UNCHANGED <<resolving, connecting, connected, net, sd, channel, cmdlist>>
    BY <1>13 DEF vars, sockVars, connVars
  <2>3. Single'
    BY <1>1, <2>1, <2>2, SameSingle
  <2>4. Clean'
    BY <1>1, <1>13 DEF vars, poolVars, Clean
  <2>5. QED
    BY <1>2, <2>3, <2>4
<1>14. QED
  BY <1>2, <1>4, <1>5, <1>6, <1>7, <1>8, <1>9, <1>10, <1>11, <1>12, <1>13 DEF Next

LEMMA InitIsSingle == Init => SingleInv
<1> SUFFICES ASSUME Init
             PROVE  Single /\ HasChannel /\ Clean
  BY Zenon DEF SingleInv
<1>1. \A s \in Descriptors : net[s].sent = <<>>
  BY DEF Init, SocketsInit, Unused
<1>2. ~ AttemptPending
  BY DEF Init, SocketsInit, AttemptPending
<1>3. cmdlist = <<>> /\ sd = Nil /\ channel = Nil /\ signals = <<>>
  BY DEF Init
<1>4. Elements(str_pool) = {} /\ Elements(lookup_pool) = {}
  BY DEF Init, EmptyPool, Elements
<1>5. Single
  BY <1>1, <1>2, <1>3 DEF Single, Attempts, HeadGreets, Greeting, BannerFirst, FrontServed,
     Unwritten, InUse, Chained, Greets
<1>6. HasChannel
  BY Zenon DEF Init, HasChannel
<1>7. QED
  BY <1>3, <1>4, <1>5, <1>6 DEF Clean

(* Without overlapping attempts there is one at a time, and what is under  *)
(* way on the channel, the queue and what was sent fit one another: the    *)
(* invariant the three theorems below follow from.                         *)
THEOREM OneAtATime == Spec => [](IInv /\ SingleInv)
<1>1. IInv /\ SingleInv /\ [Next]_vars => SingleInv'
  BY NextKeepsSingle
<1>2. QED
  BY <1>1, InitIsSingle, Invariance, PTL DEF Spec

(* The reply that is parsed is always that of the command at the front of  *)
(* the queue, and there is one, for any batches and any number of          *)
(* connections one after the other.                                        *)
THEOREM FrontIsAsked == Spec => []OutstandingIsFront
<1>1. IInv /\ SingleInv => OutstandingIsFront
  <2> SUFFICES ASSUME IInv, SingleInv, channel # Nil, ~ waiting_banner
               PROVE  /\ cmdlist # <<>>
                      /\ ~ overlap /\ net[channel].phase = "up" =>
                           LET c == Head(cmdlist) IN
                           \/ net[channel].req = <<c.text>> /\ net[channel].rep = <<>> /\ ~ InBody(c)
                           \/ /\ net[channel].req = <<>> /\ net[channel].rep # <<>>
                              /\ \A i \in DOMAIN net[channel].rep : net[channel].rep[i].for = c.text
                              /\ InBody(c) <=> net[channel].rep[1].kind = "body"
    BY DEF OutstandingIsFront
  <2>1. cmdlist # <<>> /\ cmdlist \in Seq(CmdSet)
    BY DEF IInv, Streams, FrontBelongs, ConnTypes
  <2> DEFINE c == Head(cmdlist)
             rep == net[channel].rep
  <2>2. c = cmdlist[1] /\ c \in CmdSet
    BY <2>1
  <2> SUFFICES ASSUME ~ overlap, net[channel].phase = "up"
               PROVE  \/ net[channel].req = <<c.text>> /\ rep = <<>> /\ ~ InBody(c)
                      \/ /\ net[channel].req = <<>> /\ rep # <<>>
                         /\ \A i \in DOMAIN rep : rep[i].for = c.text
                         /\ InBody(c) <=> rep[1].kind = "body"
    BY <2>1
  <2>3. Serving(net[channel], c)
    BY <2>2 DEF SingleInv, Single, FrontServed
  <2>4. CASE net[channel].req # <<>>
    BY <2>3, <2>4 DEF Serving
  <2>5. CASE rep # <<>>
    <3>1. net[channel].req = <<>> /\ RestOfReply(rep, c)
      BY <2>3, <2>5 DEF Serving
    <3>2. ASSUME ~ InBody(c), NEW code \in StatusCodes(c.text.command), NEW m \in Nat,
                 rep = Reply(c.text, code, m)
          PROVE  (\A i \in DOMAIN rep : rep[i].for = c.text) /\ rep[1].kind = "status"
      <4>1. c.text \in Texts
        BY <2>2 DEF CmdSet
      <4>2. /\ Len(rep) \in 1 .. 2 /\ rep \in Seq(TokenSet) /\ rep[1].kind = "status"
            /\ \A i \in 1 .. Len(rep) : rep[i].for = c.text
        BY <3>2, <4>1, ReplyIsOwn
      <4>3. QED
        BY <4>2
    <3>3. ASSUME c.reading = "body", NEW m \in Nat, rep = <<Token("body", "BODY", c.text, m)>>
          PROVE  (\A i \in DOMAIN rep : rep[i].for = c.text) /\ rep[1].kind = "body" /\ InBody(c)
      BY <3>3 DEF Token, InBody
    <3>4. QED
      BY <2>5, <3>1, <3>2, <3>3 DEF RestOfReply
  <2>6. QED
    BY <2>3, <2>4, <2>5 DEF Serving
<1>2. QED
  BY <1>1, OneAtATime, PTL

(* What is emitted and kept as an article, a list or a string is the body  *)
(* of the answer and not its status line.                                  *)
THEOREM BodiesAreKept == Spec => []AnswersAreBodies
<1>1. IInv /\ SingleInv => AnswersAreBodies
  BY DEF SingleInv, Clean, AnswersAreBodies, PoolEntries, Elements
<1>2. QED
  BY <1>1, OneAtATime, PTL

(* Every connection is begun with CMD_CLIENT, and CMD_AUTH follows one.    *)
THEOREM ConnectionsGreet == Spec => []HandshakeFirst
<1>1. IInv /\ SingleInv => HandshakeFirst
  BY DEF SingleInv, Single, Greets, HandshakeFirst
<1>2. QED
  BY <1>1, OneAtATime, PTL

-----------------------------------------------------------------------------
(***************************************************************************)
(* The client implements CommandQueue.  The queue the contract speaks of   *)
(* is cmdlist without the commands the client makes for itself, which a    *)
(* loop over cmdlist takes out; the lemmas say what the loop does to       *)
(* queues that are put together or lose their front.                       *)
(***************************************************************************)
Seen(c) == [seq |-> c.seq, text |-> c.text]

SeenSet == [seq : Nat, text : Texts]

(* theirs is what the loop of Theirs has after each command of q. *)
Loop(theirs, q, m) ==
  theirs = [n \in 0 .. m |-> IF n = 0 THEN <<>> ELSE AddIfTheirs(theirs[n - 1], q[n])]

(* The loop is a recursive function: there is one that satisfies its
   equation.                                                              *)
LEMMA TheirsLoop ==
  ASSUME NEW q \in Seq(CmdSet)
  PROVE  \E theirs : Loop(theirs, q, Len(q)) /\ Theirs(q) = theirs[Len(q)]
<1> DEFINE L == Len(q)
           T == {m \in 0 .. L : \E g : Loop(g, q, m)}
<1>1. L \in Nat
  OBVIOUS
<1> HIDE DEF L
<1>2. 0 \in T
  <2>1. Loop([n \in 0 .. 0 |-> <<>>], q, 0)
    BY DEF Loop
  <2>2. QED
    BY <1>1, <2>1
<1>3. ASSUME NEW k \in 1 .. L, k - 1 \in T PROVE k \in T
  <2>1. PICK g : Loop(g, q, k - 1)
    BY <1>3
  <2> DEFINE h == [n \in 0 .. k |-> IF n = k THEN AddIfTheirs(g[k - 1], q[k]) ELSE g[n]]
  <2>2. \A n \in 0 .. (k - 1) : g[n] = IF n = 0 THEN <<>> ELSE AddIfTheirs(g[n - 1], q[n])
    BY <2>1 DEF Loop
  <2>3. \A n \in 0 .. k : h[n] = IF n = 0 THEN <<>> ELSE AddIfTheirs(h[n - 1], q[n])
    <3> SUFFICES ASSUME NEW n \in 0 .. k
                 PROVE  h[n] = IF n = 0 THEN <<>> ELSE AddIfTheirs(h[n - 1], q[n])
      OBVIOUS
    <3>1. CASE n = k
      <4>1. n # 0 /\ k - 1 \in 0 .. k /\ k - 1 # k
        BY <1>1, <1>3, <3>1
      <4>2. h[k - 1] = g[k - 1]
        BY <4>1
      <4>3. h[n] = AddIfTheirs(g[k - 1], q[k])
        BY <3>1
      <4>4. QED
        BY <3>1, <4>1, <4>2, <4>3
    <3>2. CASE n # k
      <4>1. n \in 0 .. (k - 1) /\ h[n] = g[n]
        BY <1>1, <1>3, <3>2
      <4>2. n # 0 => n - 1 \in 0 .. k /\ n - 1 # k /\ h[n - 1] = g[n - 1]
        BY <1>1, <1>3, <4>1
      <4>3. QED
        BY <2>2, <4>1, <4>2
    <3>3. QED
      BY <3>1, <3>2
  <2>4. Loop(h, q, k)
    BY <2>3 DEF Loop
  <2> HIDE DEF h
  <2>5. QED
    BY <1>1, <1>3, <2>4
<1>4. L \in T
  <2>1. \A k \in 0 .. L : k \in T
    <3> HIDE DEF T
    <3> QED
      BY <1>1, <1>2, <1>3, CountingUp
  <2>2. QED
    BY <1>1, <2>1
<1>5. PICK g : Loop(g, q, L)
  BY <1>4
<1> DEFINE theirs == CHOOSE f : Loop(f, q, L)
<1>6. Loop(theirs, q, L)
  BY <1>5
<1>7. Theirs(q) = theirs[L]
  BY DEF Theirs, Loop, L
<1>8. QED
  BY <1>6, <1>7 DEF L

(* What the loop does with one command. *)
LEMMA TheirsOfLoop ==
  ASSUME NEW q, NEW theirs, NEW m \in Nat, Loop(theirs, q, m)
  PROVE  /\ theirs[0] = <<>>
         /\ \A n \in 1 .. m : theirs[n] = AddIfTheirs(theirs[n - 1], q[n])
<1>1. \A n \in 0 .. m : theirs[n] = IF n = 0 THEN <<>> ELSE AddIfTheirs(theirs[n - 1], q[n])
  BY DEF Loop
<1>2. 0 \in 0 .. m /\ \A n \in 1 .. m : n \in 0 .. m /\ n # 0
  OBVIOUS
<1>3. QED
  BY <1>1, <1>2

LEMMA SeenOf ==
  ASSUME NEW c \in CmdSet
  PROVE  Seen(c) \in SeenSet
BY DEF Seen, SeenSet, CmdSet

(* The windows' commands of a queue are a queue. *)
LEMMA TheirsIsQueue ==
  ASSUME NEW q \in Seq(CmdSet)
  PROVE  Theirs(q) \in Seq(SeenSet)
<1>1. PICK theirs : Loop(theirs, q, Len(q)) /\ Theirs(q) = theirs[Len(q)]
  BY TheirsLoop
<1> DEFINE L == Len(q)
           T == {m \in 0 .. L : theirs[m] \in Seq(SeenSet)}
<1>2. L \in Nat /\ \A n \in 1 .. L : q[n] \in CmdSet
  OBVIOUS
<1> HIDE DEF L
<1>3. /\ theirs[0] = <<>>
      /\ \A n \in 1 .. L : theirs[n] = AddIfTheirs(theirs[n - 1], q[n])
  BY <1>1, <1>2, TheirsOfLoop DEF L
<1>4. 0 \in T
  <2>1. <<>> \in Seq(SeenSet)
    OBVIOUS
  <2>2. theirs[0] \in Seq(SeenSet)
    BY <1>3, <2>1, Zenon
  <2>3. QED
    BY <1>2, <2>2
<1>5. ASSUME NEW k \in 1 .. L, k - 1 \in T PROVE k \in T
  <2>1. theirs[k] = AddIfTheirs(theirs[k - 1], q[k]) /\ theirs[k - 1] \in Seq(SeenSet)
    BY <1>3, <1>5
  <2>2. Seen(q[k]) \in SeenSet
    BY <1>2, SeenOf
  <2>3. theirs[k] \in Seq(SeenSet)
    BY <2>1, <2>2 DEF AddIfTheirs, Seen
  <2>4. QED
    BY <1>2, <2>3
<1> HIDE DEF T
<1>6. \A k \in 0 .. L : k \in T
  BY <1>2, <1>4, <1>5, CountingUp
<1>7. L \in T
  BY <1>2, <1>6
<1>8. QED
  BY <1>1, <1>7 DEF T, L

LEMMA AppendLast ==
  ASSUME NEW s \in Seq(SeenSet), NEW u \in Seq(SeenSet), NEW e \in SeenSet
  PROVE  Append(u, e) \in Seq(SeenSet) /\ Append(s \o u, e) = s \o Append(u, e)
OBVIOUS

(* Of two queues in a row, the commands of the one come before those of the
   other.                                                                 *)
LEMMA TheirsConcat ==
  ASSUME NEW p \in Seq(CmdSet), NEW q \in Seq(CmdSet)
  PROVE  Theirs(p \o q) = Theirs(p) \o Theirs(q)
<1> DEFINE r == p \o q
           K == Len(p)
           L == Len(q)
<1>1. /\ r \in Seq(CmdSet) /\ Len(r) = K + L /\ K \in Nat /\ L \in Nat
      /\ \A n \in 1 .. K : r[n] = p[n]
      /\ \A n \in 1 .. L : r[K + n] = q[n]
      /\ \A n \in 1 .. L : q[n] \in CmdSet
  OBVIOUS
<1>2. PICK a : Loop(a, p, Len(p)) /\ Theirs(p) = a[Len(p)]
  BY TheirsLoop
<1>3. PICK b : Loop(b, q, Len(q)) /\ Theirs(q) = b[Len(q)]
  BY TheirsLoop
<1> HIDE DEF r
<1>4. PICK t : Loop(t, r, Len(r)) /\ Theirs(r) = t[Len(r)]
  BY <1>1, TheirsLoop
<1> HIDE DEF K, L
<1>5. /\ a[0] = <<>> /\ \A n \in 1 .. K : a[n] = AddIfTheirs(a[n - 1], p[n])
      /\ b[0] = <<>> /\ \A n \in 1 .. L : b[n] = AddIfTheirs(b[n - 1], q[n])
      /\ t[0] = <<>> /\ \A n \in 1 .. (K + L) : t[n] = AddIfTheirs(t[n - 1], r[n])
  <2>1. a[0] = <<>> /\ \A n \in 1 .. K : a[n] = AddIfTheirs(a[n - 1], p[n])
    BY <1>1, <1>2, TheirsOfLoop DEF K
  <2>2. b[0] = <<>> /\ \A n \in 1 .. L : b[n] = AddIfTheirs(b[n - 1], q[n])
    BY <1>1, <1>3, TheirsOfLoop DEF L
  <2>3. Loop(t, r, K + L) /\ K + L \in Nat
    BY <1>1, <1>4
  <2>4. t[0] = <<>> /\ \A n \in 1 .. (K + L) : t[n] = AddIfTheirs(t[n - 1], r[n])
    BY <2>3, TheirsOfLoop
  <2>5. QED
    BY <2>1, <2>2, <2>4
<1>6. t[K] = a[K]
  <2> DEFINE T == {m \in 0 .. K : t[m] = a[m]}
  <2>1. 0 \in T
    BY <1>1, <1>5
  <2>2. ASSUME NEW k \in 1 .. K, k - 1 \in T PROVE k \in T
    <3>1. k \in 1 .. (K + L) /\ t[k - 1] = a[k - 1] /\ r[k] = p[k]
      BY <1>1, <2>2
    <3>2. t[k] = a[k]
      BY <1>5, <3>1
    <3>3. QED
      BY <1>1, <3>2
  <2> HIDE DEF T
  <2>3. \A k \in 0 .. K : k \in T
    BY <1>1, <2>1, <2>2, CountingUp
  <2>4. K \in T
    BY <1>1, <2>3
  <2>5. QED
    BY <2>4 DEF T
<1>7. a[K] \in Seq(SeenSet)
  BY <1>2, TheirsIsQueue DEF K
<1>8. t[K + L] = a[K] \o b[L]
  <2> DEFINE Good(m) == b[m] \in Seq(SeenSet) /\ t[K + m] = a[K] \o b[m]
             T == {m \in 0 .. L : Good(m)}
  <2>1. Good(0)
    <3>1. a[K] \o <<>> = a[K] /\ K + 0 = K /\ <<>> \in Seq(SeenSet)
      BY <1>1, <1>7
    <3>2. QED
      BY <1>5, <1>6, <3>1
  <2>2. ASSUME NEW k \in 1 .. L, Good(k - 1) PROVE Good(k)
    <3>1. K + k \in 1 .. (K + L) /\ (K + k) - 1 = K + (k - 1)
      BY <1>1
    <3>2. r[K + k] = q[k] /\ q[k] \in CmdSet
      BY <1>1
    <3>3. b[k - 1] \in Seq(SeenSet) /\ t[K + (k - 1)] = a[K] \o b[k - 1]
      BY <2>2
    <3>4. t[K + k] = AddIfTheirs(a[K] \o b[k - 1], q[k])
      <4>1. t[K + k] = AddIfTheirs(t[(K + k) - 1], r[K + k])
        BY <1>5, <3>1
      <4>2. QED
        BY <3>1, <3>2, <3>3, <4>1
    <3>5. b[k] = AddIfTheirs(b[k - 1], q[k])
      BY <1>5
    <3>6. Seen(q[k]) \in SeenSet
      BY <3>2, SeenOf
    <3>7. /\ Append(b[k - 1], Seen(q[k])) \in Seq(SeenSet)
          /\ Append(a[K] \o b[k - 1], Seen(q[k])) = a[K] \o Append(b[k - 1], Seen(q[k]))
      BY <1>7, <3>3, <3>6, AppendLast
    <3>8. b[k] \in Seq(SeenSet) /\ t[K + k] = a[K] \o b[k]
      BY <3>3, <3>4, <3>5, <3>7 DEF AddIfTheirs, Seen
    <3>9. QED
      BY <3>8
  <2> HIDE DEF Good
  <2>3. 0 \in T /\ \A k \in 1 .. L : k - 1 \in T => k \in T
    BY <1>1, <2>1, <2>2
  <2> HIDE DEF T
  <2>4. \A k \in 0 .. L : k \in T
    BY <1>1, <2>3, CountingUp
  <2>5. L \in T
    BY <1>1, <2>4
  <2>6. QED
    BY <2>5 DEF T, Good
<1>9. QED
  BY <1>1, <1>2, <1>3, <1>4, <1>8 DEF K, L, r

(* A queue of none, and of one. *)
LEMMA TheirsOfOne ==
  /\ Theirs(<<>>) = <<>>
  /\ \A c \in CmdSet : Theirs(<<c>>) = IF Own(c) THEN <<>> ELSE <<Seen(c)>>
<1>1. Theirs(<<>>) = <<>>
  <2>1. <<>> \in Seq(CmdSet) /\ Len(<<>>) = 0
    OBVIOUS
  <2>2. PICK theirs : Loop(theirs, <<>>, 0) /\ Theirs(<<>>) = theirs[0]
    BY <2>1, TheirsLoop
  <2>3. QED
    BY <2>2, TheirsOfLoop
<1>2. ASSUME NEW c \in CmdSet
      PROVE  Theirs(<<c>>) = IF Own(c) THEN <<>> ELSE <<Seen(c)>>
  <2>1. <<c>> \in Seq(CmdSet) /\ Len(<<c>>) = 1 /\ <<c>>[1] = c
    OBVIOUS
  <2>2. PICK theirs : Loop(theirs, <<c>>, 1) /\ Theirs(<<c>>) = theirs[1]
    BY <2>1, TheirsLoop
  <2>3. theirs[0] = <<>> /\ theirs[1] = AddIfTheirs(theirs[0], c)
    <3>1. /\ theirs[0] = <<>>
          /\ \A n \in 1 .. 1 : theirs[n] = AddIfTheirs(theirs[n - 1], <<c>>[n])
      BY <2>2, TheirsOfLoop
    <3>2. 1 \in 1 .. 1 /\ 1 - 1 = 0
      OBVIOUS
    <3>3. QED
      BY <2>1, <3>1, <3>2
  <2>4. Theirs(<<c>>) = AddIfTheirs(<<>>, c)
    BY <2>2, <2>3
  <2>5. Append(<<>>, Seen(c)) = <<Seen(c)>>
    OBVIOUS
  <2>6. QED
    BY <2>4, <2>5 DEF AddIfTheirs, Seen
<1>3. QED
  BY <1>1, <1>2

(* The front of a queue is the windows' first command, or the client's own. *)
LEMMA FrontOfTheirs ==
  ASSUME NEW q \in Seq(CmdSet), q # <<>>
  PROVE  /\ Own(Head(q)) => Theirs(q) = Theirs(Tail(q))
         /\ ~ Own(Head(q)) => /\ Theirs(q) # <<>> /\ Head(Theirs(q)) = Seen(Head(q))
                              /\ Tail(Theirs(q)) = Theirs(Tail(q))
<1> DEFINE c == Head(q)
           rest == Tail(q)
<1>1. c \in CmdSet /\ <<c>> \in Seq(CmdSet) /\ rest \in Seq(CmdSet) /\ q = <<c>> \o rest
  OBVIOUS
<1> HIDE DEF c, rest
<1>2. Theirs(q) = Theirs(<<c>>) \o Theirs(rest)
  BY <1>1, TheirsConcat
<1>3. Theirs(rest) \in Seq(SeenSet) /\ Seen(c) \in SeenSet
  BY <1>1, TheirsIsQueue, SeenOf
<1>4. CASE Own(c)
  <2>1. Theirs(q) = <<>> \o Theirs(rest)
    BY <1>1, <1>2, <1>4, TheirsOfOne
  <2>2. QED
    BY <1>3, <1>4, <2>1 DEF c, rest
<1>5. CASE ~ Own(c)
  <2>1. Theirs(q) = <<Seen(c)>> \o Theirs(rest)
    BY <1>1, <1>2, <1>5, TheirsOfOne
  <2>2. Theirs(q) # <<>> /\ Head(Theirs(q)) = Seen(c) /\ Tail(Theirs(q)) = Theirs(rest)
    BY <1>3, <2>1
  <2>3. QED
    BY <1>5, <2>2 DEF c, rest
<1>6. QED
  BY <1>4, <1>5

(* CMD_QUIT is not a command of a window, and what is asked next leaves the
   windows' commands as they are, or drops them.                          *)
LEMMA RequestLeaves ==
  ASSUME NEW n, NEW q \in Seq(CmdSet), next_seq \in Nat, Request(n, q)
  PROVE  /\ Theirs(cmdlist') \in {Theirs(q), <<>>}
         /\ next_seq' \in Nat /\ next_seq <= next_seq'
<1>1. cmdlist' \in {<<>>, OrQuit(q)} /\ next_seq' \in {next_seq, next_seq + 1}
  BY DEF Request, RequestCommand, Disconnect
<1>2. Theirs(OrQuit(q)) = Theirs(q)
  <2> DEFINE quit == Cmd(next_seq, Text("QUIT", Nil))
  <2>1. quit \in CmdSet
    BY OwnTexts, Commanded
  <2>2. Own(quit)
    BY DEF Own, Cmd, Text
  <2> HIDE DEF quit
  <2>3. Theirs(<<quit>>) = Theirs(<<>>)
    BY <2>1, <2>2, TheirsOfOne
  <2>4. QED
    BY <2>3 DEF OrQuit, quit
<1>3. QED
  BY <1>1, <1>2, TheirsOfOne

(* The greeting is the client's own. *)
LEMMA GreetingIsOwn ==
  ASSUME NEW seq \in Nat, NEW account \in Accounts \cup {Guest}
  PROVE  Theirs(Preamble(seq, account)) = <<>>
<1> DEFINE client == Cmd(seq, Text("CLIENT", Nil))
           auth   == Cmd(seq + 1, Text("AUTH", account))
<1>1. client \in CmdSet /\ Own(client) /\ <<client>> \in Seq(CmdSet)
  <2>1. client \in CmdSet
    BY OwnTexts, Commanded
  <2>2. Own(client)
    BY DEF Own, Cmd, Text
  <2>3. QED
    BY <2>1, <2>2
<1>2. account # Guest => auth \in CmdSet /\ Own(auth) /\ <<auth>> \in Seq(CmdSet)
  <2>1. seq + 1 \in Nat
    OBVIOUS
  <2>2. account # Guest => auth \in CmdSet
    BY <2>1, OwnTexts, Commanded
  <2>3. Own(auth)
    BY DEF Own, Cmd, Text
  <2>4. QED
    BY <2>2, <2>3
<1>3. Preamble(seq, account) = <<client>> \o (IF account = Guest THEN <<>> ELSE <<auth>>)
  BY DEF Preamble
<1> HIDE DEF client, auth
<1>4. CASE account = Guest
  <2>1. Preamble(seq, account) = <<client>>
    BY <1>1, <1>3, <1>4
  <2>2. QED
    BY <1>1, <2>1, TheirsOfOne
<1>5. CASE account # Guest
  <2>1. Preamble(seq, account) = <<client>> \o <<auth>>
    BY <1>3, <1>5
  <2>2. Theirs(Preamble(seq, account)) = Theirs(<<client>>) \o Theirs(<<auth>>)
    BY <1>1, <1>2, <1>5, <2>1, TheirsConcat
  <2>3. Theirs(<<client>>) = <<>> /\ Theirs(<<auth>>) = <<>>
    BY <1>1, <1>2, <1>5, TheirsOfOne
  <2>4. QED
    BY <2>2, <2>3
<1>6. QED
  BY <1>4, <1>5

(* A queue of windows' commands is seen as it is. *)
LEMMA AllTheirs ==
  ASSUME NEW q \in Seq(CmdSet), \A i \in 1 .. Len(q) : ~ Own(q[i])
  PROVE  Theirs(q) = [i \in 1 .. Len(q) |-> Seen(q[i])]
<1>1. PICK theirs : Loop(theirs, q, Len(q)) /\ Theirs(q) = theirs[Len(q)]
  BY TheirsLoop
<1> DEFINE L == Len(q)
           Upto(m) == [i \in 1 .. m |-> Seen(q[i])]
           T == {m \in 0 .. L : theirs[m] = Upto(m)}
<1>2. L \in Nat /\ \A i \in 1 .. L : Seen(q[i]) \in SeenSet
  <2>1. L \in Nat /\ \A i \in 1 .. L : q[i] \in CmdSet
    OBVIOUS
  <2>2. QED
    BY <2>1, SeenOf
<1> HIDE DEF L
<1>3. /\ theirs[0] = <<>>
      /\ \A n \in 1 .. L : theirs[n] = AddIfTheirs(theirs[n - 1], q[n])
  BY <1>1, <1>2, TheirsOfLoop DEF L
<1>4. 0 \in T
  <2>1. Upto(0) = <<>>
    OBVIOUS
  <2>2. QED
    BY <1>2, <1>3, <2>1
<1>5. ASSUME NEW k \in 1 .. L, k - 1 \in T PROVE k \in T
  <2>1. theirs[k] = AddIfTheirs(theirs[k - 1], q[k]) /\ theirs[k - 1] = Upto(k - 1)
    BY <1>3, <1>5
  <2>2. ~ Own(q[k])
    BY DEF L
  <2>3. theirs[k] = Append(Upto(k - 1), Seen(q[k]))
    BY <2>1, <2>2 DEF AddIfTheirs, Seen
  <2>4. Append(Upto(k - 1), Seen(q[k])) = Upto(k)
    <3>1. /\ Upto(k - 1) \in Seq(SeenSet) /\ Len(Upto(k - 1)) = k - 1
          /\ Upto(k) \in Seq(SeenSet) /\ Len(Upto(k)) = k
          /\ \A i \in 1 .. (k - 1) : Upto(k - 1)[i] = Upto(k)[i]
          /\ Upto(k)[k] = Seen(q[k])
      BY <1>2
    <3> DEFINE s == Upto(k - 1)
               u == Upto(k)
               e == Seen(q[k])
    <3>2. s \in Seq(SeenSet) /\ u \in Seq(SeenSet) /\ e \in SeenSet /\ Len(s) = k - 1
          /\ Len(u) = k /\ u[k] = e /\ \A i \in 1 .. (k - 1) : s[i] = u[i]
      BY <1>2, <3>1
    <3> HIDE DEF s, u, e
    <3>3. Append(s, e) = u
      BY <1>2, <3>2
    <3>4. QED
      BY <3>3 DEF s, u, e
  <2>5. theirs[k] = Upto(k)
    BY <2>3, <2>4
  <2> HIDE DEF Upto
  <2>6. QED
    BY <1>2, <2>5
<1> HIDE DEF T
<1>6. \A k \in 0 .. L : k \in T
  BY <1>2, <1>4, <1>5, CountingUp
<1>7. L \in T
  BY <1>2, <1>6
<1>8. QED
  BY <1>1, <1>7 DEF T, L

-----------------------------------------------------------------------------
(* The steps of the contract. *)

Numbered == next_seq \in Nat /\ next_seq' \in Nat /\ next_seq <= next_seq'

(* Nothing is said, nothing new is kept: what waits goes on waiting or is
   dropped.                                                               *)
LEMMA QuietStep ==
  ASSUME Numbered, Theirs(cmdlist') \in {Theirs(cmdlist), <<>>}, signals' = <<>>,
         PoolEntries' \subseteq PoolEntries
  PROVE  Contract!QueueNext
<1>1. Contract!Numbers(0)
  BY DEF Numbered, Contract!Numbers
<1>2. CASE Theirs(cmdlist') = Theirs(cmdlist)
  <2>1. Contract!Outdate
    BY <1>1, <1>2 DEF Contract!Outdate
  <2>2. QED
    BY <2>1 DEF Contract!QueueNext
<1>3. CASE Theirs(cmdlist) # <<>> /\ Theirs(cmdlist') = <<>>
  <2>1. Contract!Answer
    BY <1>1, <1>3 DEF Contract!Answer
  <2>2. QED
    BY <2>1 DEF Contract!QueueNext
<1>4. QED
  BY <1>2, <1>3

(* The windows' first command is done with, without an answer or with one
   of its own.                                                            *)
LEMMA FrontDone ==
  ASSUME Numbered, cmdlist \in Seq(CmdSet), cmdlist # <<>>, ~ Own(Head(cmdlist)),
         Theirs(cmdlist') \in {Theirs(Tail(cmdlist)), <<>>},
         LET c == Head(cmdlist) IN
         \/ signals' = <<>> /\ PoolEntries' \subseteq PoolEntries
         \/ \E data \in AnswersAbout(c.text) :
              /\ signals' = <<Signal(c.seq, c.text, data)>>
              /\ PoolEntries' \subseteq PoolEntries \cup {[key |-> c.text, data |-> data]}
  PROVE  Contract!QueueNext
<1> DEFINE c == Head(cmdlist)
           w == Head(Theirs(cmdlist))
<1>1. Contract!Numbers(0)
  BY DEF Numbered, Contract!Numbers
<1>2. /\ Theirs(cmdlist) # <<>> /\ w = Seen(c)
      /\ Tail(Theirs(cmdlist)) = Theirs(Tail(cmdlist))
  BY FrontOfTheirs
<1>3. w.seq = c.seq /\ w.text = c.text
  BY <1>2 DEF Seen
<1>4. Theirs(cmdlist') \in {Tail(Theirs(cmdlist)), <<>>}
  BY <1>2
<1> HIDE DEF c, w
<1>5. \/ signals' = <<>> /\ PoolEntries' \in SUBSET PoolEntries
      \/ \E d \in AnswersAbout(w.text) :
           /\ signals' = <<Contract!Emission(w.seq, w.text, d)>>
           /\ PoolEntries' \in SUBSET (PoolEntries \cup {[key |-> w.text, data |-> d]})
  BY <1>3 DEF Signal, Contract!Emission, c
<1>6. Contract!Answer
  BY <1>1, <1>2, <1>4, <1>5 DEF Contract!Answer, w
<1>7. QED
  BY <1>6 DEF Contract!QueueNext

(* A batch is taken: what the cache has is repeated from it, the rest waits. *)
LEMMA SubmitTakes ==
  ASSUME IInv, NEW batch \in Batches, NEW account \in Accounts \cup {Guest},
         Submit(batch, account), PoolEntries' \subseteq PoolEntries
  PROVE  Contract!QueueNext
<1> DEFINE n        == Len(batch)
           command(i) == Cmd(next_seq + i - 1, batch[i])
           found    == {i \in 1 .. n : InCache(batch[i])}
           missed   == (1 .. n) \ found
           preamble == IF found = 1 .. n \/ is_connected THEN <<>>
                       ELSE Preamble(next_seq + n, account)
           queued(miss) == [i \in 1 .. Len(miss) |-> command(miss[i])]
           waits(miss)  == [i \in 1 .. Len(miss) |->
                              Contract!Waiting(next_seq + miss[i] - 1, batch[miss[i]])]
<1>1. n \in Nat /\ next_seq \in Nat \ {0} /\ \A i \in 1 .. n : batch[i] \in Texts
  BY Commanded DEF IInv, ConnTypes
<1>2. preamble \in Seq(CmdSet) /\ Len(preamble) \in Nat /\ Theirs(preamble) = <<>>
  <2>1. CASE found = 1 .. n \/ is_connected
    BY <2>1, TheirsOfOne
  <2>2. CASE ~(found = 1 .. n \/ is_connected)
    <3>1. next_seq + n \in Nat
      BY <1>1
    <3>2. QED
      BY <2>2, <3>1, PreambleCommands, GreetingIsOwn
  <2>3. QED
    BY <2>1, <2>2
<1>3. next_seq' = next_seq + n + Len(preamble)
  BY DEF Submit
<1>4. PICK miss \in Ascending(missed, n) : cmdlist' = Enqueue(cmdlist, preamble, queued(miss))
  BY DEF Submit
<1>5. PICK hit \in Ascending(found, n) :
        signals' = [i \in 1 .. Len(hit) |->
                      Signal(0, batch[hit[i]], Cached(PoolOf(batch[hit[i]]), batch[hit[i]]))]
  BY DEF Submit
<1>6. /\ Len(miss) \in Nat /\ \A i \in 1 .. Len(miss) : miss[i] \in 1 .. n
      /\ Len(hit) \in Nat /\ \A i \in 1 .. Len(hit) : hit[i] \in found
  BY <1>1, AscendingPicks
<1>7. \A i \in 1 .. n : command(i) \in CmdSet /\ ~ Own(command(i))
                        /\ Seen(command(i)) = Contract!Waiting(next_seq + i - 1, batch[i])
  <2> SUFFICES ASSUME NEW i \in 1 .. n
               PROVE  command(i) \in CmdSet /\ ~ Own(command(i))
                        /\ Seen(command(i)) = Contract!Waiting(next_seq + i - 1, batch[i])
    OBVIOUS
  <2>1. next_seq + i - 1 \in Nat /\ batch[i] \in Texts
    BY <1>1
  <2>2. command(i) \in CmdSet
    BY <2>1, Commanded
  <2>3. batch[i].command \notin {"CLIENT", "AUTH", "QUIT"}
    BY <1>1, ClientAssumption DEF ClientAssumption
  <2>4. QED
    BY <2>2, <2>3 DEF Own, Seen, Cmd, Contract!Waiting
<1> HIDE DEF command
<1>8. /\ queued(miss) \in Seq(CmdSet) /\ Len(queued(miss)) = Len(miss)
      /\ \A i \in 1 .. Len(miss) : queued(miss)[i] = command(miss[i])
  BY <1>6, <1>7
<1>9. Theirs(queued(miss)) = waits(miss)
  <2>1. \A i \in 1 .. Len(miss) : ~ Own(queued(miss)[i])
    BY <1>6, <1>7, <1>8
  <2> HIDE DEF queued
  <2>2. Theirs(queued(miss)) = [i \in 1 .. Len(miss) |-> Seen(queued(miss)[i])]
    BY <1>8, <2>1, AllTheirs
  <2>3. \A i \in 1 .. Len(miss) :
          Seen(queued(miss)[i]) = Contract!Waiting(next_seq + miss[i] - 1, batch[miss[i]])
    BY <1>6, <1>7, <1>8
  <2>4. QED
    BY <2>2, <2>3
<1> HIDE DEF preamble, queued, waits
<1>10. Theirs(cmdlist') = Theirs(cmdlist) \o waits(miss)
  <2>1. cmdlist \in Seq(CmdSet) /\ cmdlist' = (cmdlist \o preamble) \o queued(miss)
    BY <1>4 DEF IInv, ConnTypes, Enqueue
  <2>2. cmdlist \o preamble \in Seq(CmdSet)
    BY <1>2, <2>1
  <2>3. Theirs(cmdlist') = Theirs(cmdlist \o preamble) \o Theirs(queued(miss))
    BY <1>8, <2>1, <2>2, TheirsConcat
  <2>4. Theirs(cmdlist \o preamble) = Theirs(cmdlist) \o <<>>
    BY <1>2, <2>1, TheirsConcat
  <2>5. Theirs(cmdlist) \in Seq(SeenSet)
    BY <2>1, TheirsIsQueue
  <2>6. Theirs(cmdlist) \o <<>> = Theirs(cmdlist)
    BY <2>5
  <2>7. QED
    BY <1>9, <2>3, <2>4, <2>6
<1>11. \A i \in found : \E e \in PoolEntries :
         e.key = batch[i] /\ Cached(PoolOf(batch[i]), batch[i]) = e.data
  <2> SUFFICES ASSUME NEW i \in found
               PROVE  \E e \in PoolEntries :
                        e.key = batch[i] /\ Cached(PoolOf(batch[i]), batch[i]) = e.data
    OBVIOUS
  <2>1. IsCached(PoolOf(batch[i]), batch[i])
    BY DEF InCache
  <2>2. StrPoolSize \in Nat /\ LookupPoolSize \in Nat
    BY ClientAssumption DEF ClientAssumption
  <2>3. PoolOf(batch[i]) = str_pool \/ PoolOf(batch[i]) = lookup_pool
    BY DEF PoolOf
  <2>4. CASE PoolOf(batch[i]) = str_pool
    <3>1. \E e \in Elements(str_pool) : e.key = batch[i] /\ Cached(str_pool, batch[i]) = e.data
      BY <2>1, <2>2, <2>4, CachedIsElement DEF IInv, PoolTypes
    <3>2. QED
      BY <2>4, <3>1 DEF PoolEntries, Elements
  <2>5. CASE PoolOf(batch[i]) = lookup_pool
    <3>1. \E e \in Elements(lookup_pool) :
            e.key = batch[i] /\ Cached(lookup_pool, batch[i]) = e.data
      BY <2>1, <2>2, <2>5, CachedIsElement DEF IInv, PoolTypes
    <3>2. QED
      BY <2>5, <3>1 DEF PoolEntries, Elements
  <2>6. QED
    BY <2>3, <2>4, <2>5
<1> DEFINE repeated == [i \in found |->
                          CHOOSE e \in PoolEntries :
                            e.key = batch[i] /\ Cached(PoolOf(batch[i]), batch[i]) = e.data]
<1>12. /\ repeated \in [found -> PoolEntries]
       /\ \A i \in found : /\ repeated[i].key = batch[i]
                           /\ Cached(PoolOf(batch[i]), batch[i]) = repeated[i].data
  BY <1>11
<1> HIDE DEF repeated
<1>13. signals' = [i \in 1 .. Len(hit) |->
                     Contract!Emission(0, batch[hit[i]], repeated[hit[i]].data)]
  BY <1>5, <1>6, <1>12 DEF Signal, Contract!Emission
<1>14. \A P : Contract!Ascending(P, n) = Ascending(P, n)
  BY DEF Contract!Ascending, Ascending
<1>15. Contract!Numbers(n)
  BY <1>1, <1>2, <1>3 DEF Contract!Numbers
<1>16. found \in SUBSET (1 .. n)
  OBVIOUS
<1>17. hit \in Contract!Ascending(found, n) /\ miss \in Contract!Ascending((1 .. n) \ found, n)
  BY <1>14
<1> HIDE DEF found
<1>18. Contract!Take(batch)
  BY <1>10, <1>12, <1>13, <1>15, <1>16, <1>17 DEF Contract!Take, waits
<1>19. QED
  BY <1>18 DEF Contract!QueueNext

-----------------------------------------------------------------------------
(* The steps of the client. *)

(* The server accepts so many masks. *)
MaskBounded == \A h \in Hosts : mask[h] <= MaxMask

(* An answer that is emitted says what an answer to that command may say,
   and nothing else is added to what is kept.                             *)
LEMMA EmitsAnswer ==
  ASSUME IInv, NEW c \in CmdSet, NEW t, t.for = c.text, t.mask \in 0 .. MaxMask,
         channel \in Descriptors, net[channel].peer \in Hosts, EmitsAndSaves(c, t)
  PROVE  \E data \in AnswersAbout(c.text) :
           /\ signals' = <<Signal(c.seq, c.text, data)>>
           /\ PoolEntries' \subseteq PoolEntries \cup {[key |-> c.text, data |-> data]}
<1> DEFINE data == Answer(c, t)
<1>1. data \in AnswersAbout(c.text)
  BY DEF Answer, Data, AnswersAbout
<1>2. c.text \in Texts /\ data \in DataSet
  <2>1. t.mask \in Nat
    BY SocketsAssumption DEF SocketsAssumption
  <2>2. QED
    BY <2>1 DEF Answer, Data, DataSet, CmdSet
<1>3. StrPoolSize \in Nat \ {0} /\ LookupPoolSize \in Nat \ {0}
  BY ClientAssumption DEF ClientAssumption
<1>4. /\ signals' = <<Signal(c.seq, c.text, data)>>
      /\ str_pool' = str_pool \/ str_pool' = SavePool(str_pool, StrPoolSize, c.text, data)
      /\ lookup_pool' = lookup_pool
         \/ lookup_pool' = SavePool(lookup_pool, LookupPoolSize, c.text, data)
  BY DEF EmitsAndSaves
<1> HIDE DEF data
<1>5. Elements(str_pool') \subseteq Elements(str_pool) \cup {[key |-> c.text, data |-> data]}
  BY <1>2, <1>3, <1>4, SavePoolIsPool DEF IInv, PoolTypes
<1>6. Elements(lookup_pool') \subseteq Elements(lookup_pool) \cup {[key |-> c.text, data |-> data]}
  BY <1>2, <1>3, <1>4, SavePoolIsPool DEF IInv, PoolTypes
<1>7. PoolEntries' \subseteq PoolEntries \cup {[key |-> c.text, data |-> data]}
  BY <1>5, <1>6 DEF PoolEntries, Elements
<1>8. QED
  BY <1>1, <1>4, <1>7

(* What is cleaned out of the pools is not added to them. *)
LEMMA CleansPools ==
  ASSUME IInv, CleanAll \/ OutdateByMask \/ UNCHANGED poolVars
  PROVE  PoolEntries' \subseteq PoolEntries
<1>1. PoolEntries = Elements(str_pool) \cup Elements(lookup_pool)
      /\ PoolEntries' = Elements(str_pool') \cup Elements(lookup_pool')
  BY DEF PoolEntries, Elements
<1>2. str_pool \in Pool(StrPoolSize, Texts, DataSet) /\ lookup_pool \in Pool(LookupPoolSize, Texts, DataSet)
  BY DEF IInv, PoolTypes
<1>3. CASE CleanAll
  BY <1>1, <1>2, <1>3, CleanPoolIsPool DEF CleanAll
<1>4. CASE OutdateByMask
  BY <1>1, <1>2, <1>4, CleanPoolIsPool, CleanKeyIsPool DEF OutdateByMask
<1>5. CASE UNCHANGED poolVars
  BY <1>1, <1>5 DEF poolVars
<1>6. QED
  BY <1>3, <1>4, <1>5

(* A line of a reply: the front command goes on, or is done with. *)
LEMMA ReplyStep ==
  ASSUME IInv, MaskInv, MaskBounded, channel # Nil, net[channel].rep # <<>>, ~ waiting_banner,
         ParseReply(Left, Head(net[channel].rep))
  PROVE  Contract!QueueNext
<1> DEFINE c   == Head(cmdlist)
           tok == Head(net[channel].rep)
           junk == ~InBody(c) /\ tok.code = "BODY"
<1>1. /\ cmdlist # <<>> /\ c \in CmdSet /\ cmdlist \in Seq(CmdSet) /\ Tail(cmdlist) \in Seq(CmdSet)
      /\ tok \in TokenSet /\ (tok.for = c.text \/ junk) /\ next_seq \in Nat
  BY ReplyBelongs DEF IInv, ConnTypes
<1>2. /\ channel \in Descriptors /\ net[channel].peer \in Hosts /\ tok.mask \in 0 .. MaxMask
  <2>1. channel \in Descriptors /\ net[channel] \in StreamSet
    BY DEF IInv, ConnTypes, NetTypes
  <2>2. net[channel].rep \in Seq(TokenSet) /\ 1 \in DOMAIN net[channel].rep
        /\ tok = net[channel].rep[1]
    BY <2>1 DEF StreamSet
  <2>3. net[channel].peer \in Hosts /\ tok.mask <= mask[net[channel].peer]
    BY <2>1, <2>2 DEF MaskInv, MasksRise
  <2>4. tok.mask \in Nat /\ mask[net[channel].peer] \in Nat /\ mask[net[channel].peer] <= MaxMask
    BY <1>1, <2>3, TokenKinds DEF MaskBounded, IInv, NetTypes
  <2>5. QED
    BY <2>1, <2>3, <2>4, SocketsAssumption DEF SocketsAssumption
<1> HIDE DEF c, tok, junk
<1>3. CASE Disconnect(Left) /\ signals' = <<>> /\ UNCHANGED <<poolVars, next_seq>>
  <2>1. Numbered /\ Theirs(cmdlist') = <<>> /\ PoolEntries' \subseteq PoolEntries
    BY <1>1, <1>3, TheirsOfOne, CleansPools DEF Numbered, Disconnect
  <2>2. QED
    BY <1>3, <2>1, QuietStep
<1>4. ASSUME NEW reading \in {"body", "dirty"},
             cmdlist' = <<[c EXCEPT !.reading = reading]>> \o Tail(cmdlist),
             signals' = <<>>, UNCHANGED <<poolVars, next_seq>>
      PROVE  Contract!QueueNext
  <2> DEFINE front == [c EXCEPT !.reading = reading]
  <2>1. front \in CmdSet /\ front.text = c.text /\ front.seq = c.seq
    BY <1>1 DEF CmdSet
  <2>2. Own(front) = Own(c) /\ Seen(front) = Seen(c)
    BY <2>1 DEF Own, Seen
  <2> HIDE DEF front
  <2>3. <<front>> \in Seq(CmdSet) /\ <<c>> \in Seq(CmdSet) /\ cmdlist = <<c>> \o Tail(cmdlist)
    BY <1>1, <2>1 DEF c
  <2>4. Theirs(<<front>>) = Theirs(<<c>>)
    BY <1>1, <2>1, <2>2, TheirsOfOne
  <2>5. Theirs(cmdlist') = Theirs(<<front>>) \o Theirs(Tail(cmdlist))
    BY <1>1, <1>4, <2>3, TheirsConcat DEF front
  <2>6. Theirs(cmdlist) = Theirs(<<c>>) \o Theirs(Tail(cmdlist))
    BY <1>1, <2>3, TheirsConcat
  <2>7. Theirs(cmdlist') = Theirs(cmdlist)
    BY <2>4, <2>5, <2>6
  <2>8. Numbered /\ PoolEntries' \subseteq PoolEntries
    BY <1>1, <1>4, CleansPools DEF Numbered
  <2>9. QED
    BY <1>4, <2>7, <2>8, QuietStep
<1>5. CASE /\ ~Refused(c, tok)
           /\ \/ EndsAtStatus(c, tok) /\ EndEffects(c, tok)
              \/ EndsWithBody(c, tok) /\ EmitsAndSaves(c, tok)
           /\ Request(Left, Tail(cmdlist))
  <2>1. Theirs(cmdlist') \in {Theirs(Tail(cmdlist)), <<>>} /\ Numbered
    BY <1>1, <1>5, RequestLeaves DEF Numbered
  <2>2. tok.for = c.text
    BY <1>1, <1>5 DEF Refused, Excused, junk
  <2>3. \/ signals' = <<>> /\ PoolEntries' \subseteq PoolEntries
        \/ /\ ~ Own(c)
           /\ \E data \in AnswersAbout(c.text) :
                /\ signals' = <<Signal(c.seq, c.text, data)>>
                /\ PoolEntries' \subseteq PoolEntries \cup {[key |-> c.text, data |-> data]}
    <3>1. CASE EndsWithBody(c, tok) /\ EmitsAndSaves(c, tok)
      <4>1. ~ Own(c)
        BY <3>1 DEF EndsWithBody, WithBody, Own
      <4>2. QED
        BY <1>1, <1>2, <2>2, <3>1, <4>1, EmitsAnswer
    <3>2. CASE EndEffects(c, tok)
      <4>1. CASE SetAuth(register_user) /\ signals' = <<>>
        BY <4>1, CleansPools DEF SetAuth
      <4>2. CASE OutdateByMask /\ signals' = <<>>
        BY <4>2, CleansPools
      <4>3. CASE c.text.command = "MAX_DICT_COUNT" /\ EmitsAndSaves(c, [tok EXCEPT !.kind = "body"])
        <5>1. ~ Own(c)
          BY <4>3 DEF Own
        <5>2. /\ [tok EXCEPT !.kind = "body"].for = c.text
              /\ [tok EXCEPT !.kind = "body"].mask = tok.mask
          BY <1>1, <2>2 DEF TokenSet
        <5>3. QED
          BY <1>1, <1>2, <4>3, <5>1, <5>2, EmitsAnswer
      <4>4. CASE signals' = <<>> /\ UNCHANGED poolVars
        BY <4>4, CleansPools
      <4>5. QED
        BY <3>2, <4>1, <4>2, <4>3, <4>4 DEF EndEffects
    <3>3. QED
      BY <1>5, <3>1, <3>2
  <2>4. CASE Own(c)
    <3>1. Theirs(cmdlist) = Theirs(Tail(cmdlist))
      BY <1>1, <2>4, FrontOfTheirs DEF c
    <3>2. QED
      BY <2>1, <2>3, <2>4, <3>1, QuietStep
  <2>5. CASE ~ Own(c)
    BY <1>1, <2>1, <2>3, <2>5, FrontDone DEF c
  <2>6. QED
    BY <2>4, <2>5
<1>6. QED
  BY <1>3, <1>4, <1>5 DEF ParseReply, c, tok

(* A line from the server. *)
LEMMA IoInStep ==
  ASSUME IInv, MaskInv, MaskBounded, IoIn
  PROVE  Contract!QueueNext
<1>1. channel # Nil /\ net[channel].rep # <<>>
  BY DEF IoIn
<1>2. CASE waiting_banner
  <2>1. /\ ParseBanner(Left, Head(net[channel].rep))
        /\ cmdlist \in Seq(CmdSet) /\ next_seq \in Nat
    BY <1>2 DEF IoIn, Left, IInv, ConnTypes
  <2>2. signals' = <<>> /\ PoolEntries' \subseteq PoolEntries
    BY <2>1, CleansPools DEF ParseBanner
  <2>3. CASE Request(Left, cmdlist)
    BY <2>1, <2>2, <2>3, RequestLeaves, QuietStep DEF Numbered
  <2>4. CASE Disconnect(Left) /\ next_seq' = next_seq
    BY <2>1, <2>2, <2>4, TheirsOfOne, QuietStep DEF Numbered, Disconnect
  <2>5. QED
    BY <2>1, <2>3, <2>4 DEF ParseBanner
<1>3. CASE ~ waiting_banner
  <2>1. ParseReply(Left, Head(net[channel].rep))
    BY <1>3 DEF IoIn, Left
  <2>2. QED
    BY <1>1, <1>3, <2>1, ReplyStep
<1>4. QED
  BY <1>2, <1>3

ContractVars == <<Theirs(cmdlist), next_seq, PoolEntries, signals>>

(* Any step of the client is one of the contract, or leaves what the
   contract speaks of as it is.                                           *)
LEMMA StepKeepsContract ==
  ASSUME IInv, MaskInv, MaskBounded, [Next]_vars
  PROVE  [Contract!QueueNext]_ContractVars
<1>1. next_seq \in Nat
  BY DEF IInv, ConnTypes
<1>2. ASSUME NEW batch \in Batches, Send(batch) \/ Register(batch)
      PROVE  Contract!QueueNext
  <2>1. PICK account \in Accounts \cup {Guest} : Submit(batch, account)
    BY <1>2 DEF Send, Register, IInv, ConfigTypes
  <2>2. PoolEntries' \subseteq PoolEntries
    BY <1>2, CleansPools DEF Send, Register, SetAuth
  <2>3. QED
    BY <2>1, <2>2, SubmitTakes
<1>3. CASE IoIn
  BY <1>3, IoInStep
<1>4. CASE /\ cmdlist' \in {cmdlist, <<>>} /\ signals' = <<>> /\ next_seq' = next_seq
           /\ CleanAll \/ UNCHANGED poolVars
  BY <1>1, <1>4, TheirsOfOne, CleansPools, QuietStep DEF Numbered
<1>5. CASE UNCHANGED <<cmdlist, next_seq, poolVars, signals>>
  BY <1>5 DEF ContractVars, PoolEntries, poolVars
<1>6. IoEof \/ (\E w \in Descriptors : IoErr(w) \/ IoStale(w)) =>
        /\ cmdlist' \in {cmdlist, <<>>} /\ signals' = <<>> /\ next_seq' = next_seq
        /\ UNCHANGED poolVars
  BY DEF IoEof, IoErr, IoStale, Disconnect
<1>7. ASSUME NEW h \in Hosts, SetServer(h) \/ \E ok \in BOOLEAN : ResolveDone(h, ok)
      PROVE  /\ cmdlist' = cmdlist /\ signals' = <<>> /\ next_seq' = next_seq
             /\ CleanAll \/ UNCHANGED poolVars
  BY <1>7 DEF SetServer, ResolveDone
<1>8. ASSUME NEW account, SetAccount(account)
      PROVE  /\ cmdlist' = cmdlist /\ signals' = <<>> /\ next_seq' = next_seq
             /\ CleanAll \/ UNCHANGED poolVars
  BY <1>8 DEF SetAccount, SetAuth
<1>9. ASSUME NEW result, ConnectDone(result)
      PROVE  /\ cmdlist' = cmdlist /\ signals' = <<>> /\ next_seq' = next_seq
             /\ UNCHANGED poolVars
  BY <1>9 DEF ConnectDone
<1>10. ASSUME NEW s \in Descriptors, Environment(s)
       PROVE  UNCHANGED <<cmdlist, next_seq, poolVars, signals>>
  BY <1>10 DEF Environment, clientVars
<1>11. UNCHANGED vars => UNCHANGED <<cmdlist, next_seq, poolVars, signals>>
  BY DEF vars
<1>12. QED
  BY <1>2, <1>3, <1>4, <1>5, <1>6, <1>7, <1>8, <1>9, <1>10, <1>11 DEF Next

(* Only the server changes a mask, and as far as it accepts. *)
LEMMA MasksStayBounded ==
  ASSUME IInv, MaskBounded, [Next]_vars
  PROVE  MaskBounded'
<1>1. CASE mask' = mask
  BY <1>1 DEF MaskBounded
<1>2. ASSUME NEW s \in Descriptors, Serve(s)
      PROVE  MaskBounded'
  <2>1. PICK m : m <= MaxMask /\ mask' = [mask EXCEPT ![net[s].peer] = m]
    BY <1>2 DEF Serve
  <2>2. DOMAIN mask = Hosts
    BY DEF IInv, NetTypes
  <2>3. QED
    BY <2>1, <2>2 DEF MaskBounded
<1>3. ASSUME NEW s \in Descriptors, Environment(s)
      PROVE  mask' = mask \/ Serve(s)
  BY <1>3 DEF Environment, ConnectThread, Greet, PeerCloses, PeerResets
<1>4. ASSUME NEW batch, Send(batch) \/ Register(batch)
      PROVE  mask' = mask
  BY <1>4 DEF Send, Register, Submit
<1>5. IoIn \/ IoEof \/ (\E w \in Descriptors : IoErr(w) \/ IoStale(w)) => mask' = mask
  BY DEF IoIn, IoEof, IoErr, IoStale, untouchedByInput, sockVars
<1>6. ASSUME NEW h, SetServer(h) \/ SetAccount(h) \/ ConnectDone(h)
                    \/ \E ok \in BOOLEAN : ResolveDone(h, ok)
      PROVE  mask' = mask
  BY <1>6 DEF SetServer, SetAccount, ConnectDone, ResolveDone, sockVars
<1>7. UNCHANGED vars => mask' = mask
  BY DEF vars, sockVars
<1>8. QED
  BY <1>1, <1>2, <1>3, <1>4, <1>5, <1>6, <1>7 DEF Next

(* The client implements CommandQueue, whatever windows submit and whatever *)
(* becomes of connections, threads and the server, overlapping attempts to *)
(* connect included: each command of a window is answered at most once, in *)
(* its turn and with an answer of its own, or dropped with all that wait,  *)
(* and what the cache repeats was an answer to the same command.           *)
THEOREM ImplementsCommandQueue == Spec => KeepsContract
<1>1. Init => Contract!QueueInit
  <2> SUFFICES ASSUME Init PROVE Contract!QueueInit
    OBVIOUS
  <2>1. PoolEntries = {}
    BY DEF Init, EmptyPool, PoolEntries
  <2>2. QED
    BY <2>1, TheirsOfOne DEF Init, Contract!QueueInit
<1>2. Init => IInv /\ MaskInv /\ MaskBounded
  <2>1. Init => MaskBounded
    <3>1. Init => mask = [h \in Hosts |-> 0]
      BY DEF Init, SocketsInit
    <3>2. 0 <= MaxMask
      BY SocketsAssumption DEF SocketsAssumption
    <3>3. QED
      BY <3>1, <3>2 DEF MaskBounded
  <2>2. QED
    BY <2>1, InitHolds, InitIsMasked
<1>3. IInv /\ MaskInv /\ MaskBounded /\ [Next]_vars => IInv' /\ MaskInv' /\ MaskBounded'
  BY NextKeeps, NextKeepsMasks, MasksStayBounded
<1>4. IInv /\ MaskInv /\ MaskBounded /\ [Next]_vars =>
        [Contract!QueueNext]_<<Theirs(cmdlist), next_seq, PoolEntries, signals>>
  BY StepKeepsContract DEF ContractVars
<1>5. QED
  BY <1>1, <1>2, <1>3, <1>4, PTL DEF Spec, KeepsContract, Contract!QueueSpec, Contract!queueVars
=============================================================================
