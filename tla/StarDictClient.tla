--------------------------- MODULE StarDictClient ---------------------------
(***************************************************************************)
(* StarDictClient (lib/stardict_client.cpp): the connection to the         *)
(* dictionary server that every window of the program shares.  Commands    *)
(* are queued on cmdlist; the front of the queue is the one command that   *)
(* has been written, its reply is parsed from the stream, and only then is *)
(* the next one written.  A connection is opened when something is queued  *)
(* while there is none, starts with the server's banner, and is closed     *)
(* with CMD_QUIT when the queue runs empty.  Answers are kept in two       *)
(* pools, by the text of the command.                                      *)
(*                                                                         *)
(* The client runs in the main loop: every action below is one callback or *)
(* one call, and a callback that reads several lines is several steps of   *)
(* IoIn, which differ from one step only in when the lines arrived.        *)
(***************************************************************************)
EXTENDS Sockets, CachePool, Subsequences

CONSTANTS Accounts,          \* accounts the user may configure
          Guest,             \* user_ or md5saltpasswd_ is empty
          Batches,           \* what the windows submit: sequences of texts
          MaxSeq,            \* bound: numbers given to commands before the last CMD_QUIT
          StrPoolSize, LookupPoolSize

(* The text of a command, which is also its key in the pools. *)
Text(command, key) == [command |-> command, key |-> key]

Texts == (UNION {{batch[i] : i \in DOMAIN batch} : batch \in Batches})
         \cup {Text("CLIENT", Nil), Text("QUIT", Nil)}
         \cup {Text("AUTH", account) : account \in Accounts}

ASSUME ClientAssumption ==
  /\ Guest \notin Accounts
  /\ MaxSeq \in Nat
  /\ StrPoolSize \in Nat \ {0} /\ LookupPoolSize \in Nat \ {0}
  /\ \A batch \in Batches :
       /\ batch \in Seq(Texts)
       /\ \A i \in DOMAIN batch :
            /\ batch[i].command \in {"REGISTER", "CHANGE_PASSWD"} => batch[i].key \in Accounts
            /\ batch[i].command \notin {"CLIENT", "AUTH", "QUIT"}   \* the client's own

VARIABLES host, host_resolved, sa,   \* the configured server and its address
          user,                      \* user_ and md5saltpasswd_, as one account
          register_user,             \* the account the preferences dialog registers
          sd, channel,               \* sd_, channel_
          in_source,                 \* the watch in_source_id_ names, by descriptor
          leaked,                    \* watches whose id was overwritten
          is_connected, waiting_banner,
          cmdlist, next_seq,
          str_pool, lookup_pool,
          signals                    \* what the last step emitted

(* History, read by properties only. *)
VARIABLES overlap,    \* a connection was attempted while another attempt was under way
          acked,      \* the newest mask whose setting the client saw confirmed
          answered    \* seq of the last command answered by the server

connVars   == <<sd, channel, in_source, leaked, is_connected>>
configVars == <<host, user, register_user>>
poolVars   == <<str_pool, lookup_pool>>
histVars   == <<overlap, acked, answered>>
vars == <<sockVars, connVars, configVars, poolVars, histVars, host_resolved, sa,
          waiting_banner, cmdlist, next_seq, signals>>

StrCommands    == {"GET_DICT_MASK", "MAX_DICT_COUNT", "DIR_INFO", "DICT_INFO", "GET_ADINFO"}
DictCommands   == {"LOOKUP", "DEFINE", "SELECT_QUERY", "SMART_QUERY"}
ListCommands   == {"PREVIOUS", "NEXT"}
StatusCommands == {"CLIENT", "AUTH", "REGISTER", "CHANGE_PASSWD", "SET_DICT_MASK"}
Commands == StrCommands \cup DictCommands \cup ListCommands \cup StatusCommands \cup {"QUIT"}

(* Cmd::Cmd.  `reading' is reading_status: the status line is awaited, or
   some part of the body, or a part of the body after a line that was not
   the body's was taken for it. *)
Cmd(seq, text) == [seq |-> seq, text |-> text, reading |-> "status"]

Data(for, clean, m, h) == [for |-> for, clean |-> clean, mask |-> m, host |-> h]

Signal(seq, text, data) == [seq |-> seq, text |-> text, data |-> data]

Init ==
  /\ SocketsInit
  /\ host \in Hosts /\ host_resolved = FALSE /\ sa = Nil
  /\ user \in Accounts \cup {Guest} /\ register_user = Guest
  /\ sd = Nil /\ channel = Nil /\ in_source = Nil /\ leaked = {}
  /\ is_connected = FALSE /\ waiting_banner = FALSE
  /\ cmdlist = <<>> /\ next_seq = 1
  /\ str_pool = EmptyPool /\ lookup_pool = EmptyPool
  /\ signals = <<>>
  /\ overlap = FALSE /\ acked = [h \in Hosts |-> 0] /\ answered = 0

------------------------------------------------------------------------------
(* The pools. *)

CleanAll == str_pool' = CleanPool(str_pool) /\ lookup_pool' = CleanPool(lookup_pool)

(* set_auth: answers are kept for one account only. *)
SetAuth(account) ==
  /\ user' = account
  /\ IF account # user THEN CleanAll ELSE UNCHANGED poolVars

(* set_server: the address has to be resolved anew.  The connection, the
   queue and the threads under way are left alone. *)
SetServer(h) ==
  /\ h # host
  /\ host' = h /\ host_resolved' = FALSE
  /\ CleanAll
  /\ signals' = <<>>
  /\ UNCHANGED <<sockVars, connVars, user, register_user, histVars, sa,
                 waiting_banner, cmdlist, next_seq>>

(* The account dialog of the preferences. *)
SetAccount(account) ==
  /\ account # user
  /\ SetAuth(account)
  /\ signals' = <<>>
  /\ UNCHANGED <<sockVars, connVars, host, register_user, histVars, host_resolved, sa,
                 waiting_banner, cmdlist, next_seq>>

PoolOf(text) == IF text.command \in DictCommands THEN lookup_pool ELSE str_pool

(* try_cache finds the command: CMD_PREVIOUS and CMD_NEXT are not cached. *)
InCache(text) ==
  /\ text.command \in DictCommands \cup StrCommands
  /\ IsCached(PoolOf(text), text)

------------------------------------------------------------------------------
(* The connection. *)

(* on_resolved of an address: the socket is created and connected in a
   thread; sd_ is overwritten, whatever it was. *)
OnResolved(address) ==
  /\ sa' = IF host_resolved THEN sa ELSE address
  /\ host_resolved' = TRUE
  /\ \/ /\ sd' = Nil
        /\ UNCHANGED <<net, connecting>>
     \/ \E s \in Descriptors :
          /\ NextDescriptor(s)
          /\ sd' = s
          /\ Opened(s, address)

(* connect(): at once when the address is known to the client or to the
   process, else in a dns thread. *)
Connect ==
  IF host_resolved THEN OnResolved(sa) /\ UNCHANGED resolving
  ELSE IF host \in dns_map THEN OnResolved(host) /\ UNCHANGED resolving
  ELSE StartResolve(host) /\ UNCHANGED <<sa, host_resolved, sd, net, connecting>>

(* Some attempt to connect has started a thread and is not over. *)
AttemptPending == connecting # {} \/ connected # {} \/ \E h \in Hosts : resolving[h] > 0

(* disconnect(): the queue is dropped, the current watch removed and both
   the channel and sd_ closed; n is the state of the streams. *)
Disconnect(n) ==
  /\ cmdlist' = <<>>
  /\ in_source' = Nil /\ channel' = Nil /\ sd' = Nil /\ is_connected' = FALSE
  /\ net' = Closed(n, {channel, sd} \ {Nil})

(* request_command on the queue q: its front is written to the channel.  A
   write to a connection that the peer has closed may fail, and a failed
   write disconnects. *)
RequestCommand(n, q) ==
  \/ /\ cmdlist' = q
     /\ net' = [n EXCEPT ![channel].req = IF n[channel].phase = "up"
                                            THEN Append(@, Head(q).text) ELSE @,
                         ![channel].sent = Append(@, Head(q).text.command)]
     /\ UNCHANGED <<sd, channel, in_source, is_connected>>
  \/ n[channel].phase = "eof" /\ Disconnect(n)

(* The queue q, or CMD_QUIT when it is empty. *)
OrQuit(q) == IF q = <<>> THEN <<Cmd(next_seq, Text("QUIT", Nil))>> ELSE q

Request(n, q) ==
  /\ next_seq' = IF q = <<>> THEN next_seq + 1 ELSE next_seq
  /\ RequestCommand(n, OrQuit(q))

(* What send_commands puts in front of a batch while there is no
   connection: CMD_CLIENT, and CMD_AUTH when an account is configured. *)
Preamble(seq, account) ==
  <<Cmd(seq, Text("CLIENT", Nil))>> \o
  (IF account = Guest THEN <<>> ELSE <<Cmd(seq + 1, Text("AUTH", account))>>)

EnqueueInFront(q, preamble, missed) == preamble \o missed \o q    \* mutant
EnqueueGreetingLast(q, preamble, missed) == q \o missed \o preamble  \* mutant

(* The push_backs of send_commands. *)
Enqueue(q, preamble, missed) == q \o preamble \o missed

(* try_cache for each command of a batch, then send_commands for those it
   did not find, in their order (the dialogs and windows of the program
   always try the cache first; a command the cache never holds is sent).  *)
Submit(batch, account) ==
  LET command(i) == Cmd(next_seq + i - 1, batch[i])
      found      == {i \in 1 .. Len(batch) : InCache(batch[i])}
      preamble   == IF found = 1 .. Len(batch) \/ is_connected THEN <<>>
                    ELSE Preamble(next_seq + Len(batch), account)
      last       == next_seq + Len(batch) + Len(preamble)
  IN  /\ last <= MaxSeq
      /\ next_seq' = last
      /\ \E hit \in Ascending(found, Len(batch)) :
           signals' = [i \in 1 .. Len(hit) |->
                         Signal(0, batch[hit[i]],
                                Cached(PoolOf(batch[hit[i]]), batch[hit[i]]))]
      /\ \E miss \in Ascending((1 .. Len(batch)) \ found, Len(batch)) :
           cmdlist' = Enqueue(cmdlist, preamble, [i \in 1 .. Len(miss) |-> command(miss[i])])
      /\ IF preamble = <<>>
           THEN UNCHANGED <<waiting_banner, sa, host_resolved, sd, net, connecting, resolving,
                            overlap>>
           ELSE /\ waiting_banner' = TRUE /\ Connect
                /\ overlap' = (overlap \/ AttemptPending)
      /\ UNCHANGED <<dns_map, connected, mask, channel, in_source, leaked, is_connected,
                     host, acked, answered>>

(* A lookup, a list of words, the information and mask dialogs. *)
Send(batch) ==
  /\ \A i \in DOMAIN batch : batch[i].command \notin {"REGISTER", "CHANGE_PASSWD"}
  /\ Submit(batch, user)
  /\ UNCHANGED <<user, register_user, poolVars>>

(* The register and change-password dialogs: they log the client out, and
   note which account the answer will be about.                           *)
Register(batch) ==
  /\ Len(batch) = 1 /\ batch[1].command \in {"REGISTER", "CHANGE_PASSWD"}
  /\ SetAuth(Guest)
  /\ register_user' = batch[1].key
  /\ Submit(batch, Guest)

(* The idle callback of a dns thread for host h. *)
ResolveDone(h, ok) ==
  /\ TakeResolved(h, ok)
  /\ IF ok THEN OnResolved(h) ELSE UNCHANGED <<sa, host_resolved, sd, net, connecting>>
  /\ signals' = <<>>
  /\ UNCHANGED <<connected, mask, channel, in_source, leaked, is_connected, configVars,
                 poolVars, histVars, waiting_banner, cmdlist, next_seq>>

(* The idle callback of a connect thread: on_connected is not told which
   descriptor was connected, and takes sd_.  With sd_ = -1 the channel
   cannot be made non-blocking and is given up.                           *)
ConnectDone(result) ==
  /\ result \in connected
  /\ connected' = connected \ {result}
  /\ IF ~result.succeeded
       THEN UNCHANGED <<connVars, waiting_banner>>
       ELSE IF sd = Nil
         THEN /\ channel' = Nil
              /\ UNCHANGED <<sd, in_source, leaked, is_connected, waiting_banner>>
         ELSE /\ channel' = sd /\ is_connected' = TRUE /\ waiting_banner' = TRUE
              /\ in_source' = sd
              /\ leaked' = leaked \cup ({in_source} \ {Nil})
              /\ sd' = sd
  /\ signals' = <<>>
  /\ UNCHANGED <<dns_map, resolving, connecting, net, mask, configVars, poolVars, histVars,
                 host_resolved, sa, cmdlist, next_seq>>

------------------------------------------------------------------------------
(* The parser: what one line or string does to the front of the queue. *)

InBody(c) == c.reading # "status"

(* A status the command survives although the server did not grant it. *)
Excused(c, tok) ==
  \/ c.text.command \in DictCommands /\ tok.code = "DICTMASK_NOTSET"
  \/ c.text.command \in {"GET_DICT_MASK", "MAX_DICT_COUNT"} /\ tok.code = "USER_NOT_REGISTER"

(* The parser returns 0: any status but OK, and every answer to CMD_QUIT. *)
Refused(c, tok) ==
  \/ c.text.command = "QUIT"
  \/ ~InBody(c) /\ tok.code # "OK" /\ ~Excused(c, tok)

(* The parser returns 2 and `reading' is the command's new reading_status.
   A dictionary's or a list's answer absorbs a line that is not its own:
   after a second connection the front command is written again and its
   reading_status is not reset.                                           *)
ReadsOn(c, tok, reading) ==
  /\ c.text.command \in WithBody
  /\ \/ ~InBody(c) /\ tok.code = "OK" /\ reading = "body"
     \/ /\ InBody(c) /\ tok.kind # "body"
        /\ c.text.command \notin StrCommands /\ reading = "dirty"

(* The parser returns 1 without a body: there is none, the status is
   excused, or a status line was taken for the size of an article (more
   than 4M, "dropped for security").                                      *)
EndsAtStatus(c, tok) ==
  \/ c.text.command \in StatusCommands /\ tok.code = "OK"
  \/ ~InBody(c) /\ Excused(c, tok)
  \/ InBody(c) /\ tok.kind # "body" /\ c.text.command \in DictCommands

EndsAtOnce(c, tok) ==                                             \* mutant
  /\ c.text.command \in WithBody
  /\ tok.kind = "body" \/ c.text.command \in StrCommands

(* The parser returns 1 with a body; a string answer is whatever was read. *)
EndsWithBody(c, tok) ==
  /\ InBody(c) /\ c.text.command \in WithBody
  /\ tok.kind = "body" \/ c.text.command \in StrCommands

(* The answer that is emitted, then kept, when command c ends with tok. *)
Answer(c, tok) ==
  Data(tok.for, tok.kind = "body" /\ c.reading # "dirty", tok.mask, net[channel].peer)

EmitsAndSaves(c, tok) ==
  LET data == Answer(c, tok) IN
  /\ signals' = <<Signal(c.seq, c.text, data)>>
  /\ str_pool' = IF c.text.command \in StrCommands
                   THEN SavePool(str_pool, StrPoolSize, c.text, data) ELSE str_pool
  /\ lookup_pool' = IF c.text.command \in DictCommands
                      THEN SavePool(lookup_pool, LookupPoolSize, c.text, data)
                      ELSE lookup_pool
  /\ UNCHANGED <<user, acked>>

OutdateMaskOnly ==                                                \* mutant
  /\ str_pool' = CleanKey(str_pool, Text("GET_DICT_MASK", Nil))
  /\ UNCHANGED lookup_pool

(* A new mask outdates the old one and every lookup. *)
OutdateByMask ==
  /\ str_pool' = CleanKey(str_pool, Text("GET_DICT_MASK", Nil))
  /\ lookup_pool' = CleanPool(lookup_pool)

(* What the end of a command without a body does: an account is registered
   and becomes the client's own, a new mask outdates what is kept, and
   without an account the number of dictionaries is 0.                    *)
EndEffects(c, tok) ==
  CASE c.text.command \in {"REGISTER", "CHANGE_PASSWD"} ->
         SetAuth(register_user) /\ signals' = <<>> /\ UNCHANGED acked
    [] c.text.command = "SET_DICT_MASK" ->
         /\ OutdateByMask
         /\ acked' = [acked EXCEPT ![net[channel].peer] = tok.mask]
         /\ signals' = <<>> /\ UNCHANGED user
    [] c.text.command = "MAX_DICT_COUNT" ->
         EmitsAndSaves(c, [tok EXCEPT !.kind = "body"])
    [] OTHER -> signals' = <<>> /\ UNCHANGED <<user, acked, poolVars>>

(* parse() with a command at the front, after tok was taken from the
   channel; n is the rest of the streams.  An empty queue cannot be parsed
   against: see FrontExists.                                              *)
ParseReply(n, tok) ==
  LET c == Head(cmdlist) IN
  /\ waiting_banner' = waiting_banner
  /\ \/ /\ Refused(c, tok) /\ Disconnect(n)
        /\ signals' = <<>>
        /\ UNCHANGED <<user, poolVars, acked, answered, next_seq>>
     \/ \E reading \in {"body", "dirty"} :
          /\ ReadsOn(c, tok, reading)
          /\ cmdlist' = <<[c EXCEPT !.reading = reading]>> \o Tail(cmdlist)
          /\ net' = n /\ signals' = <<>>
          /\ UNCHANGED <<sd, channel, in_source, is_connected, user, poolVars, acked,
                         answered, next_seq>>
     \/ /\ ~Refused(c, tok)
        /\ \/ EndsAtStatus(c, tok) /\ EndEffects(c, tok)
           \/ EndsWithBody(c, tok) /\ EmitsAndSaves(c, tok)
        /\ answered' = IF c.text.command \in {"CLIENT", "AUTH"} THEN answered ELSE c.seq
        /\ Request(n, Tail(cmdlist))

ParseBannerLeniently(n, tok) ==                                   \* mutant
  /\ waiting_banner' = FALSE
  /\ signals' = <<>>
  /\ UNCHANGED <<user, poolVars, acked, answered>>
  /\ IF tok.code = "HELLO" THEN Request(n, cmdlist)
     ELSE net' = n /\ UNCHANGED <<next_seq, cmdlist, sd, channel, in_source, is_connected>>

(* parse() while the banner is awaited. *)
ParseBanner(n, tok) ==
  /\ waiting_banner' = FALSE
  /\ signals' = <<>>
  /\ UNCHANGED <<user, poolVars, acked, answered>>
  /\ IF tok.code = "HELLO" THEN Request(n, cmdlist)
     ELSE Disconnect(n) /\ UNCHANGED next_seq

untouchedByInput ==
  <<dns_map, resolving, connecting, connected, mask, host, register_user, overlap,
    host_resolved, sa>>

(* on_io_in_event, one line of it. *)
IoIn ==
  /\ channel # Nil
  /\ net[channel].rep # <<>>
  /\ LET tok == Head(net[channel].rep)
         n   == [net EXCEPT ![channel].rep = Tail(@)]
     IN  IF waiting_banner THEN ParseBanner(n, tok) ELSE ParseReply(n, tok)
  /\ UNCHANGED <<untouchedByInput, leaked>>

(* on_io_in_event at the end of the stream. *)
IoEof ==
  /\ channel # Nil
  /\ net[channel].phase = "eof" /\ net[channel].rep = <<>>
  /\ Disconnect(net)
  /\ signals' = <<>>
  /\ UNCHANGED <<untouchedByInput, leaked, configVars, poolVars, acked, answered,
                 waiting_banner, next_seq>>

(* on_io_in_event with G_IO_ERR, on any watch that is still attached: the
   current connection is closed, whichever descriptor the watch was for. *)
IoErr(w) ==
  /\ w \in {in_source} \cup leaked /\ w # Nil
  /\ net[w].phase \in {"reset", "failed"}
  /\ channel # Nil
  /\ Disconnect(net)
  /\ leaked' = leaked \ {w}
  /\ signals' = <<>>
  /\ UNCHANGED <<untouchedByInput, configVars, poolVars, acked, answered,
                 waiting_banner, next_seq>>

(* on_io_in_event on an attached watch when there is no channel: the watch
   is removed.                                                            *)
IoStale(w) ==
  /\ channel = Nil
  /\ w \in {in_source} \cup leaked /\ w # Nil
  /\ net[w].phase \in {"reset", "failed", "eof"} \/ net[w].rep # <<>>
  /\ in_source' = IF in_source = w THEN Nil ELSE in_source
  /\ leaked' = leaked \ {w}
  /\ signals' = <<>>
  /\ UNCHANGED <<sockVars, sd, channel, is_connected, configVars, poolVars, histVars,
                 host_resolved, sa, waiting_banner, cmdlist, next_seq>>

------------------------------------------------------------------------------
clientVars == <<connVars, configVars, poolVars, histVars, host_resolved, sa,
                waiting_banner, cmdlist, next_seq, signals>>

Environment(s) ==
  /\ \/ \E ok \in BOOLEAN : ConnectThread(s, ok)
     \/ Greet(s) \/ Serve(s) \/ PeerCloses(s) \/ PeerResets(s)
  /\ UNCHANGED clientVars

Next ==
  \/ \E batch \in Batches : Send(batch) \/ Register(batch)
  \/ \E h \in Hosts : SetServer(h)
  \/ \E account \in Accounts \cup {Guest} : SetAccount(account)
  \/ \E h \in Hosts, ok \in BOOLEAN : ResolveDone(h, ok)
  \/ \E result \in connected : ConnectDone(result)
  \/ IoIn \/ IoEof
  \/ \E w \in Descriptors : IoErr(w) \/ IoStale(w)
  \/ \E s \in Descriptors : Environment(s)

Spec == Init /\ [][Next]_vars

(* The main loop dispatches what is ready, threads and the network come to
   an end, and the server greets, and answers what it is asked, unless it
   or the network closes the connection.  There is no timeout anywhere in
   the client, so nothing weaker would bring it on.                       *)
ServerAnswers(s) == (Greet(s) \/ Serve(s)) /\ UNCHANGED clientVars
ConnectReturns(s) == (\E ok \in BOOLEAN : ConnectThread(s, ok)) /\ UNCHANGED clientVars

Fairness ==
  /\ WF_vars(IoIn) /\ WF_vars(IoEof)
  /\ \A s \in Descriptors :
       /\ WF_vars(IoErr(s))
       /\ WF_vars(ServerAnswers(s)) /\ WF_vars(ConnectReturns(s))
       /\ WF_vars(\E ok \in BOOLEAN : ConnectDone([sd |-> s, succeeded |-> ok]))

FairSpec == Spec /\ Fairness

------------------------------------------------------------------------------
(* Properties. *)

(* Every variable holds what the code's declaration lets it hold. *)
TypeOK ==
  /\ channel \in Descriptors \cup {Nil} /\ sd \in Descriptors \cup {Nil}
  /\ in_source \in Descriptors \cup {Nil} /\ leaked \subseteq Descriptors
  /\ is_connected \in BOOLEAN /\ waiting_banner \in BOOLEAN /\ host_resolved \in BOOLEAN
  /\ host \in Hosts /\ sa \in Hosts \cup {Nil} /\ user \in Accounts \cup {Guest}
  /\ next_seq \in Nat \ {0}
  /\ DOMAIN str_pool.slot \subseteq Slots(StrPoolSize)
  /\ DOMAIN lookup_pool.slot \subseteq Slots(LookupPoolSize)

(* parse() takes the front of cmdlist, deletes it and writes the next one.
   As long as attempts to connect did not overlap, whatever is under way on
   the channel after the banner, the request or what is left of the reply,
   is that of the front of the queue, and the queue is not empty.         *)
OutstandingIsFront ==
  channel # Nil /\ ~waiting_banner =>
    /\ cmdlist # <<>>
    /\ ~overlap /\ net[channel].phase = "up" =>
         LET c == Head(cmdlist) IN
         \/ net[channel].req = <<c.text>> /\ net[channel].rep = <<>> /\ ~InBody(c)
         \/ /\ net[channel].req = <<>> /\ net[channel].rep # <<>>
            /\ \A i \in DOMAIN net[channel].rep : net[channel].rep[i].for = c.text
            /\ InBody(c) <=> net[channel].rep[1].kind = "body"

PoolEntries == {str_pool.slot[i] : i \in DOMAIN str_pool.slot}
               \cup {lookup_pool.slot[i] : i \in DOMAIN lookup_pool.slot}

(* An answer is only ever emitted for, and kept under, the command it is
   the answer to, whatever connections come and go between the two.       *)
AnswersMatch ==
  /\ \A e \in PoolEntries : e.data.for = e.key
  /\ \A i \in DOMAIN signals : signals[i].data.for = signals[i].text

(* And it is the body of that answer: no status line is taken for it unless
   attempts to connect overlapped.                                        *)
AnswersAreBodies ==
  ~overlap =>
    /\ \A e \in PoolEntries : e.data.clean
    /\ \A i \in DOMAIN signals : signals[i].data.clean

(* The answers that a dictionary mask has a say in. *)
OfMask(text) == text.command \in DictCommands \/ text = Text("GET_DICT_MASK", Nil)

(* Once the server has confirmed a new dictionary mask no answer is kept
   that was computed with an older one.                                   *)
CacheNotOlderThanMask ==
  \A e \in PoolEntries : OfMask(e.key) => e.data.mask >= acked[e.data.host]

(* The first request on a connection is CMD_CLIENT, and CMD_AUTH comes
   right after a CMD_CLIENT, unless attempts to connect overlapped.  The
   queue may hold what earlier attempts that failed left behind.          *)
HandshakeFirst ==
  ~overlap =>
    \A s \in Descriptors : \A i \in DOMAIN net[s].sent :
      /\ i = 1 => net[s].sent[i] = "CLIENT"
      /\ net[s].sent[i] = "AUTH" => i > 1 /\ net[s].sent[i - 1] = "CLIENT"

(* The server's answers are handed on in the order the commands were made. *)
AnswersInOrder == [][answered' # answered => answered' > answered]_vars

(* A channel does not stay open for ever, unless attempts to connect
   overlapped: it ends with CMD_QUIT, a refusal, or an error.             *)
ConnectionEnds == (channel # Nil /\ ~overlap) ~> (channel = Nil \/ overlap)

------------------------------------------------------------------------------
(* The client implements CommandQueue. *)

(* What the client makes for itself. *)
Own(c) == c.text.command \in {"CLIENT", "AUTH", "QUIT"}

(* A queue as the windows see it: their own commands, in order. *)
AddIfTheirs(seen, c) == IF Own(c) THEN seen ELSE Append(seen, [seq |-> c.seq, text |-> c.text])

Theirs(q) ==
  LET theirs[n \in 0 .. Len(q)] == IF n = 0 THEN <<>> ELSE AddIfTheirs(theirs[n - 1], q[n])
  IN  theirs[Len(q)]

AnswersAbout(text) == [for : {text}, clean : BOOLEAN, mask : 0 .. MaxMask, host : Hosts]

Contract == INSTANCE CommandQueue
  WITH Offers <- Batches, AnswersTo <- AnswersAbout, Seqs <- Nat,
       waiting <- Theirs(cmdlist), number <- next_seq, kept <- PoolEntries, emitted <- signals

(* Every step of the client is a step of the contract or none of it:
   whatever becomes of connections, a window's command is answered once, in
   its turn, with its own answer, or dropped with all that wait.           *)
KeepsContract == Contract!QueueSpec
==============================================================================
