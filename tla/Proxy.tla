-------------------------------- MODULE Proxy --------------------------------
(* A connection made through a proxy (proxy.c) and the raw, rlogin, Telnet or  *)
(* SSH backend above it: whether a proxy is used, the negotiation of each kind *)
(* of proxy, fed by a socket that delivers any amount at a time, the data that *)
(* waits on both sides until proxy_activate hands it over, and the event that  *)
(* closes the sub-socket (winnet.c), which first delivers what has arrived.    *)
EXTENDS Integers, Sequences, SequencesExt

CONSTANTS
    MaxData,    \* bound of the model: blocks the server sends through the proxy
    MaxWrites   \* bound of the model: blocks the backend sends

\* Bound of the model: a block that is delivered without end is counted this often.
MaxCopies == 3

VARIABLES
    how,        \* cfg and the destination: what the connection was made with
    pstate,     \* p->state: "new", 1 .. 7 as "s1" .. "s7", "active"
    link,       \* the sub-socket: "open", "closing" (FD_CLOSE is delivering), "closed"
    subFrozen, pfreeze, \* the sub-socket is frozen; p->freeze
    pin, pout, poob,    \* pending_input_data, pending_output_data, pending_oob_output_data
    feed, wire,         \* from the proxy server, to it
    served,             \* requests the proxy server has answered
    got,                \* what the backend received
    writes, sentData,   \* blocks written by the backend, sent by the server
    fate                \* "fine", or the undefined behaviour that was met

buffers == <<pin, pout, poob>>
vars == <<how, pstate, link, subFrozen, pfreeze, buffers, feed, wire, served, got,
          writes, sentData, fate>>

Tok(t) == [t |-> t, n |-> 0]
Data(n) == [t |-> "data", n |-> n]
Request(r) == [t |-> "request", r |-> r]
IsData(x) == x.t = "data"

-----------------------------------------------------------------------------
(* Names are sequences of letters; "*" is the wildcard of the exclude list. *)
Local == <<"l">>
Hosts == {[name |-> Local, ip |-> <<"1">>, ipLocal |-> TRUE],
          [name |-> <<"a", "b">>, ip |-> <<"2", "3">>, ipLocal |-> FALSE],
          [name |-> <<"a", "c">>, ip |-> <<"2", "4">>, ipLocal |-> FALSE]}
ExcludeLists == {<<>>, <<<<"a", "*">>>>, <<<<"*", "b">>>>, <<<<"2", "3">>>>}

\* One entry of the exclude list against a name: without a wildcard, too, only
\* the length of the entry is compared.
Matches(entry, name) ==
    IF Head(entry) = "*" THEN IsSuffix(Tail(entry), name)
    ELSE IF Last(entry) = "*" THEN IsPrefix(Front(entry), name)
    ELSE IsPrefix(entry, name)

\* proxy_for_destination; resolved says whether addr is an address: that of an
\* unresolved name is the name itself, and a NULL addr is not looked at.
ForDestination(cfg, host, addr) ==
    /\ cfg.evenLocal \/ (host.name # Local /\ ~(addr = "ipv4" /\ host.ipLocal))
    /\ \A i \in DOMAIN cfg.exclude :
         /\ ~Matches(cfg.exclude[i], host.name)
         /\ ~(addr = "ipv4" /\ Matches(cfg.exclude[i], host.ip))

\* do_proxy_dns and name_lookup: what kind of address the backend gets.
NameLookup(cfg, host) ==
    LET remote == cfg.dns = "force on"
                  \/ (cfg.dns = "auto" /\ cfg.method \notin {"none", "socks4", "socks5"})
    IN  IF cfg.method # "none" /\ remote /\ ForDestination(cfg, host, "null") THEN "name" ELSE "ipv4"

Methods == {"http", "socks4", "socks5", "telnet"}
Configs == [method: Methods \cup {"none"}, dns: {"force on", "auto"}, evenLocal: BOOLEAN,
            exclude: ExcludeLists, creds: BOOLEAN]

\* new_connection: the direct socket, or a Proxy_Socket whose negotiation begins.
Route(cfg, host, addr) ==
    IF cfg.method # "none" /\ ForDestination(cfg, host, addr) THEN cfg.method ELSE "direct"

\* What the negotiation sends first.
FirstRequest(method) == IF method = "socks5" THEN "methods" ELSE "connect"

Init ==
    /\ \E cfg \in Configs, host \in Hosts, b \in {"raw", "ssh"} :
         LET addr == NameLookup(cfg, host) IN
         how = [method |-> Route(cfg, host, addr), creds |-> cfg.creds, addr |-> addr, backend |-> b]
    /\ pstate = (IF how.method = "direct" THEN "active" ELSE "s1")
    /\ wire = (IF how.method = "direct" THEN <<>> ELSE <<Request(FirstRequest(how.method))>>)
    /\ link = "open" /\ subFrozen = FALSE /\ pfreeze = FALSE
    /\ pin = <<>> /\ pout = <<>> /\ poob = <<>> /\ feed = <<>> /\ served = 0
    /\ got = <<>> /\ writes = 0 /\ sentData = 0 /\ fate = "fine"

Up == link = "open" /\ fate = "fine"
-----------------------------------------------------------------------------
(* Negotiation: what each state makes of the buffered input.  A result is     *)
(* the next state, the input left, and what is sent.                          *)
Stay(in) == [to |-> pstate, in |-> in, send |-> <<>>]
Fail(in) == [to |-> "failed", in |-> in, send |-> <<>>]
Go(s, in, send) == [to |-> s, in |-> in, send |-> send]
Drop(n, in) == SubSeq(in, n + 1, Len(in))

\* get_line_end on lines: an empty line is seen at once, any other only when
\* two characters of what follows are there (continued lines are left out).
LineSeen(in) == in # <<>> /\ (Head(in).t \in {"blank", "lf"} \/ (Len(in) > 1 /\ in[2].t # "lf") \/ Len(in) > 2)

\* The headers of an HTTP reply: only an empty line of two characters ends them.
HttpHeaders(in) ==
    LET Passed(i) == LineSeen(Drop(i, in)) /\ Drop(i, in)[1].t \notin {"blank", "lf"}
        rest == Drop(CHOOSE i \in 0 .. Len(in) : ~Passed(i) /\ \A j \in 0 .. i - 1 : Passed(j), in)
    IN  IF LineSeen(rest) /\ Head(rest).t = "blank" THEN Go("active", Tail(rest), <<>>)
        ELSE Go("s2", rest, <<>>)

HttpReply(in) ==
    IF pstate = "s2" THEN HttpHeaders(in)
    ELSE IF ~LineSeen(in) THEN Stay(in)
    ELSE IF Head(in).t = "2xx" THEN HttpHeaders(Tail(in))
    ELSE Fail(in)

\* The reply of SOCKS 4 counts when all of its eight bytes are there.
Socks4Reply(in) ==
    IF Len(in) < 2 THEN Stay(in)
    ELSE IF Head(in).t = "granted" THEN Go("active", Drop(2, in), <<>>)
    ELSE Fail(in)

\* Sending the request of SOCKS 5: state 2 is left at once.
Socks5Connect(in) == Go("s3", in, <<Request("connect")>>)

\* The first reply chooses a method of authentication.
Socks5Method(in) ==
    IF Len(in) < 2 THEN Stay(in)
    ELSE IF Head(in).t # "v5" THEN Fail(in)
    ELSE CASE in[2].t = "none" -> Socks5Connect(Drop(2, in))
           [] in[2].t = "password" /\ how.creds -> Go("s7", Drop(2, in), <<Request("password")>>)
           [] OTHER -> Fail(Drop(2, in))

\* The answer to the password.
Socks5Password(in) ==
    IF Len(in) < 2 THEN Stay(in)
    ELSE IF Head(in).t = "v1" /\ in[2].t = "ok" THEN Socks5Connect(Drop(2, in))
    ELSE Fail(in)

\* Mutant: the rest of the reply is taken for data.
Socks5ReplyHead(in) ==
    IF in = <<>> THEN Stay(in)
    ELSE IF Head(in).t # "granted" THEN Fail(in)
    ELSE Go("active", Tail(in), <<>>)

\* The last reply: five bytes tell whether it was granted and how long it is.
Socks5Reply(in) ==
    IF in = <<>> THEN Stay(in)
    ELSE IF Head(in).t # "granted" THEN Fail(in)
    ELSE IF Len(in) < 2 THEN Stay(in)
    ELSE Go("active", Drop(2, in), <<>>)

Negotiate(in) ==
    CASE how.method = "http" -> HttpReply(in)
      [] how.method = "socks4" -> Socks4Reply(in)
      [] how.method = "socks5" /\ pstate = "s1" -> Socks5Method(in)
      [] how.method = "socks5" /\ pstate = "s7" -> Socks5Password(in)
      [] how.method = "socks5" /\ pstate = "s3" -> Socks5Reply(in)
      [] how.method = "telnet" -> Go("active", in, <<>>)

-----------------------------------------------------------------------------
(* The backend.  "raw" stands for raw, rlogin and Telnet, whose c_write calls *)
(* sk_set_frozen(s, 0) after all that it prints - from_backend never reports a *)
(* backlog - and which print nothing of a block of negotiation or of the first *)
(* NUL.  SSH freezes or not, and may close; it does not thaw from within.      *)
Outcome(seen, used, freeze, sub, end) ==
    [seen |-> seen, used |-> used, freeze |-> freeze, sub |-> sub, fate |-> end]

\* Mutant: the block whose delivery freezes the socket is not consumed.
HandoverUnconsumed(in) ==
    {Outcome(Len(in), Len(in), FALSE, FALSE, "fine")}
      \cup IF how.backend = "ssh"
             THEN {Outcome(k, k - 1, TRUE, TRUE, "fine") : k \in 1 .. Len(in)}
             ELSE {Outcome(k, k - 1, FALSE, TRUE, "recursion") : k \in 1 .. Len(in)}

\* sk_proxy_set_frozen(0) while there is input: a block is delivered (seen), and
\* consumed (used) when plug_receive has returned, until one freezes the socket.
\* In a backend that thaws from within, the loop starts over with the same block;
\* one that closes leaves a freed structure to the loop.
Handover(in) ==
    {Outcome(Len(in), Len(in), FALSE, FALSE, "fine")}
      \cup IF how.backend = "ssh"
             THEN {Outcome(k, k, TRUE, TRUE, "fine") : k \in 1 .. Len(in)}
                    \cup {Outcome(k, k, FALSE, TRUE, "freed") : k \in 1 .. Len(in)}
             ELSE {Outcome(k, k - 1, FALSE, TRUE, "recursion") : k \in 1 .. Len(in)}

\* The end of proxy_activate, for the input that is left: the sub-socket stays
\* frozen until the backend has taken it.
HandOver(in) ==
    IF pfreeze
      THEN pin' = in /\ subFrozen' = TRUE /\ UNCHANGED <<got, pfreeze, fate>>
      ELSE \E o \in Handover(in) :
             /\ got' = got \o SubSeq(in, 1, o.seen) /\ pin' = Drop(o.used, in)
             /\ pfreeze' = o.freeze /\ fate' = o.fate /\ subFrozen' = o.sub

\* The loop that has started over: the backend is given the same block, thaws the
\* socket and is given it again; nothing is consumed, and nothing else happens.
Again ==
    /\ fate = "recursion" /\ Len(got) < MaxData + MaxCopies
    /\ got' = Append(got, Head(pin))
    /\ UNCHANGED <<how, pstate, link, subFrozen, pfreeze, buffers, feed, wire, served,
                   writes, sentData, fate>>

\* What closing the socket leaves to the caller: FD_READ returns, while the loop of
\* FD_CLOSE reads again from a structure that has been freed.
AfterClose == IF link = "open" THEN "fine" ELSE "freed"

\* plug_proxy_receive: FD_READ brings the next blocks, unless the sub-socket is
\* frozen; FD_CLOSE reads what is there, frozen or not.
Receive(k) ==
    /\ fate = "fine" /\ k \in 1 .. Len(feed)
    /\ (link = "open" /\ ~subFrozen) \/ link = "closing"
    /\ feed' = Drop(k, feed)
    /\ LET block == SubSeq(feed, 1, k)
           r == Negotiate(pin \o block)
       IN  IF pstate = "active"
             THEN /\ got' = got \o block
                  /\ \/ link' = link /\ fate' = fate
                        /\ subFrozen' \in (IF how.backend = "ssh" THEN {subFrozen, TRUE} ELSE {FALSE})
                     \/ how.backend = "ssh" /\ link' = "closed" /\ fate' = AfterClose /\ UNCHANGED subFrozen
                  /\ UNCHANGED <<pstate, pfreeze, buffers, wire>>
             ELSE IF r.to = "failed"
             THEN link' = "closed" /\ fate' = AfterClose /\ pin' = r.in
                  /\ UNCHANGED <<pstate, subFrozen, pfreeze, pout, poob, wire, got>>
             ELSE IF r.to = "active"
             THEN /\ pstate' = "active" /\ HandOver(r.in)
                  /\ wire' = wire \o poob \o pout /\ pout' = <<>> /\ poob' = <<>>
                  /\ UNCHANGED link
             ELSE /\ pstate' = r.to /\ pin' = r.in /\ wire' = wire \o r.send
                  /\ UNCHANGED <<link, subFrozen, pfreeze, pout, poob, got, fate>>
    /\ UNCHANGED <<how, served, writes, sentData>>

\* FD_CLOSE: the peer has closed, and the loop that reads what has arrived begins.
CloseArrives ==
    /\ Up /\ link' = "closing"
    /\ UNCHANGED <<how, pstate, subFrozen, pfreeze, buffers, feed, wire, served, got,
                   writes, sentData, fate>>

\* plug_proxy_closing, at once on an error and by FD_CLOSE when nothing is left to
\* read; passed on by every method.  The backend closes its socket, whatever input
\* is still waiting.
Closing ==
    /\ fate = "fine" /\ link # "closed" /\ link' = "closed"
    /\ UNCHANGED <<how, pstate, subFrozen, pfreeze, buffers, feed, wire, served, got,
                   writes, sentData, fate>>

\* The backend sends: sk_proxy_write.
Write ==
    /\ Up /\ writes < MaxWrites /\ writes' = writes + 1
    /\ IF pstate = "active"
         THEN wire' = Append(wire, Data(writes + 1)) /\ UNCHANGED pout
         ELSE pout' = Append(pout, Data(writes + 1)) /\ UNCHANGED wire
    /\ UNCHANGED <<how, pstate, link, subFrozen, pfreeze, pin, poob, feed, served, got,
                   sentData, fate>>

\* sk_proxy_write_oob: what waits is dropped.
WriteOob ==
    /\ Up /\ writes < MaxWrites /\ writes' = writes + 1
    /\ IF pstate = "active"
         THEN wire' = Append(wire, Data(writes + 1)) /\ UNCHANGED <<pout, poob>>
         ELSE pout' = <<>> /\ poob' = <<Data(writes + 1)>> /\ UNCHANGED wire
    /\ UNCHANGED <<how, pstate, link, subFrozen, pfreeze, pin, feed, served, got,
                   sentData, fate>>

\* Mutant: the sub-socket is left frozen once the input has been taken.
UnfreezeNot ==
    /\ Up /\ pstate = "active" /\ pin # <<>>
    /\ \E o \in Handover(pin) :
         /\ got' = got \o SubSeq(pin, 1, o.seen) /\ pin' = Drop(o.used, pin)
         /\ pfreeze' = o.freeze /\ fate' = o.fate /\ subFrozen' = TRUE
    /\ UNCHANGED <<how, pstate, link, pout, poob, feed, wire, served, writes, sentData>>

\* What SSH-1 froze for has been taken, and it thaws: sk_proxy_set_frozen(0).
Unfreeze ==
    /\ Up
    /\ IF pstate # "active" THEN pfreeze /\ pfreeze' = FALSE /\ UNCHANGED <<pin, got, subFrozen, fate>>
       ELSE /\ subFrozen
            /\ \E o \in Handover(pin) :
                 /\ got' = got \o SubSeq(pin, 1, o.seen) /\ pin' = Drop(o.used, pin)
                 /\ pfreeze' = (IF pin = <<>> THEN pfreeze ELSE o.freeze)
                 /\ fate' = o.fate /\ subFrozen' = o.sub
    /\ UNCHANGED <<how, pstate, link, pout, poob, feed, wire, served, writes, sentData>>

-----------------------------------------------------------------------------
(* The proxy server: it answers each request once, and passes on data once    *)
(* it has granted one.                                                        *)
Granted == how.method = "direct" \/ (served > 0 /\ wire[served] = Request("connect"))

Toks(s) == [i \in DOMAIN s |-> Tok(s[i])]
Replies(r) ==
    CASE how.method = "http" -> {<<"2xx", "header", "blank">>, <<"2xx", "blank">>, <<"2xx", "lf">>, <<"4xx", "blank">>}
      [] how.method = "socks4" -> {<<"granted", "rest">>, <<"rejected", "rest">>}
      [] how.method = "telnet" -> {<<>>}
      [] r = "methods" -> {<<"v5", m>> : m \in {"none", "password", "gssapi", "chap", "refused"}}
      [] r = "password" -> {<<"v1", "ok">>, <<"v1", "no">>}
      [] OTHER -> {<<"granted", "rest">>, <<"rejected", "rest">>}

ServerReplies ==
    /\ link = "open" /\ served < Len(wire) /\ ~IsData(wire[served + 1]) /\ served' = served + 1
    /\ \E r \in Replies(wire[served + 1].r) : feed' = feed \o Toks(r)
    /\ UNCHANGED <<how, pstate, link, subFrozen, pfreeze, buffers, wire, got, writes, sentData, fate>>

Refused == \E x \in ToSet(feed \o pin) : x.t \in {"rejected", "4xx"}
ServerSends ==
    /\ link = "open" /\ Granted /\ ~Refused /\ sentData < MaxData
    /\ sentData' = sentData + 1 /\ feed' = Append(feed, Data(sentData + 1))
    /\ UNCHANGED <<how, pstate, link, subFrozen, pfreeze, buffers, wire, served, got, writes, fate>>

Next ==
    \/ \E k \in 1 .. MaxData + 3 : Receive(k)
    \/ Again \/ CloseArrives \/ Closing
    \/ Write \/ WriteOob \/ Unfreeze \/ ServerReplies \/ ServerSends

\* What arrives is read, what SSH-1 froze for is taken, and the server answers.
Fairness ==
    /\ WF_vars(\E k \in 1 .. MaxData + 3 : Receive(k))
    /\ SF_vars(Unfreeze) /\ WF_vars(ServerReplies)

Spec == Init /\ [][Next]_vars /\ Fairness
-----------------------------------------------------------------------------
TypeOK ==
    /\ pstate \in {"s1", "s2", "s3", "s7", "active"} /\ link \in {"open", "closing", "closed"}
    /\ subFrozen \in BOOLEAN /\ pfreeze \in BOOLEAN
    /\ served \in 0 .. 3 /\ writes \in 0 .. MaxWrites /\ sentData \in 0 .. MaxData
    /\ fate \in {"fine", "freed", "recursion"}

\* What the backend receives is what the server sent through the proxy, in order,
\* each block once and nothing of the negotiation, however it is cut up and however
\* often the backend freezes the socket - with the two exceptions the code makes: a
\* backend that thaws the socket from within the delivery of a block gets that block
\* over and over, and what arrives with the close of the connection overtakes the
\* blocks that still wait in a frozen socket, which are lost then.
DeliveredInOrder ==
    \E m \in 0 .. Len(got) :
      /\ \A i \in 1 .. m : got[i] = Data(i)
      /\ \/ m = Len(got)
         \/ /\ fate = "recursion" /\ pin # <<>> /\ Head(pin) = Data(m)
            /\ \A i \in m + 1 .. Len(got) : got[i] = Data(m)
         \/ /\ link # "open" /\ \A i \in DOMAIN pin : pin[i] = Data(m + i)
            /\ \A i \in m + 1 .. Len(got) : got[i] = Data(Len(pin) + i)

\* The server gets what the backend wrote in order, and only after it has granted
\* the connection (a telnet proxy grants by saying anything).
NothingTooSoon ==
    /\ \A i \in DOMAIN wire : IsData(wire[i]) =>
         /\ Granted
         /\ \A j \in DOMAIN wire : j > i => IsData(wire[j]) /\ wire[j].n > wire[i].n

\* A name that was not resolved is only ever given to a proxy: the direct socket
\* asserts that it has an address.
NamesGoToProxies == how.addr = "name" => how.method # "direct"

\* An HTTP proxy that ends its lines in LF alone is never understood.
BareLf == how.method = "http" /\ \E x \in ToSet(feed \o pin) : x.t = "lf"

\* What the server sends through a granted connection reaches the backend.
Delivers == (sentData > Len(got)) ~> (sentData = Len(got) \/ ~Up \/ BareLf)
=============================================================================
