----------------------------- MODULE WebServer -----------------------------
(***************************************************************************)
(* The event driven web server of src/OpenBSD/Server/main.c.               *)
(*                                                                         *)
(* One libevent loop calls webserver_accept, webserver_read and            *)
(* webserver_write, one at a time, for whichever event is ready.  A client *)
(* sends a sequence of tokens; a read takes any prefix of what has         *)
(* arrived, so a request may be cut anywhere.  The response buffer holds   *)
(* units, each a fixed number of bytes, and a write takes at most          *)
(* PacketSize of them.                                                     *)
(***************************************************************************)
EXTENDS Naturals, SequencesExt, FiniteSets

CONSTANTS
  Conns,       \* the clients' connections
  Requests,    \* what each client may send: sets of sequences of tokens
  Files,       \* the files of the directory: path -> units of its body
  Unreadable,  \* the files the server may not read
  Invalid,     \* the paths check_invalid_filepath refuses
  Fds,         \* descriptors left for connections and files
  PacketSize   \* units that MSG_BUFF_LEN bytes hold

Methods   == {"GET", "HEAD", "POST"}
EndTokens == {"end", "keep"}     \* end of headers; "keep" asks for keep-alive
UrlTokens == {"p", "q", "r", "s"}
Tokens    == Methods \cup EndTokens \cup UrlTokens \cup {"bad"}

ASSUME ServerAssumption ==
  /\ \A c \in Conns : Requests[c] \subseteq Seq(Tokens)
  /\ DOMAIN Files \subseteq Seq(UrlTokens)
  /\ \A p \in DOMAIN Files : Files[p] \in Nat
  /\ Unreadable \subseteq DOMAIN Files
  /\ Fds \in Nat \ {0} /\ PacketSize \in Nat \ {0}

VARIABLES
  server,    \* "starting", "up" or "down"
  conn,      \* the life of each connection
  ask,       \* the tokens the client sends
  inq,       \* those that no read has taken
  eof,       \* what ends the input: "no", "fin" or "reset"
  parser,    \* the http parser of the connection and its request_details
  res,       \* res_buf
  sent,      \* history: the units written to the socket
  rdEv, wrEv \* the connections whose rd_ev, wr_ev are pending

vars == <<server, conn, ask, inq, eof, parser, res, sent, rdEv, wrEv>>

NoMethod == "-"
NewParser == [phase |-> "method", verb |-> NoMethod, mark |-> <<>>,
              method |-> NoMethod, path |-> <<>>, complete |-> FALSE]

-----------------------------------------------------------------------------
(* The parser library, as far as its callbacks go.                         *)

\* webserver_url_callback: the last call decides method and path.
UrlCallback(s) ==
  IF s.mark = <<>> THEN s
  ELSE [s EXCEPT !.method = s.verb, !.path = s.mark, !.mark = <<>>,
                 !.phase = IF s.verb \in {"GET", "HEAD"} THEN @ ELSE "error"]

\* webserver_headers_complete_callback, and the state after the message.
HeadersCompleteForgotten(s, t) ==
  IF s.phase = "error" THEN s
  ELSE [s EXCEPT !.phase = IF t = "keep" THEN "method" ELSE "dead"]
HeadersComplete(s, t) ==
  IF s.phase = "error" THEN s
  ELSE [s EXCEPT !.complete = TRUE,
                 !.phase = IF t = "keep" THEN "method" ELSE "dead"]

Feed(s, t) ==
  CASE s.phase = "method" /\ t \in Methods ->
         [s EXCEPT !.phase = "spaces", !.verb = t]
    [] s.phase \in {"spaces", "url"} /\ t \in UrlTokens ->
         [s EXCEPT !.phase = "url", !.mark = Append(@, t)]
    [] s.phase = "url" /\ t \in EndTokens ->
         HeadersComplete(UrlCallback(s), t)
    [] OTHER -> [s EXCEPT !.phase = "error"]

\* http_parser_execute over one read: the states after each of its tokens.
\* The part of a URL that the read holds is handed to the callback at the end
\* of the read, whole or not.
States(s, input) ==
  LET state[n \in 0..Len(input)] ==
        IF n = 0 THEN [s EXCEPT !.mark = <<>>] ELSE Feed(state[n - 1], input[n])
  IN  state
Execute(s, input) ==
  LET end == States(s, input)[Len(input)]
  IN  IF end.phase = "url" THEN UrlCallback(end) ELSE end

-----------------------------------------------------------------------------
(* Responses: unit i of the n units of a response.                         *)

\* Only a file's own response depends on the path.
ResponseNamed(code, path, n) ==
  [i \in 1..n |-> [code |-> code, path |-> path, i |-> i, n |-> n]]
Response(code, path, n) ==
  LET file == IF code = 200 THEN path ELSE <<>>
  IN  [i \in 1..n |-> [code |-> code, path |-> file, i |-> i, n |-> n]]

ErrResponse(code) == Response(code, <<>>, 1)

\* The code build_response_message settles on.
CodeFor(path) ==
  IF path \in Invalid \/ path \notin DOMAIN Files THEN 404
  ELSE IF path \in Unreadable THEN 403 ELSE 200

BodyOf(path) == IF CodeFor(path) = 200 THEN Files[path] ELSE 0

Open == {c \in Conns : conn[c] = "open"}

\* fopen needs one more descriptor than the open connections have.
NoDescriptor == Cardinality(Open) >= Fds

Init ==
  /\ server = "starting"
  /\ conn = [c \in Conns |-> "out"]
  /\ ask = [c \in Conns |-> <<>>]
  /\ inq = [c \in Conns |-> <<>>]
  /\ eof = [c \in Conns |-> "no"]
  /\ parser = [c \in Conns |-> NewParser]
  /\ res = [c \in Conns |-> <<>>]
  /\ sent = [c \in Conns |-> <<>>]
  /\ rdEv = {} /\ wrEv = {}

\* webserver_init with the address families that could be bound: both are
\* passed to listen, so one that is missing ends the program.
Start ==
  /\ server = "starting"
  /\ \E bound \in SUBSET {"inet", "inet6"} :
       server' = IF bound = {"inet", "inet6"} THEN "up" ELSE "down"
  /\ UNCHANGED <<conn, ask, inq, eof, parser, res, sent, rdEv, wrEv>>

-----------------------------------------------------------------------------
(* The clients.                                                            *)

Connect(c) ==
  /\ server = "up" /\ conn[c] = "out"
  /\ conn' = [conn EXCEPT ![c] = "backlog"]
  /\ \E r \in Requests[c] : /\ ask' = [ask EXCEPT ![c] = r]
                         /\ inq' = [inq EXCEPT ![c] = r]
  /\ UNCHANGED <<server, eof, parser, res, sent, rdEv, wrEv>>

\* The client shuts its sending side, or resets the connection.
Finish(c) ==
  /\ conn[c] = "open" /\ eof[c] = "no"
  /\ \/ eof' = [eof EXCEPT ![c] = "fin"] /\ UNCHANGED inq
     \/ /\ eof' = [eof EXCEPT ![c] = "reset"]
        /\ inq' = [inq EXCEPT ![c] = <<>>]
  /\ UNCHANGED <<server, conn, ask, parser, res, sent, rdEv, wrEv>>

-----------------------------------------------------------------------------
(* webserver_accept.                                                       *)

Accept(c) ==
  /\ server = "up" /\ conn[c] = "backlog" /\ ~NoDescriptor
  /\ conn' = [conn EXCEPT ![c] = "open"]
  /\ rdEv' = rdEv \cup {c}
  /\ UNCHANGED <<server, ask, inq, eof, parser, res, sent, wrEv>>

\* ECONNABORTED, or no memory for the stream: the client is let go.
AcceptDrops(c) ==
  /\ server = "up" /\ conn[c] = "backlog"
  /\ conn' = [conn EXCEPT ![c] = "dropped"]
  /\ UNCHANGED <<server, ask, inq, eof, parser, res, sent, rdEv, wrEv>>

\* Any other error, EMFILE here, ends the program.
AcceptFails(c) ==
  /\ server = "up" /\ conn[c] = "backlog" /\ NoDescriptor
  /\ server' = "down"
  /\ UNCHANGED <<conn, ask, inq, eof, parser, res, sent, rdEv, wrEv>>

-----------------------------------------------------------------------------
(* webserver_close: both events are deleted, the buffers freed.            *)
CloseKeepsWrite(c, how) ==
  /\ conn' = [conn EXCEPT ![c] = how]
  /\ res' = [res EXCEPT ![c] = <<>>]
  /\ rdEv' = rdEv \ {c}
  /\ UNCHANGED wrEv
Close(c, how) ==
  /\ conn' = [conn EXCEPT ![c] = how]
  /\ res' = [res EXCEPT ![c] = <<>>]
  /\ rdEv' = rdEv \ {c}
  /\ wrEv' = wrEv \ {c}

\* build_err_response_message: what was not written yet is drained.
BuildErr(c, code) ==
  res' = [res EXCEPT ![c] = ErrResponse(code)]

\* build_response_message for the request details s.
BuildDrained(c, s) ==
  LET units == IF s.method = "GET" THEN 1 + BodyOf(s.path) ELSE 1
  IN  res' = [res EXCEPT ![c] = Response(CodeFor(s.path), s.path, units)]
Build(c, s) ==
  LET units == IF s.method = "GET" THEN 1 + BodyOf(s.path) ELSE 1
  IN  res' = [res EXCEPT ![c] = @ \o Response(CodeFor(s.path), s.path, units)]

\* The part of webserver_read behind the parser.
Respond(c, s) ==
  \/ /\ s.phase = "error" /\ ~s.complete
     /\ BuildErr(c, IF s.method = NoMethod THEN 400 ELSE 405)
     /\ wrEv' = wrEv \cup {c} /\ UNCHANGED server
  \/ /\ s.complete
     /\ CodeFor(s.path) = 200 => ~NoDescriptor
     /\ Build(c, s)
     /\ wrEv' = wrEv \cup {c} /\ UNCHANGED server
  \/ /\ s.complete                       \* no memory for the body's buffer
     /\ BuildErr(c, 500)
     /\ wrEv' = wrEv \cup {c} /\ UNCHANGED server
  \/ /\ s.complete                       \* fopen's NULL goes to fileno
     /\ CodeFor(s.path) = 200 /\ NoDescriptor
     /\ server' = "down"
     /\ UNCHANGED <<res, wrEv>>
  \/ /\ s.phase # "error" /\ ~s.complete
     /\ UNCHANGED <<server, res, wrEv>>

Read(c) ==
  /\ server = "up" /\ c \in rdEv
  /\ \E k \in 1..Len(inq[c]) :
       LET s == Execute(parser[c], SubSeq(inq[c], 1, k))
       IN  /\ inq' = [inq EXCEPT ![c] = SubSeq(@, k + 1, Len(@))]
           /\ parser' = [parser EXCEPT ![c] = s]
           /\ Respond(c, s)
  /\ UNCHANGED <<conn, ask, eof, sent, rdEv>>

\* End of input or an error: what res_buf still holds is lost.
ReadEnds(c) ==
  /\ server = "up" /\ c \in rdEv
  /\ inq[c] = <<>> /\ eof[c] # "no"
  /\ Close(c, "dropped")
  /\ UNCHANGED <<server, ask, inq, eof, parser, sent>>

\* webserver_write takes a packet out of res_buf and writes it.  On a blocking
\* socket the write is whole, and fails with neither EAGAIN nor, as the program
\* catches no signal, EINTR: the branch in which the packet is lost is left out.
Write(c) ==
  LET len  == Len(res[c])
      k    == IF len < PacketSize THEN len ELSE PacketSize
      rest == SubSeq(res[c], k + 1, len)
  IN  /\ server = "up" /\ c \in wrEv /\ eof[c] # "reset"
      /\ sent' = [sent EXCEPT ![c] = @ \o SubSeq(res[c], 1, k)]
      /\ IF rest # <<>>
           THEN /\ res' = [res EXCEPT ![c] = rest]
                /\ wrEv' = wrEv \cup {c}       \* event_add again
                /\ UNCHANGED <<conn, rdEv>>
           ELSE Close(c, "served")
      /\ UNCHANGED <<server, ask, inq, eof, parser>>

\* A write to a reset connection fails: the connection is closed, or, as
\* nothing handles SIGPIPE, the signal ends the program.
WriteFails(c) ==
  /\ server = "up" /\ c \in wrEv /\ eof[c] = "reset"
  /\ \/ Close(c, "dropped") /\ UNCHANGED server
     \/ server' = "down" /\ UNCHANGED <<conn, res, rdEv, wrEv>>
  /\ UNCHANGED <<ask, inq, eof, parser, sent>>

Serve(c) == Read(c) \/ ReadEnds(c) \/ Write(c) \/ WriteFails(c)

Next ==
  \/ Start
  \/ \E c \in Conns : \/ Connect(c) \/ Finish(c)
                      \/ Accept(c) \/ AcceptDrops(c) \/ AcceptFails(c)
                      \/ Serve(c)

Spec == Init /\ [][Next]_vars

\* The loop polls every pending event, level triggered, and calls each that
\* is ready: no connection with something to do is passed over for ever.
\* That a pending write becomes ready means that the client goes on reading.
FairSpec == Spec /\ \A c \in Conns : WF_vars(Serve(c))

-----------------------------------------------------------------------------
(* Type invariant.                                                         *)
Units == [code : {200, 400, 403, 404, 405, 500},
          path : DOMAIN Files \cup {<<>>}, i : Nat, n : Nat]

TypeOK ==
  /\ server \in {"starting", "up", "down"}
  /\ conn \in [Conns -> {"out", "backlog", "open", "served", "dropped"}]
  /\ \A c \in Conns : /\ ask[c] \in Seq(Tokens) /\ inq[c] \in Seq(Tokens)
                      /\ parser[c].phase \in {"method", "spaces", "url",
                                              "dead", "error"}
                      /\ parser[c].path \in Seq(UrlTokens)
                      /\ parser[c].complete \in BOOLEAN
                      /\ res[c] \in Seq(Units) /\ sent[c] \in Seq(Units)
  /\ eof \in [Conns -> {"no", "fin", "reset"}]
  /\ rdEv \subseteq Conns /\ wrEv \subseteq Conns

\* Whatever order reads, writes and ends of input come in, a connection that
\* is open is watched for input, it waits to write exactly when there is
\* something to write, and no event of a freed connection is left behind:
\* no response waits for ever and no callback meets a freed stream.
Watched ==
  \A c \in Conns :
    /\ c \in rdEv <=> conn[c] = "open"
    /\ c \in wrEv <=> res[c] # <<>>
    /\ res[c] # <<>> => conn[c] = "open"

\* A stream of whole responses; only an error response, which takes the
\* place of what was not written yet, may cut one off.
Whole(s) ==
  /\ \A j \in DOMAIN s :
       IF s[j].i > 1
         THEN /\ j > 1
              /\ s[j - 1] = [s[j] EXCEPT !.i = @ - 1]
         ELSE j = 1 \/ s[j - 1].i = s[j - 1].n \/ s[j].code = 500
  /\ s # <<>> => Last(s).i = Last(s).n

\* Responses that are built while earlier ones are being written in packets
\* never tear them: what was sent and what is still to be sent make whole
\* responses, and the server closes a connection only behind the last one.
WholeResponses ==
  \A c \in Conns :
    conn[c] \in {"open", "served"} => Whole(sent[c] \o res[c])

\* A client whose request can be decided, complete or faulty, has its
\* connection answered or closed, whatever the other clients do, unless the
\* program ends.
Decided(r) == \E j \in DOMAIN r : r[j] \in EndTokens \cup {"bad"}
Answered ==
  \A c \in Conns :
    (conn[c] = "open" /\ Decided(ask[c]))
      ~> (conn[c] # "open" \/ server = "down")
=============================================================================
