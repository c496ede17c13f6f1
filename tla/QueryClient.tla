---------------------------- MODULE QueryClient ----------------------------
(***************************************************************************)
(* One status refresh over ServerQuery: the socket transport and the       *)
(* session of apps/web/src/core/ts3/client.ts (login, use, serverinfo) on  *)
(* the protocol of ts3/protocol.ts, with the service that reads the server *)
(* before it and writes the status after it (refreshServerStatus of        *)
(* core/servers.ts).  A refresh can be repeated; each has its own socket.  *)
(*                                                                         *)
(* TCP delivers the server's bytes in order, in chunks cut anywhere.  What *)
(* the server sends is a sequence of pieces; a cut falls between pieces:   *)
(*   an answer: its data line (serverinfo only), then one line             *)
(*       "error i" | "d=" | "520" | " msg=...\n"                           *)
(*   the banner: "TS3\n" | "Welcome to the TeamSpeak 3 " |                 *)
(*       "ServerQuery interface ...\n"                                     *)
(* These are all the cuts the parser can tell apart.  A promise that       *)
(* settles and the command its continuation sends are one step: nothing    *)
(* but microtasks runs in between.                                         *)
(***************************************************************************)
EXTENDS Naturals, Sequences

CONSTANT Faults  \* which of "error" (socket error) and "close" (peer closes) can happen

ASSUME FaultsAssumption == Faults \subseteq {"error", "close"}

VARIABLES
  row,         \* the server's row and its lastStatus
  pc,          \* where the refresh is; a command's name: that command is pending
  socket,      \* the client's socket
  bannerSeen,
  buffer,      \* received and not consumed
  wire,        \* sent by the server and not received
  inbox,       \* commands the server has not answered
  answers,     \* history: the server's answers of this session, accepted or not
  torn,        \* history: an error line was taken before its end had arrived
  outcome      \* the status the session returned

connection == <<socket, bannerSeen, buffer, wire, inbox, answers, torn>>
vars == <<row, pc, connection, outcome>>

Commands == <<"login", "use", "serverinfo">>
CommandNames == {Commands[i] : i \in 1 .. 3}
Position(c) == CHOOSE i \in 1 .. 3 : Commands[i] = c

Piece(part, ok) == [part |-> part, ok |-> ok]
Pieces ==
  [part : {"hello", "welcome", "interface", "info", "error", "id", "value", "end"}, ok : BOOLEAN]

Banner == <<Piece("hello", TRUE), Piece("welcome", TRUE), Piece("interface", TRUE)>>
Answer(c, ok) ==
  (IF c = "serverinfo" /\ ok THEN <<Piece("info", TRUE)>> ELSE <<>>)
    \o <<Piece("error", ok), Piece("id", ok), Piece("value", ok), Piece("end", ok)>>

TypeOK ==
  /\ row \in {"deleted", "unknown", "reachable", "unreachable"}
  /\ pc \in {"idle", "connect", "save"} \cup CommandNames
  /\ socket \in {"none", "open", "closed"}
  /\ bannerSeen \in BOOLEAN
  /\ buffer \in Seq(Pieces)
  /\ wire \in Seq(Pieces)
  /\ inbox \in Seq(CommandNames)
  /\ answers \in Seq(BOOLEAN)
  /\ torn \in BOOLEAN
  /\ outcome \in {"none", "complete", "empty", "failed"}

Init ==
  /\ row = "unknown"
  /\ pc = "idle"
  /\ socket = "none"
  /\ bannerSeen = FALSE
  /\ buffer = <<>> /\ wire = <<>> /\ inbox = <<>> /\ answers = <<>>
  /\ torn = FALSE
  /\ outcome = "none"

-----------------------------------------------------------------------------
(* The service.                                                            *)

\* refreshServerStatus reads the row; its credential is decrypted, or not (wrong
\* key), before a socket exists.  createSocketTransport starts the connect timer.
Refresh ==
  /\ pc = "idle" /\ row # "deleted"
  /\ \/ pc' = "connect" /\ socket' = "open" /\ outcome' = "none"
     \/ pc' = "save" /\ socket' = "none" /\ outcome' = "failed"
  /\ bannerSeen' = FALSE
  /\ buffer' = <<>> /\ wire' = <<>> /\ inbox' = <<>> /\ answers' = <<>>
  /\ torn' = FALSE
  /\ UNCHANGED row

\* statusToServerUpdate: lastStatus; the snapshot beside it is kept on a failure.
StatusToServerUpdate == IF outcome = "failed" THEN "unreachable" ELSE "reachable"

Bug_SaveStatus ==
  /\ pc = "save"
  /\ pc' = "idle"
  /\ row' = StatusToServerUpdate
  /\ UNCHANGED <<connection, outcome>>

\* The update of the row throws when the server was removed meanwhile.
SaveStatus ==
  /\ pc = "save"
  /\ pc' = "idle"
  /\ row' = IF row = "deleted" THEN row ELSE StatusToServerUpdate
  /\ UNCHANGED <<connection, outcome>>

\* removeServer, by another request.
RemoveServer ==
  /\ row # "deleted"
  /\ row' = "deleted"
  /\ UNCHANGED <<pc, connection, outcome>>

-----------------------------------------------------------------------------
(* The server, and the network.                                            *)

Greet ==
  /\ pc = "connect" /\ socket = "open" /\ ~bannerSeen /\ wire = <<>> /\ buffer = <<>>
  /\ wire' = Banner
  /\ UNCHANGED <<row, pc, socket, bannerSeen, buffer, inbox, answers, torn, outcome>>

\* The server answers its commands in order.  What it accepts is its business.
Reply ==
  /\ socket = "open" /\ inbox # <<>>
  /\ \E ok \in BOOLEAN :
       /\ wire' = wire \o Answer(Head(inbox), ok)
       /\ answers' = Append(answers, ok)
  /\ inbox' = Tail(inbox)
  /\ UNCHANGED <<row, pc, socket, bannerSeen, buffer, torn, outcome>>

-----------------------------------------------------------------------------
(* The transport.                                                          *)

Pending == pc \in CommandNames

\* connectAndFetchStatus ends with close() on every path.
Finish(status) ==
  /\ pc' = "save"
  /\ outcome' = status
  /\ socket' = "closed"
  /\ UNCHANGED inbox

\* makeTransport().send: the command is pending and on its way.
Send(c) ==
  /\ pc' = c
  /\ inbox' = Append(inbox, c)
  /\ UNCHANGED <<socket, outcome>>

First(s, part) ==
  LET at == {i \in DOMAIN s : s[i].part = part}
  IN  IF at = {} THEN 0 ELSE CHOOSE i \in at : \A j \in at : i <= j

\* extractCompletedResponse and parseError, of a buffer that has an error line:
\* the last line counts as a line although its end may be missing.  Number('') is
\* 0, and an id that is missing altogether is -1.
ErrorId(s) ==
  LET i == First(s, "error") IN
  IF Len(s) = i THEN "missing"
  ELSE IF Len(s) = i + 1 \/ s[i + 2].ok THEN "zero" ELSE "other"

LineEnd(s) ==
  LET i == First(s, "error") IN IF Len(s) >= i + 3 THEN i + 3 ELSE Len(s)

Bug_Rest(s) == s
Rest(s) == SubSeq(s, LineEnd(s) + 1, Len(s))

\* The data line serverinfo answered is the first line of the response.
HasInfo(s) == s[1].part = "info"

\* send's promise settles: the next command, or the end of the session.
Settle(s) ==
  IF ErrorId(s) # "zero" THEN Finish("failed")
  ELSE IF pc = "serverinfo" THEN Finish(IF HasInfo(s) THEN "complete" ELSE "empty")
  ELSE Send(Commands[Position(pc) + 1])

\* socket.on('data') with one chunk, the first n pieces on the wire.
Data(n) ==
  LET s == buffer \o SubSeq(wire, 1, n) IN
  /\ socket = "open" /\ n <= Len(wire)
  /\ wire' = SubSeq(wire, n + 1, Len(wire))
  /\ IF ~bannerSeen
     THEN /\ IF First(s, "welcome") = 0
             THEN buffer' = s /\ UNCHANGED <<pc, bannerSeen, inbox, socket, outcome>>
             ELSE buffer' = <<>> /\ bannerSeen' = TRUE /\ Send("login")
          /\ UNCHANGED torn
     ELSE /\ IF First(s, "error") = 0
             THEN buffer' = s /\ UNCHANGED <<pc, inbox, socket, outcome, torn>>
             ELSE /\ buffer' = Rest(s)
                  /\ torn' = (torn \/ s[LineEnd(s)].part # "end")
                  /\ Settle(s)
          /\ UNCHANGED bannerSeen
  /\ UNCHANGED <<row, answers>>

Bug_ConnectTimer ==
  /\ pc = "connect" /\ socket = "open"
  /\ Finish("failed")
  /\ UNCHANGED <<row, bannerSeen, buffer, wire, answers, torn>>

\* The connect timer: runs until the banner was seen or an error came, and also
\* after the peer has closed the connection.
ConnectTimeout ==
  /\ pc = "connect"
  /\ Finish("failed")
  /\ UNCHANGED <<row, bannerSeen, buffer, wire, answers, torn>>

\* The command timer: failPending, and the session ends.
CommandTimeout ==
  /\ Pending
  /\ Finish("failed")
  /\ UNCHANGED <<row, bannerSeen, buffer, wire, answers, torn>>

\* socket.on('error'): rejects whatever is pending.
SocketError ==
  /\ "error" \in Faults
  /\ socket = "open" /\ (pc = "connect" \/ Pending)
  /\ Finish("failed")
  /\ UNCHANGED <<row, bannerSeen, buffer, wire, answers, torn>>

\* socket.on('close'): fails a pending command, but not a connect that waits for
\* the banner.
PeerCloses ==
  /\ "close" \in Faults
  /\ socket = "open"
  /\ IF Pending THEN Finish("failed") ELSE socket' = "closed" /\ UNCHANGED <<pc, outcome, inbox>>
  /\ UNCHANGED <<row, bannerSeen, buffer, wire, answers, torn>>

-----------------------------------------------------------------------------

Next ==
  \/ Refresh \/ SaveStatus \/ RemoveServer
  \/ Greet \/ Reply
  \/ \E n \in 1 .. Len(wire) : Data(n)
  \/ ConnectTimeout \/ CommandTimeout \/ SocketError \/ PeerCloses

\* Timers fire, and the service goes on.  Nothing is assumed of server or network.
Fairness ==
  /\ WF_vars(ConnectTimeout)
  /\ WF_vars(CommandTimeout)
  /\ WF_vars(SaveStatus)

Spec == Init /\ [][Next]_vars /\ Fairness

-----------------------------------------------------------------------------
(* Properties.                                                             *)

\* However banner and answers are cut into chunks, unless a cut falls inside an
\* error line: a command that is pending is pending because the server accepted
\* all commands before it, and a server is reported reachable only after it
\* accepted all three, with the data serverinfo answered (client.ts:36, 106).
AnswersAreOwn ==
  ~torn =>
    /\ Pending => /\ Len(answers) + Len(inbox) = Position(pc)
                  /\ \A i \in 1 .. Position(pc) - 1 : answers[i]
    /\ (pc = "save" /\ outcome # "failed") => outcome = "complete" /\ answers = <<TRUE, TRUE, TRUE>>

\* No path out of a session leaves its socket open, also when the promise of the
\* connection was never settled by the network (client.ts:53, 73).
SocketsAreClosed == pc \in {"idle", "save"} => socket # "open"

\* A refresh that ends after its server was removed does not bring the row back
\* (servers.ts:109).
RemovedStaysRemoved == [][row = "deleted" => row' = "deleted"]_vars

\* Every refresh ends, whatever the server sends or keeps to itself
\* (client.ts:72, 126).
RefreshEnds == pc # "idle" ~> pc = "idle"

-----------------------------------------------------------------------------
(* The contract.                                                           *)

Contract ==
  INSTANCE StatusRefresh WITH
    row       <- row,
    phase     <- IF pc = "idle" THEN "idle"
                 ELSE IF torn THEN "torn"
                 ELSE IF pc = "save" THEN outcome ELSE pc,
    answers   <- IF torn THEN <<>> ELSE answers,
    connected <- socket = "open"

\* However the stream is cut and whichever timer, error, close or removal comes in
\* between, question and answer take turns, the row says reachable only after three
\* accepted commands, no ended session keeps its socket, and a removed server stays
\* removed (client.ts:36, 53, 106, servers.ts:109).
ImplementsContract == Contract!Spec

=============================================================================
