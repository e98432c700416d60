------------------------------- MODULE Game2048 -------------------------------
(***************************************************************************)
(* AI2048Server and AI2048Client (src/ai/2048/server.cc, client.cc): the   *)
(* server plays the game the client holds. Each side has a board of its    *)
(* own; the client sends its board after every move, the server takes over *)
(* the new tile, searches, moves on its own board and sends the direction. *)
(* Both are meant to stay equal although neither is ever sent whole.       *)
(*                                                                         *)
(* The wire is a TCP stream of the codec's units that may be cut anywhere. *)
(* A peer that is not an AI2048Client sends the server one other frame.    *)
(***************************************************************************)
EXTENDS AI2048, ProtobufCodec

CONSTANTS MaxSearches,  \* searches of GetPlayerBestMove before the time-out
          Cuts          \* where, in units, a read may end short of all there is

ASSUME GameAssumption ==
  /\ MaxSearches \in Nat /\ Cuts \subseteq Nat \ {0}
  /\ kMaxMessageLen \in Nat /\ kMaxMessageLen >= 4   \* room for a frame
  /\ {"CSAI2048Tile", "SCAI2048Move"} \subseteq KnownTypes

VARIABLES peer,      \* who is at the other end: an AI2048Client or another
          dummy_,    \* the client's board
          ai,        \* the server's board: the entry of ai_map_
          client,    \* the connection, as the client and as the server see it
          server,
          toServer,  \* units on their way
          toClient,
          serverBuf, \* units read and not yet retrieved
          clientBuf,
          isOver,    \* the last board was sent as the last one
          starved    \* history: the clock left no time for the last search

vars == <<peer, dummy_, ai, client, server, toServer, toClient, serverBuf, clientBuf,
          isOver, starved>>

MoveTypes == <<"UP", "RIGHT", "DOWN", "LEFT">>
Tile(grid, over) == [type |-> "CSAI2048Tile", data |-> grid, is_over |-> over]
Move(type) == [type |-> "SCAI2048Move", move |-> type]

\* What a peer may put into a frame: boards that go on, are the last one or are none, the
\* server's own message, and one without a callback.
Messages ==
  {Tile(EmptyBoard, FALSE), Tile(EmptyBoard, TRUE), Tile(<<1>>, FALSE), Move("UP"),
   [type |-> "unregistered"]}

\* Frames with any field right or wrong: a length out of the limits, or within them and less or
\* more than there is, the length of the name, the name, the data, the check sum.
Frames ==
  {Frame(len, nameLen, typeName, data, checkSum) :
     len \in 0..(kMaxMessageLen + 1), nameLen \in {0, 1, kMaxMessageLen},
     typeName \in KnownTypes \cup {"unknown"}, data \in Messages, checkSum \in BOOLEAN}

\* All of them but the one of a board to be played.
OddFrames == Frames \ {fillEmptyBuffer(Tile(EmptyBoard, FALSE))}

\* InitDummy puts two tiles on the client's board.
Init ==
  /\ peer \in {"AI2048Client", "other"}
  /\ \E b \in AddRandTile(EmptyBoard) :
       dummy_ \in IF peer = "other" THEN {EmptyBoard} ELSE AddRandTile(b)
  /\ ai = EmptyBoard
  /\ client = "idle" /\ server = "idle"
  /\ toServer = <<>> /\ toClient = <<>> /\ serverBuf = <<>> /\ clientBuf = <<>>
  /\ isOver = FALSE /\ starved = FALSE

-------------------------------------------------------------------------------
\* How much of what is on its way one read may bring.
Reads(stream) == {n \in Cuts : n < Len(stream)} \cup ({Len(stream)} \ {0})

\* A faulty SendTileDataToServer: a board without a move is sent as if the game went on.
SendTileDataToServerOnlyWins(board, over) ==
  /\ toServer' = toServer \o fillEmptyBuffer(Tile(GetAllTiles(board), IsWin(board)))
  /\ isOver' = IsWin(board)

\* SendTileDataToServer: a board that is won is the last one.
SendTileDataToServer(board, over) ==
  LET last == over \/ IsWin(board) IN
  /\ toServer' = toServer \o fillEmptyBuffer(Tile(GetAllTiles(board), last))
  /\ isOver' = last

\* AI2048Client::OnConnection, UP.
ClientUp ==
  /\ client = "idle" /\ client' = "connected"
  /\ IF peer = "AI2048Client" THEN SendTileDataToServer(dummy_, FALSE)
     ELSE /\ \E f \in OddFrames : toServer' = f
          /\ UNCHANGED isOver
  /\ UNCHANGED <<peer, dummy_, ai, server, toClient, serverBuf, clientBuf, starved>>

\* A faulty OnSCAI2048Move: a full board is taken for the end of the game.
OnSCAI2048MoveFull(message) ==
  LET dir == CHOOSE d \in Dirs : MoveTypes[d + 1] = message.move
      moved == TryMove(dummy_, dir) IN
  \E board \in AddRandTile(moved.tiles) :
    /\ dummy_' = board
    /\ SendTileDataToServer(board, GetAllEmptyPos(board) = {})

\* AI2048Client::OnSCAI2048Move: the new tile is added, and the board sent,
\* even when the move was none. What the client gets is the server's Move.
OnSCAI2048Move(message) ==
  LET dir == CHOOSE d \in Dirs : MoveTypes[d + 1] = message.move
      moved == TryMove(dummy_, dir) IN
  \E board \in AddRandTile(moved.tiles) :
    /\ dummy_' = board
    /\ SendTileDataToServer(board, ~moved.can_move)

ClientRead(n) ==
  /\ client = "connected" /\ n \in Reads(toClient)
  /\ toClient' = SubSeq(toClient, n + 1, Len(toClient))
  /\ LET got == onMessage(clientBuf \o SubSeq(toClient, 1, n)) IN
     /\ clientBuf' = got.rest
     /\ IF got.result = "message" THEN OnSCAI2048Move(got.message)
        ELSE UNCHANGED <<dummy_, toServer, isOver>>
  /\ UNCHANGED <<peer, ai, client, server, serverBuf, starved>>

\* The client reads the end of the stream, and its connection goes DOWN.
ClientDown ==
  /\ client = "connected" /\ server \in {"disconnecting", "down"} /\ toClient = <<>>
  /\ client' = "down"
  /\ UNCHANGED <<peer, dummy_, ai, server, toServer, toClient, serverBuf, clientBuf,
                 isOver, starved>>

-------------------------------------------------------------------------------
\* AI2048Server::OnConnection, UP: a fresh board under the connection's name.
ServerUp ==
  /\ client = "connected" /\ server = "idle"
  /\ server' = "connected"
  /\ ai' = EmptyBoard
  /\ UNCHANGED <<peer, dummy_, client, toServer, toClient, serverBuf, clientBuf, isOver,
                 starved>>

ShutDown == server' = "disconnecting" /\ UNCHANGED <<ai, toClient, starved>>

\* AI2048Server::OnCSAI2048Tile: the end of the game, or a move. If the move
\* found cannot be made the answer is UP.
OnCSAI2048Tile(message) ==
  IF message.is_over \/ DOMAIN message.data # Cells THEN ShutDown
  ELSE \E searches \in 0..MaxSearches :
    \E board \in {AddComputerMove(ai, message.data)} :
    \E best_move \in {GetPlayerBestMove(board, searches)} :
      LET moved == TryMove(board, best_move)
          type == IF moved.can_move THEN MoveTypes[best_move + 1] ELSE "UP" IN
      /\ ai' = moved.tiles
      /\ starved' = (searches = 0)
      /\ toClient' = IF server = "connected" THEN toClient \o fillEmptyBuffer(Move(type))
                     ELSE toClient
      /\ UNCHANGED server

\* The dispatcher hands the message to the callback of its type: a move makes
\* no sense here, and a type without a callback is not known.
onProtobufMessage(message) ==
  IF message.type = "CSAI2048Tile" THEN OnCSAI2048Tile(message) ELSE ShutDown

\* One turn of onMessage's loop: at most one frame is on its way, and a second turn would find
\* nothing.
ServerRead(n) ==
  /\ server \in {"connected", "disconnecting"} /\ n \in Reads(toServer)
  /\ toServer' = SubSeq(toServer, n + 1, Len(toServer))
  /\ LET got == onMessage(serverBuf \o SubSeq(toServer, 1, n)) IN
     /\ serverBuf' = got.rest
     /\ CASE got.result = "wait" -> UNCHANGED <<ai, server, toClient, starved>>
          [] got.result = "message" -> onProtobufMessage(got.message)
          [] OTHER -> ShutDown            \* defaultErrorCallback
  /\ UNCHANGED <<peer, dummy_, client, clientBuf, isOver>>

\* AI2048Server::OnConnection, DOWN: after the client's end has gone.
ServerDown ==
  /\ server \in {"connected", "disconnecting"} /\ client = "down"
  /\ server' = "down"
  /\ ai' = EmptyBoard
  /\ toServer' = <<>> /\ serverBuf' = <<>>
  /\ UNCHANGED <<peer, dummy_, client, toClient, clientBuf, isOver, starved>>

\* The connection breaks, with what was on its way.
Break ==
  /\ client = "connected" /\ server # "idle"
  /\ client' = "down" /\ toServer' = <<>> /\ toClient' = <<>>
  /\ UNCHANGED <<peer, dummy_, ai, server, serverBuf, clientBuf, isOver, starved>>

Next ==
  \/ ClientUp \/ ServerUp
  \/ \E n \in Reads(toClient) : ClientRead(n)
  \/ \E n \in Reads(toServer) : ServerRead(n)
  \/ ClientDown \/ ServerDown \/ Break

Spec == Init /\ [][Next]_vars

\* Both loops run: what is on its way is read, and ends of streams are seen.
\* Weak fairness of the two reads is written out: nothing else shortens the
\* streams of a connection that stays up. Another peer owes nothing: it may never close.
Shortens(stream) == Len(stream') < Len(stream)
CanServerRead == server \in {"connected", "disconnecting"} /\ toServer # <<>>
CanClientRead == client = "connected" /\ toClient # <<>>

FairSpec ==
  /\ Spec
  /\ WF_vars(peer = "AI2048Client" /\ ClientUp) /\ WF_vars(peer = "AI2048Client" /\ ClientDown)
  /\ WF_vars(ServerUp) /\ WF_vars(ServerDown)
  /\ <>[]CanServerRead => []<><<Shortens(toServer)>>_vars
  /\ <>[]CanClientRead => []<><<Shortens(toClient)>>_vars

-------------------------------------------------------------------------------
Boards == [Cells -> 0..WinTile]
ConnStates == {"idle", "connected", "disconnecting", "down"}

\* Every variable has its type: no tile outgrows the one that wins, and at most one frame waits
\* at either end, for the two sides take turns.
TypeOK ==
  /\ peer \in {"AI2048Client", "other"}
  /\ dummy_ \in Boards /\ ai \in Boards
  /\ client \in ConnStates /\ server \in ConnStates
  /\ isOver \in BOOLEAN /\ starved \in BOOLEAN
  /\ Len(serverBuf) + Len(toServer) + Len(clientBuf) + Len(toClient) <= 5

\* The two boards stay in step: a board on its way to the server is the
\* server's board and the tiles it is yet to take over, and a move on its way
\* to the client has been made by the server on the client's board.
ServerMirrorsClient ==
  peer = "AI2048Client" /\ client = "connected" /\ server = "connected" =>
    IF toClient \o clientBuf = <<>>
    THEN AddComputerMove(ai, GetAllTiles(dummy_)) = dummy_
    ELSE LET type == (clientBuf \o toClient)[4].value.move
             dir == CHOOSE d \in Dirs : MoveTypes[d + 1] = type
         IN ai = TryMove(dummy_, dir).tiles

\* The client gives the game up only when it is won or no move is left, unless
\* the server's clock ran out before its first search and it answered UP.
GameOverIsReal ==
  isOver => IsWin(dummy_) \/ ~CanMove(dummy_) \/ starved

\* The start of a frame that announces, within the limits, more than has come.
Unfinished(buf) == buf # <<>> /\ buf[1].value \in Len(buf)..kMaxMessageLen

\* A frame that is not a board to be played gets no game, whatever is wrong with it and however
\* the stream is cut: once all of it has been read its sender is shut out, or the server still
\* waits for what the frame announced (ProtobufCodec::onMessage, OnCSAI2048Tile, OnUnknownMessage).
OddFrameGetsNoGame ==
  peer = "other" =>
    /\ ai = EmptyBoard /\ toClient = <<>>
    /\ client = "connected" /\ server # "idle" /\ toServer = <<>> =>
         server = "disconnecting" \/ Unfinished(serverBuf)

\* Every game ends: each move adds to the board, which is won or full at last.
GameEnds == peer = "AI2048Client" => <>(server = "down")
===============================================================================
