# Paintball Party 2 in TLA+

Paintball Party 2 is a platform shooter for up to sixteen players, on one machine or over the network. Its network library, `joynet` (`src/src/joynet`, on top of ENet), never sends positions of players or paintballs. It sends *buttons*: the server puts the buttons of all players into one frame per tick, and every client computes the same game from the same frames. The whole multiplayer game rests on two things that no single program can check for itself: that server and clients agree who plays which slot, and that all clients run the same ticks with the same buttons. These two are the core of this project. Around them stand what carries their messages, the rules of the game that the ticks compute, and what the program of each player does by itself, from its controllers to its screen.

All paths below are relative to `src/src` unless they start with another top-level name.

- [1. The system](#1-the-system): components, their state, operations and hazards
- [2. The modules](#2-the-modules): how they correspond to the code
- [3. The runs](#3-the-runs): what TLC checks, with which bounds
- [4. Fairness](#4-fairness)
- [5. The proofs](#5-the-proofs)
- [6. What the code does differently from what it says](#6-what-the-code-does-differently-from-what-it-says)
- [7. The plan](#7-the-plan)
- [8. What is not modelled](#8-what-is-not-modelled)

## 1. The system

### 1.1 Processes

| process | code | loop |
|---|---|---|
| dedicated server | `server/pp2_server.c` | 60 times a second: `joynet_poll_server`, then `joynet_update_game_server` (403-426) |
| hosted server | `network/server.c` | the same, in a thread of the hosting client (131-254) |
| client | `pp2/pp2.c`, `pp2/gameplay/game.c` | 60 times a second: poll, menus or `pp2_game_logic` |
| keep-alive thread of a client | `network/client.c` 41-75 | polls the client while a level loads |
| master-list thread of a server | `server/pp2_server.c` 374-401, `network/server.c` 101-128 | blocking HTTP requests to the list of servers |

A server handles each ENet event to the end before the next. Between a server and a client there is one reliable, ordered channel for game messages in each direction, until the connection is lost.

### 1.2 Components

**joynet session** (`joynet/game.c`, `game_message.c`, `server.c`, `client.c`, callbacks in `pp2/gameplay/network.c`).
The server keeps the slots (`player[i]`: playing, owner, controller), the counter `player_count`, for each client `peer`, `playing` (again a counter), `master`, `spectating`, and the phase `state`. A client keeps the port of each of its controllers, its own copy of the roster with `local` marks, its master flag and its own phase. Messages: `CHECK_ID`, `SPECTATE`, `LEAVE`, `CONNECT`, `DISCONNECT`, `ADD_PLAYER`, `REMOVE_PLAYER`, `ASSIGN_MASTER`, `START`, `PAUSE`, `RESUME`, `END`, `INPUT_OVERFLOW`.
*Hard*: requests cross with changes made by others; a request names a slot as the client saw it; two redundant counters; connections that either side finds broken first; mastership that must move on.
*Correct when*: counters match the slots; one master; clients that have read their messages agree with the server on players, controllers, master and phase; nobody joins during a game; seats of clients that are gone come free.

**joynet lockstep** (`game.c` 770-1104, `game_message.c` `INPUT`, `REMOVE_PLAYER`, `PAUSE`, `RESUME`, `pp2/gameplay/game.c` 200-310).
State: the buttons the server holds for each slot, the frames under way, the input buffer of each client.
*Hard*: input that is late; clients that run one tick or many; frames of the old roster waiting when a player is removed; overflow; input that arrives after the end.
*Correct when*: all clients run the server's ticks, in order, once each, with the server's buttons; a player is moved only by the buttons of its own user; a client that fell behind catches up or loses its players.

**joynet input buffer** (`joynet/input_buffer.c`). A ring of frames without a check for being full.
*Correct when*: it is a queue as long as no more frames wait than it holds, and keeps the newest frames otherwise.

**ENet transport** (`joynet/enet/protocol.c`, `peer.c`, tables of clients in `joynet/server.c`). Numbered commands, acknowledgements, retransmission, windows over 16 bits of sequence number; connections with sessions, pings and time-outs; the server's table of clients, filled and emptied by events.
*Hard*: datagrams are lost, doubled, late and out of order; numbers wrap; two attempts to connect and their ends cross.
*Correct when*: the channel is a queue while it lasts, a command that is acknowledged has been received, everything arrives, each connection is announced once and taken away once, and both sides notice the end.

**joynet content lists** (`game_message.c` 8-79, 674-809). Each client uploads hashes of the characters and levels it has; the server computes the lists everybody has; players select from these. *Hard*: lists change under selections, slots change hands. *Correct when*: what is offered, selected and played, everybody has.

**Player and level setup** (`pp2/interface/player_setup.c`, `level_setup.c`, `pp2/gameplay/network.c`). The steps of each controller from joining to ready, and the start of the game with its options. *Hard*: each step is set at once and again by the server's echo, while the roster moves. *Correct when*: once messages have arrived all see the same step, and all start with the same rules.

**Game options** (`menu_proc.c`, `file/config.c`). One array of rules, written by quick games, custom game, hosts, replays and the configuration file, and never cleared. *Correct when*: a quick game is what its name says.

**Menus and screens** (`pp2/interface/*`, `pp2/pp2.c`, `t3f/gui.c`). State of the program, stack of menus, highlighted element. *Hard*: messages of a game and lost connections change them under the player's hands. *Correct when*: the screen is that of the game, the way back leads home, every entry can be reached.

**Input devices** (`t3f/t3f.c` 1200-1262, `t3f/input.c`). Keyboard and gamepads behind one interface. *Hard*: devices come and go, triggers rest at the end of their axis, keys are cleared. *Correct when*: what is sent is what is held.

**Rules** (`pp2/gameplay/rules.c`). Who has won in each mode. *Hard*: ties, time-outs, players who leave, several things that happen in one tick. *Correct when*: the winner leads, a result stands, a game that goes on can be won.

**Players, paintballs and objects** (`pp2/gameplay/sprites/*`). Lives and timers; stance and ground; weapons, ammunition, powers; items and their generators; paintballs that bounce, split and are deflected. *Hard*: players are served one after the other, so that what happens in one tick counts before or after a death, a stomp or a pick-up depending on slots; fixed arrays whose cells are used again while they are served. *Correct when*: a life is worth one frag; whoever plays is on the field; coins and items are not lost; the weapon in hand is loaded; ground and stance agree.

**Collisions** (`t3f/collision.c` and its callers). Bodies tested at points of their edges against tiles. *Correct when*: nothing gets into a wall.

**Views** (`pp2/gameplay/init.c`, `game.c`, `sprites/player.c`). The split of the screen, targets, names, radar and cloaks. *Correct when*: everybody has a view, and who is cloaked shows in no other.

**Replays** (`pp2/gameplay/replay.c`). Buttons of each tick in a file, and back. *Correct when* playing runs the ticks that were recorded.

**Resources and display** (`t3f/resource.c`, `atlas.c`, `t3f.c`). A table by which bitmaps are given up and loaded again when the display is lost. **Files and databases** (`file/database/*`, `preview.c`, `config.c`). Levels by sum, caches and previews over many runs and crashes. **Music** (`t3f/music.c`). A thread that loads tracks.

**Servers and the public list** (`server/pp2_server.c`, `network/server.c`, `t3net/*`): a server thread, a second one that reports to the list of servers, and one file through which all answers come. Not modelled, since registration cannot succeed (section 6).

**Public list, controller order, chat, rollback, serializer, keep-alive thread, editors, legacy formats**: see section 8 and `PROJECT.json`.

### 1.3 How they interact

A user's button in the setup screen becomes `CONNECT`; the server seats the player and tells the audience; the master's button becomes `START`; both sides create input buffers whose frames have one cell for each player of their own roster. From then on the client's loop sends the buttons of its controllers, polls, and runs a tick for each frame read. `PAUSE`, `RESUME`, `END` and broken connections interrupt this. The session decides *who*, lockstep *what is run*, the ring *in which order*; `Match` and the modules of the arena say what a tick does, and everything else is on one machine.

## 2. The modules

| module | models | role |
|---|---|---|
| `GameLobby` | what a game server promises about slots and phases | abstract specification |
| `JoynetSession` | the session: server, clients, users, connections | detailed, implements `GameLobby` |
| `FrameQueue` | what an input buffer promises | abstract specification |
| `InputBuffer` | the ring | detailed, implements `FrameQueue` |
| `Lockstep` | one game that is on, tick by tick | detailed |
| `Fifo` | what a reliable channel promises | abstract specification |
| `Channel` | commands, windows and acknowledgements of ENet | detailed, implements `Fifo` |
| `Connection` | the life of ENet connections and joynet's table of clients | detailed |
| `Content` | levels offered and selected | detailed |
| `Setup` | the way of a player into the game, and its start | detailed |
| `Options` | the rules of the game through menus, hosts and files | detailed |
| `Menus`, `Gui` | states and stack of menus; how a menu is worked | detailed |
| `Input` | keyboard and gamepads | detailed |
| `Match` | what the ticks compute: hits, lives, scores, the end | detailed |
| `Posture`, `Arsenal`, `Items`, `Paintballs` | the rest of a tick: stance, weapons, objects, paintballs | detailed |
| `Collision` | bodies and tiles | detailed |
| `Views` | the split screen | detailed |
| `Replay` | recording and playing back | detailed |
| `Resources`, `Library`, `Music` | bitmaps and display; files; music | detailed |
| `JoynetSessionProofs`, `LockstepProofs`, `ProgramProofs` (`InputBuffer`, `Music`, `Library`, `Resources`, `Views`), `MatchProofs`, `ArenaProofs` (`Arsenal`, `Posture`, `Paintballs`), `TransportProofs` (`Channel`), `ConnectionProofs`, `LobbyProofs` (`Content`, `Setup`, `Options`, `Input`, `Menus`, `Gui`) | | theorems |
| `MC...` | | instances for TLC |

Some `MC` modules put several modules side by side that share no state. Their initial states choose one (`part`); in every behaviour only that one takes steps, and the others stay as they start. This is the disjoint union of their state graphs, not their product: what is checked of each is what a run of its own would check.

### 2.1 JoynetSession

*Server.* One action for each handler of `joynet_handle_server_game_message`: `HandleCheckId`, `HandleSpectate`, `HandleLeave`, `HandleConnect` and `RefuseConnect` (the two ways through `CONNECT`), `HandleDisconnect`, `HandleOverflow`, `HandleStart`, `HandlePause`, `HandleResume`, `HandleEnd`. `PeerDisconnect` is the disconnect event of `joynet_poll_server` together with `joynet_server_internal_game_callback`, which the poll calls in the same step.
`state`, `player_count`, `spectating` have the code's names; `slot[p]` is `player[p]->playing`, `->client` and `->backport` in one value, `Free` when not playing (the code never reads the other two then). `cplaying`, `cmaster`, `peer` are the fields of `client[c]`.

*Client.* One action for each message, each with both what `joynet_handle_client_game_message` does and what `pp2_game_channel_callback` does to the session right after it. `inMenu` stands for the states of `pp2` in which the user can join and leave.

*User.* `Connect`, `Join`, `Back`, `Start`, `Pause`, `Resume`, `End`, `Leave` with the guards of the menus (`player_setup.c`, `menu_proc.c`, `game.c` 851), and `ClientLost` for `pp2_client_callback`.

*Network.* `toServer`, `toClient` are the messages under way, in order. A closing client may lose any suffix of what it had sent; what is sent to a closed client is lost; the server may notice the end of a connection at any later time, and, with `"server_drop"`, before the client. The run of `ADD_PLAYER` (or `REMOVE_PLAYER`) messages that one handler sends to one client is one message with a set: nothing of the server comes between them, and a client that reads only some of them has no decision to make before it reads the rest.

*Behaviours.* `Behaviours` names what users and the network do beyond joining and playing. Some properties hold for all of it, others only where users wait for answers or connections last; the runs say which.

### 2.2 Lockstep

Starts where every client has received `START`. `ServerTick` is `joynet_update_game_server`; `HandleInput`, `HandleOverflow`, `Drop`, `Pause`, `Resume`, `End` are the handlers, with what they send; `ReceiveInput`, `ReceiveRemove`, `ReceivePause`, `ReceiveResume`, `ReceiveEnd` those of the client; `ClientTick` is the part of `pp2_game_logic` that sends the buttons and then runs one tick, or all waiting ticks when there are `PP2_SETTING_NETWORK_MAX_FRAMES` of them. `Press` is a user who changes what it holds down.

A frame is a bare sequence, as in the code: nothing in it names its players. `Encode` and `Decode` are by rank in the roster of whoever encodes or decodes. This is what makes removals dangerous, and why `OwnInput` is a property and not a matter of types. The bits of a player are `Idle` or `<<p, n>>`: enough to see whose buttons they are and how new. The histories `issued` and `done` are read by no action.

When the server uses the input buffer that `END` has destroyed it dereferences a null pointer: `sstate` becomes `DEAD`.

### 2.3 InputBuffer

Write, duplicate, read and reset as in the code, positions counted in frames instead of bytes. Contents start arbitrary, since `malloc` does not clear them. The auxiliary `pending` records what was written and not read, and no action reads it. `FrameQueue` is the queue: in order and once while at most `Max` frames wait; when more have been written, a reader gets one of the `Max` newest.

### 2.4 Match

One game on one machine, which by `Lockstep` is the same on all. A tick of `pp2_game_logic_tick` is cut where the code turns to the next thing: `StartTick`, then for each player in the order of slots its logic (`SitOut`, `FadeOut`, `FadeIn` or `Move`, whichever branch of `pp2_player_logic` its state selects) and its `Paintballs`, then `PickUpCoin` for any number of coins, `ObjectsDone`, and `ProcessRules`. `phase` and `slot` say where the tick is. `RemovePlayer` is the message that may arrive between two ticks.

*What is left open is where things are.* The paintballs of a player hit any set of players they could hurt at that moment (once each, because the first hit makes its victim flash), `Move` lands on and is landed on by any players that are solid, any players that are alive touch a coin. Every property therefore holds wherever the players are. `ReceiveHits` is `pp2_player_receive_hit`, called for several dealers in the order of their slots: the ones who find no life left score.

*What is not open* are the timers, guards and order: fades of `FadeTime` ticks in both directions, the flash, the spawn with its search for a portal, the death of who has no life left at the start of its own turn and not before.

A game is a record of `Options`: who plays, the mode and its settings, and of the level only the number of portals and how many of them one player can block (`reach`). `scored` is a history that no action reads.

Which weapons and paintballs there are does not matter to who may be hit; they have modules of their own.

### 2.5 Transport: Channel, Connection

`Channel` is one direction of one channel. Commands are identified by the number they would have without wrapping; only `Wire(n)` travels and is compared. `Send` cuts a message into fragments, `Transmit` is the loop of `enet_protocol_send_reliable_outgoing_commands` with its two conditions on windows (`Blocked`), `Timeout`, `GiveUp` and `ReceiveAck` the sender's part, `Receive` is `enet_peer_queue_incoming_command` with the dispatch and the acknowledgement that follow. The network keeps the datagrams of a command as long as it is not acknowledged, and after that for at most `MaxAge` further commands: without such an assumption no protocol with finitely many numbers works. With messages of `c` commands it may be as large as `MaxAge + c <= (Free + 1) * WindowSize + 2`, and no larger: TLC finds 9 to be right with windows of 2 numbers, 3 of them free, messages of one command and 12 commands, and 10 to be wrong. With ENet's values (8 windows free, of 4096 numbers) it may be about 36 800. `Fifo` is the promise, and `InOrder` that it is kept.

`Connection` has several attempts to connect, one after the other, to a server with few peers. A peer is one record at either side, and what ENet does to it (`OnAck`, `OnDisconnect`, `OnVerify`, `Flushed`, `Disconnecting`) is written once; the actions of server and client are the events in which they are called, down to the client that crashes without a word. `late` says of a host that is served that its `pingInterval` has passed since the last acknowledgement; only then an idle connection is pinged. `slot` and `entry` are joynet's table and `peer->data`.

### 2.6 Around a game: Content, Setup, Options, Menus, Gui, Input

`Content`: `HandleUpload`, `Join`, `Leave`, `Lose` change what the server has of each player, `NewList` and `Adjusted` are what it makes of it, `SelectProfile`, `Preview`, `Choose`, `StartNext` are the places where the one in charge selects. A request is handled when it is sent; answers wait in `queue`.

`Setup`: one slot, and any clients, one of them the master. A key sets the step and tells the server (`Turn`), the server echoes it to all, the sender included. Joining takes two messages (`CONNECT`, `ADD_PLAYER`), and `local` is only true after the second. `AskToStart` sends rules, options of players and `START`.

`Options`: each quick game as the set of rules it writes over those there are; the screens of the custom game move one rule at a time; `ReceiveRules` takes those of a host, a replay those it was recorded with, the worth of ammunition included, and nothing gives back what was there before; `Exit`, `Restart`, `Crash` are the configuration file, in which not every rule is kept and which may have been edited.

`Menus` has one program: `ui` is `state`, `menu`, the stack of menus and the timer; `OpenMenu` the entries that only open another menu; the rest have actions of their own (`Host`, `Join`, `Leave`, `Play`, `ViewReplay`, ...); `StartGame`, `PauseGame`, `ResumeGame`, `EndGame` and the `Receive...` are `pp2_game_callback` and the client callback. `flaw` is a history of what the code is known to leave wrong (section 6). `Gui` is how one menu is worked, whatever its entries: with the mouse the highlight follows the pointer, with the pad it steps over texts, and the source changes with what moved last.

`Input`: `JoystickEvent`, `KeyDown`, `KeyUp`, `KeyRepeat`, `Reset`, `Configuration` are the event handler of T3F; `UpdateHandlers` the reading of it, with the tables of the four platforms, dead zones and the fudging of triggers; `Configuration` zeroes the state of *all* gamepads when one comes or goes, and numbers them anew, while they stay as they are held (`lost`: what the program no longer knows); `MenuLogic`, `PlayerSetup`, `GameLogic` what the program asks for in its states.

### 2.7 On the field: Posture, Arsenal, Items, Paintballs, Collision

Each takes the view of one player, one array or one body, and leaves open what the others do to it. `Posture`: the buttons' part of a turn (`Modern`, `Legacy` for characters of Paintball Party 1), gravity, walls and floors, stomps from above and below, before and after its own turn. `Arsenal`: firing, choosing (also ahead, while SELECT is held), reloading with and without turbo, running empty, powers that wear off, and the objects touched. `Items`: one step for each cell of the array of objects, in order; what is created further on is served in the same tick. `Paintballs`: the array of one player; a paintball is gone through to its end even if it was destroyed on the way, and its pieces may lie in its own cell. `Collision`: `t3f/collision.c` on whole pixels, and the order in which players, coins and paintballs use it; speeds are arbitrary up to less than a tile.

### 2.8 One program: Views, Replay, Resources, Library, Music

`Views`: `Port` and `Place` are the split of the screen by `pp2_game_setup`, `Shown` what is seen in each quarter in the end, `Seen` who can be made out in a view. A tick goes through the players; `Chat` is `TYPING_DONE`, which any client may send, and which may bring back who is out (`revived`). `Replay`: files are sequences of cells, so that reading with another set of players than was written reads nonsense, as in the code. `Resources`: memory is a set of objects, `mem.bmp` what each place points at; `Halt`, `Resume`, `Found`, `Resize` are the events of the display in the order the loop takes them; `windows` is the platform, `left` the atlases of levels that have been unloaded, and `followed` that such an atlas was followed to its freed tiles. A copy made of an animation that is not in the table shares its pixels (`stale` once the original has gone). `Library`: phases of a start (`AddFiles`, `BeginPreview`, `EndPreview`, `LoadFails`, `Run`) and of an end (`SaveConfig`, `DestroyDatabase`), `Killed` between any two. `Music`: the program and the loading thread, cut at the mutex and at the reads of `t3f_stream`.

## 3. The runs

Deadlock is checked in `arena`, whose parts never stop. `CHECK_DEADLOCK FALSE` in the other runs: users may stop for good, games end, connections close, bounds on messages and plays are used up.

| run | parts | shows |
|---|---|---|
| `session_users` | `JoynetSession`, 2 clients with 2 controllers each, 2 slots; users who leave their places, and games that fail to start | `SettledAgreement`: a client that has read its messages agrees with the server on seats, master and phase, and there is one master whenever there are players. `CountIsRoster`: the counter of players matches the slots. |
| `session_faults` | `JoynetSession`, 2 clients, 1 controller each, 2 slots; connections that break on either side and versions that mismatch, or clients that leave and games that fail to start | The counters of each client match the slots (`SeatsAccounted`), what is under way adds up to the server's roster (`RosterConverges`), pause and resume find their buffer (`BufferWhenNeeded`), the server implements `GameLobby` (`LobbySpec`). |
| `live` | `Lockstep` with 2 clients in step; with one client too late; `JoynetSession`; all fair | All run the server's ticks with its buttons (`SameTicks`) and catch up (`SteadyCatchesUp`); who is beyond its buffer loses its players (`LateLeaves`); seats of clients that are gone come free and started games start everywhere (`SessionGoesOn`). |
| `lockstep_removal` | `Connection` with datagrams that overtake; `Lockstep`, 3 players with interleaved slots, pauses and broken connections; `JoynetSession` with one client that does everything there is, in time and out of time | The server's table of clients is right (`ClientTable`). Buttons only move their own player, ticks may be lost or blank but are never out of order or run twice, and the counter of players misses no removal (`RemovalSound`). |
| `match` | `Match`, five games of 3 slots, fair | A life is worth one frag (`OneFragPerLife`), whoever plays is on the field (`NobodyStranded`), a coin rush can be won (`CoinsEnough`), the winner leads (`WinnerLeads`), results stand (`ResultStands`), the dead come back (`DeadReturn`). |
| `arena` | `Arsenal`, `Posture`, `Items` (fair), `Paintballs` | `WeaponsSound`, `FireRate`, `PostureSound`, `ItemsReturn`, `OwnerSafe` |
| `transport` | `Channel` while numbers wrap; `Channel` with losses, fair; `Connection`, fair | The channel is a queue (`ChannelIsFifo`), acknowledged is received (`AckedIsReceived`), everything is delivered (`AllDelivered`), both ends notice (`EndsNoticed`). |
| `lobby` | `Input`, `Options`, `Menus`, `Gui`, `Content`, `Setup` | `SentAsPressed`, `QuickGameIsItself`, `ScreensRight`, `SharedOffer`, `SetupRight` |
| `program` | `InputBuffer`, `Collision`, `Resources`, `Replay`, `Library`, `Music`, `Views` | The ring is a queue (`QueueSpec`), `OutOfWalls`, `AllLive`, `ReplayIsGame`, `PreviewIsOfLevel`, `HeardAsAsked`, `EveryoneSees` |
| `lockstep_drop`, `content_level`, `chat_eliminates` | findings | section 6 |

### 3.1 Bounds

*Session and lockstep*
- *Clients, slots, controllers.* Every disagreement of the session involves a client and what one other does to its slot in between, hence two clients. Two controllers cover the handlers that look at the other controllers of a client.
- `MaxRequests`: messages a client has under way when its user asks for something more. A user who does two things at once differs from one who does them in turn only when the answer to the first matters; the bound of 1 still lets a client's own answers (`SPECTATE`, `START` after `END`) queue up behind a request.
- `MaxBacklog`: the server polls only when no client has more messages waiting. One handler alone sends up to three, so queues have several messages even with 0, and the user, the network and the client's reading interleave with all of them. In `Lockstep` it bounds only pauses and the end.
- `MaxPlaying`: bounds how far `client[c]->playing` drifts; reached only where it drifts at all.
- `MaxTicks` 2, `MaxPress` 1, `MaxInputs` 1: two frames are enough for one to be lost, repeated, swapped or blank, one change of buttons is enough to tell whether it is seen, and one message is enough for input to be late.
- `MaxPending` 5 on a ring of 3: the reader is more than once overtaken in part, and the writer wraps twice.

*Transport*: 6 windows of 2 numbers, 3 of them free. Where numbers wrap, 8 commands from number 10 on, each a message of its own, up to 2 of them queued, and no losses but by age (`MaxAge` 8): numbers wrap at 12 in the middle of a window in use, and the commands go over four windows, one more than may be in use. With losses, 3 commands in messages of up to 2 and 2 datagrams under way. `Connection` has one peer and two attempts, so that the second meets what the first has left, and 2 datagrams under way; 1 where liveness is checked, which is enough for a connection to be established, used, pinged and broken. Since pings are only sent when the interval has passed, the acknowledgement that ends a handshake travels alone.

*Game*: `FadeTime` 2 and `FlashTime` 2 instead of 30: a fade still has a first and a last tick; the flash is as long as the fade in the code, and here. `life` 1 or 2, three players (the hits of two others can meet in one tick), time limits of 2 to 4 ticks, and one player who may leave. The five games are an elimination, a death match with goal and limit for three, one with stomps, a coin rush, and a death match in a level where one player can block both portals. `MaxFrags` 3 is above the goal of 2, so that the bound never decides a game; `MaxCoins` 4 allows one coin more than there is, as picking one up together makes two. In `arena`: three weapons, one shot of ammunition each (empty and full are neighbours), `Reload` 3, an odd number, two powers, one of them turbo; two items and 2 cells to spare, which two players who touch one fill up; two cells for paintballs of four kinds, which covers splitting into a full array and into the own cell.

*Collision*: tiles of 4 pixels in a level of 6 by 6 with walls around it, speeds up to 3, less than a tile as in the code; a player 3 by 6 (narrower than a tile and higher than one), a coin and a paintball; three levels, with steps, a ledge and a slope.

*Around a game*: `Options`: one weapon and two powers (one of the kind a stomp game forbids), one rule changed by hand between two games, rules of two hosts' games or replays (that of the quick games 2 and 6), and a configuration file as it was written or edited. `Menus`: stacks of up to 3, two gamepads to be bound; `Gui`: six menus that have every kind of entry, the mouse over an entry or a text. `Content`: two slots, levels 1, 2 at one client and 2, 3 at the other, 4 joinings, so that slots change hands twice. `Setup`: one slot, two clients, 2 keys, 2 joinings, the player having left at one of two steps. `Input`: two gamepads that come and go, one handler that reads the first of them and one of the keyboard, the Linux tables, with a trigger (which rests at an end of its axis) and a button. The theorems of 5.7 are for any of these values.

*Program*: `Resources`: four bitmaps (two of them tiles), a table of 3 places, atlases of one bitmap's room, 2 events waiting, on both kinds of platform. `Replay`: two players, one recorded game, a demo of 2 ticks, a step back of one tick and fast play of two. `Library`: two paths, four contents (two with the same sum, one broken), two changes, two versions. `Music`: 4 plays of three tracks, one of which is missing. `Views`: three players in five games, at one, two or three machines and one that only watches, 3 kills, cloaks or chats; fades and cloaks of 2 ticks.

The largest runs are `program` (1.6 million states), `lobby` (1 million) and `match` (110 000); `transport` has 41 000, with liveness.

### 3.2 Conditions in the properties

Several properties except, by a history variable or a condition, what the code is known to get wrong (section 6): `ScreensRight` (`flaw`), `HeardAsAsked` (`early`), `AllLive` (`strayed`, `crowded`, `stale`, `followed` with what `left` atlases hold, fonts that are blank), `OutOfWalls` (`pushed`, coins at ledges, slopes), `ReplayIsGame` (`whole`), `SentAsPressed` (keys that were cleared while held, `forgotten`; what other gamepads held when one came or went, `lost`), `QuickGameIsItself` (the worth of ammunition, in the three quick games that do not set it), `EveryoneSees` (targets of who fades or was brought back by a chat, `revived`; a fifth player at one machine), `PreviewIsOfLevel` (files saved over, equal sums, torn previews), `StepsSettle` (`hasty`), `ItemsKept` (`overflowed`), `OneFragPerLife` (stomps). `CoinsEnough` counts the coins that players who left took with them. Each exception names the cause and not the effect, so that the property still speaks of all other ways to the same effect.

## 4. Fairness

The loops of server and client run 60 times a second, and poll every time.

- `SF(ServerPoll(c))`: the server handles whatever waits. It never waits for a client; in the model the bound `MaxBacklog` makes it, again and again, so fairness is strong to give back what the bound takes.
- `WF(ClientPoll(c))`: clients poll in every state of the program.
- `SF(PeerDisconnect(c))` for a client that is gone, `WF(ClientLost(c))` when the server has dropped the peer: ENet reports the end of a connection by packet or by timeout. No fairness says that a live connection breaks.
- Users are never fair: they may join, press, start or stop, or not.
- In `Match`, `WF(Tick)`: the timer calls the game's logic (`pp2/pp2.c` 195) as long as the game is on the screen. Nobody has to hit anybody, or to leave. The same in `Items`.
- In `Lockstep`, `WF(ServerPoll)`, `WF(ClientPoll)` and `WF(ClientTick)`, but none for the server's tick: `SteadyCatchesUp` speaks of the frames that were sent.
- In `Channel`, `WF(Transmit(n))` and `WF(Timeout(n))`: both hosts are served 60 times a second, and what is not acknowledged times out. `SF(Receive(n))` and `SF(ReceiveAck(n))`: of what is sent again and again something arrives. `AllDelivered` holds as long as the sender does not give up.
- In `Connection`, `WF` for dispatching, timing out and `ServerSend(p, TRUE)`, `ClientSend(c, TRUE)` at the two sides: hosts are served 60 times a second, and while nothing is acknowledged the ping is due in the end (`protocol.c` 1630-1636). None for receiving: every datagram may be lost.

## 5. The proofs

`tlapm` checks all proofs; they hold for every number of clients, slots, controllers, weapons and levels, every length of time and every value of the bounds. The only assumptions on constants are the named ones of the components and of the modules that compose them, which TLC evaluates for its instances:

- there is at least one slot, controllers are finitely many and `Free` is not an occupied slot (`ConstantsAssumption`; `RemovalAssumption` the same for the run that has its own session); the ring has a cell (`BufferAssumption`, `LockstepAssumption`);
- fades and flashes last two ticks or more (`MatchAssumption`); there is a weapon, and games start with no more ammunition than can be carried (`ArsenalAssumption`); players have numbers, and pieces of a paintball get clear of their owner no later than a shot (`ArenaAssumption`);
- more than two windows are kept free (`ChannelAssumption`; ENet keeps 8), messages are no longer than a window, and datagrams no older than the windows allow (`TransportAssumption`, see 2.5);
- bitmaps are finitely many and tiles are some of them (`ResourcesAssumption`); files are finitely many (`LibraryAssumption`); silence is no track (`MusicAssumption`); fades last two ticks or more, and who plays at a machine is a player (`ViewsAssumption`: nothing about who chats);
- the platform is one of the four, a gamepad is no keyboard, and handlers are bound to elements the tables have (`InputAssumption`); every menu has an entry that can be chosen (`MenuAssumption`); the master is a client and a step a player can leave at is a step (`SetupAssumption`).

`ConnectionProofs` takes `Bounds` besides: numbers of peers and attempts are natural.

Induction over data, where a proof needs it, is done on sets: each proof module states, and proves from what the library says of finite sets and of the naturals, that a set of numbers with 0 and all successors is everything (`SetInduction`), that a recursive function with a step exists and keeps what its step keeps (`MadeExists`, `Iterated`, `StepByStep`), and the same over subsets (`SubsetInduction`, `SubsetSteps`). That is how folds over slots, sums of coins, searches through a menu and tables of bitmaps are reasoned about.

Where a property holds only under some behaviours, the theorem has that as a hypothesis on the constant `Behaviours`, `ASSUME Orderly PROVE Spec => []Inv`. Section 6 says what goes wrong otherwise.

### 5.1 JoynetSessionProofs

| theorem | says |
|---|---|
| `TypeCorrect` | `Spec => []TypeOK` |
| `CountCorrect` | `player_count` is the number of taken slots |
| `LobbyImplemented` | the server implements `GameLobby` |
| `NobodyJoinsInProgress` | no slot changes hands in a game |
| `OneSlotEach` | no controller plays two slots |

`TypeOK` is not inductive. That `slot` and `port` stay well typed depends on the messages under way: the slot in a `CONNECT` answer becomes a port, the port a later `DISCONNECT` request, which frees that slot. That `player_count` stays within its range depends on `CountIsRoster`: `DISCONNECT` subtracts one. So the inductive invariant `IInv` has four parts: `ServerOK` (types of the server, and `CountIsRoster`), `ClientOK` (types of the clients), `RequestsOK` and `RepliesOK` (types of what is under way). Each action has a lemma for each part it disturbs. The lemmas on cardinality say what taking a slot, freeing one and freeing a client's slots do to the number of taken slots; one lemma (by well-founded induction over the naturals, as cited from the library) says that `Lowest` is in its set, so that `Heirs` and `FirstFree` are what their names say.

`LobbyImplemented` maps `phase` to `state` and `seats` to `slot`. Each handler is one step of `GameLobby`: `HandleConnect` is `SitDown`, which needs that the seat is free and the controller not seated; `HandleDisconnect`, `HandleOverflow` and `PeerDisconnect` are `GetUp`, where calling off the game needs that no slot is taken when the counter is 0, hence `CountIsRoster` again. Everything else stutters. `OneSlotEach` is then proved for `GameLobby` and carried over.

### 5.2 JoynetSessionProofs, orderly users

What holds where users are *orderly*: `Orderly == Behaviours \cap {"repeat_back", "early_join", "overflow"} = {}`. They wait for the answer before they press again, and no client falls out of a game because it is slow. Connections may break in any way, clients may leave, versions may mismatch, games may fail to start.

| theorem | says |
|---|---|
| `SeatsCounted` | `Spec => []SeatsAccounted` |
| `MasterAlone` | no two clients are master; the master is connected and has a player |
| `OwnSlotsOnly` | who has read everything steers no slot but its own |
| `BufferThere` | `Spec => []BufferWhenNeeded` |

The invariant adds three parts to `IInv` of 5.1. `SeatsFit` says which requests and answers may be under way together: a client asks to leave only slots it holds, and nothing more about a controller after that (`RequestsFit`, `LastWord`); each controller has one answer under way at most (`OneWord`), and its port, once that has arrived, is the slot it holds (`ControlsFit`). `Books` is `SeatsAccounted` with what the master flag needs. It depends on `SeatsFit`: a `DISCONNECT` must name a slot of its sender, which is what `"repeat_back"` breaks. `PhasesFit` is for `BufferWhenNeeded`: every `PAUSE` and `RESUME` under way comes after a `START` and before the next `END` (`Running`, `PausesFit`), and who is in a game of the server is in one once it has read everything.

### 5.3 JoynetSessionProofs, agreement

| theorem | says |
|---|---|
| `RosterKnown` | where users are faithful, `Spec => []RosterConverges` |
| `AgreementReached` | where connections are steady, `Spec => []SettledAgreement` |

`Faithful` excludes only `"stop_watching"` and `"early_join"`. The roster a client ends up with is `After(s, r)`, what reading the messages `s` makes of `r`; it composes over concatenation, so a broadcast changes both sides in the same way. What is hard is the time before: a client is first not in the audience and told nothing. The handshake (`Asks`, then `Comes`, then told) says that a `SPECTATE` or `CONNECT` is under way, and that the whole roster comes with its answer.

`Steady == Behaviours \subseteq {"back", "init_fails"}`: connections hold, users wait. The idea of the proof is one notion: the *view* a client has of the server (`Views`: who is master, the phase, its seats, its roster), and what reading a message does to it (`Read`). `Reaches(s, v, w)` says that reading all of `s` leads from `v` to `w`, and `Mirrors` that `w` agrees with the server. The invariant is that what is under way to each client that has been `Greeted` leads from its view to one that mirrors the server. A client's action moves one message from `s` into `v`; a handler appends to `s` what moves the mirror along. `HasMaster` says that there is a master as soon as there are players. `SettledAgreement` is the case in which `s` is empty. TLC finds, for each other behaviour but `"wrong_version"`, a session in which `SettledAgreement` fails (section 6), so that `Steady` is nearly as weak as it can be.

### 5.4 ProgramProofs

| theorem | says |
|---|---|
| `TypeCorrect` | positions stay inside the ring |
| `NewestAlwaysKept` | the newest frames, up to the size, are in the cells behind the writer |
| `AlwaysInStep` | the counter of frames is the distance of reader and writer, modulo the size |
| `RingIsQueue` | the ring implements `FrameQueue` |
| `MusicAsAsked` | `HeardAsAsked` |
| `PreviewsRight` | `PreviewIsOfLevel` |
| `BitmapsAreHeld` | `AllLive` |
| `EveryoneIsSeen` | `EveryoneSees` |

*Ring.* Types and `NewestKept` are inductive together with what connects the newest frame to `previous_write_pos`. `InStep` counts the laps the writer has made around the reader: a wrap of the writer adds one, a wrap of the reader takes one away, and nothing bounds them but the number of frames that wait.

*Music.* For every set of tracks and any number of requests. The invariant relates where the loading thread stands to what was asked for last and to what the stream has; the exception is `early`, a stop or halt that overtook a load.

*Previews.* For any finite set of paths, all contents and sums, and any number of changes. Whatever is in the cache has a preview, the preview of a content with its sum, unless it is being written; the listing is folded over a set of paths in any order, so the invariant of the fold is proved by induction over subsets. Three cases are excepted, in the property and so in the theorem: a file saved over after its sum was taken, for which the code goes on using the old sum; a content with the sum of another that was there before; and a preview that was being written when the program was killed. The first is what the code gets wrong (section 6).

*Bitmaps.* For any finite set of bitmaps, any size of the table and of an atlas, on every platform. `BitmapsInv` has: `Sound` while bitmaps are shown (`Table`: each entry is a bitmap that is loaded and there is one entry for each; `Held`, `Filled`: each has pixels of its own and none are left over; `Placed`: atlases are of bitmaps in the table, those of a level left behind excepted), `Hollow` while the display is halted (`Voided`: none has pixels), and `InTurn`, the order in which events can wait. Giving up and loading the whole table are folds (`FoldMade`, `FoldKeeps`).

*Views.* For any number of players and every set of games, with any client chatting. `Marks` says that who has had its turn marks nobody who has been cloaked since the tick began, unless it was brought back by a chat (`network.c` 476) and has not had a turn since. The split of the screen follows from the places of the players of one machine being different as long as there are at most four.

### 5.5 MatchProofs

For every number of slots, every set of games and every length of fade and flash of at least 2 (`MatchAssumption`).

| theorem | says |
|---|---|
| `TypeCorrect` | `Spec => []TypeOK` |
| `OneFrag` | `Spec => []OneFragPerLife` |
| `EveryoneOnTheField` | `Spec => []NobodyStranded` |
| `TheWinnerLeads` | `Spec => WinnerLeads` |
| `ResultsStand` | `Spec => ResultStands` |
| `CoinsLast` | `Spec => []CoinsEnough` |

The invariant `IInv` has four parts besides `NobodyStranded`. `GameOK`: the game has a portal for everybody. `BodiesOK`, `ScoresOK`: types, and that players on the field play. `LivesOK` is what makes a life worth one frag: who is alive has not been scored on; who fades in is alive and cannot be hit; and who has no life left and has not started to fade out *flashes*. The last is the reason why a second paintball of the same tick does not count, and it is preserved because the code starts the fade at the beginning of the victim's next turn, before the flash counts down. A spawn finds a portal because the others on the field are fewer than those who started the game (`OthersAreFewer`), and `TheWinnerLeads` needs this in turn: `pp2_process_rules` only counts who is on the field. One lemma says what hits do to types, one what no hits do, and one what one paintball does; each action has a lemma. `CoinsLast` is about a sum over players, which changes by what changes for one of them (by induction over subsets): a coin picked up leaves the field for a hand, and a player who dies drops as many as find room.

### 5.6 ArenaProofs, TransportProofs

| theorem | says |
|---|---|
| `AlwaysArmed` | `Spec => []WeaponsSound` |
| `RateKept` | `Spec => []FireRate` as an action property |
| `PostureHolds` | `PostureSound` |
| `ClearOfOwner` | `OwnerSafe` |

For every number of weapons, every stock and every time to reload. That the weapon in hand is loaded follows from a lemma on the search for the next loaded weapon (`FirstLoadedIs`), but it has to be shown through all that one turn does in a row: the choice made ahead, the shot that empties the weapon, what is found. For the rate of fire the invariant is `Paced`: the ticks since the last shot and the time still to reload make up `Reload`, where ticks with turbo count twice, whatever weapon is in hand by now. `Running` (a power that is on has time left) says that turbo goes off in a turn of its own.

`PostureHolds` is for modern and legacy characters, whatever buttons are held and whatever is met. Each of the calls a turn makes has a lemma that says in which stances it leaves the player; the invariant also says, for each point between two steps of the tick, whether a stomp of this tick has been served already, which is what makes it last as long for either order of slots.

`ClearOfOwner`: for every paintball in the array the ticks it has been served and those it still needs to get clear of its owner are no fewer than a piece needs (`Clear`). The array is served by a fold over the pieces of a paintball that splits, some of which lie in the cell that is served.

`TransportProofs`:

| theorem | says |
|---|---|
| `Delivers`, `ChannelsDeliver` | the channel implements `Fifo`: in general, and as the run composes it |
| `AckedWasReceived`, `ChannelsKeep` | what the sender takes for acknowledged has been received |

For windows of any size and any number of them. The invariant `ChannelInv` has two parts. `Receiving` says that what came out are the first messages, that every fragment held belongs to a message begun behind them, and that the newest number is no more than `Free` windows ahead of the receiver. `Coming` says of every datagram under way that it is young (not much behind the newest number, or not many windows), that no command is out that is more than `Free` windows behind, and and that every other command that was sent has been taken by the receiver. `FirstSent` shows that `Blocked` is just what keeps this up when a window is entered. From it follows that two commands whose numbers look alike on the wire are never both meant, so that a number that is compared is taken for the command it is of. `Bounded` adds the sizes of the run, for the types.

### 5.7 LobbyProofs

| theorem | says |
|---|---|
| `OfferShared` | `SharedOffer`, with `OnFile` |
| `LobbySettles`, `EveryoneReady` | `StepsSettle` and `SameRules`: of `Setup`, and as the run composes it (`SetupRight`) |
| `QuickGamesAreFresh` | `QuickGameIsItself` |
| `PressedIsSent` | `SentAsPressed` |
| `ScreensAreRight` | `ScreensRight` |

`OfferShared`, for any number of clients, slots and pieces of content. The invariant is `OnFile` (what the server has on file for a player whose list has arrived is what its client has, and not what the slot's last player left) and `Stocked` (nothing is offered that one of the lists on file lacks). The point is a slot that changes hands: until the new list arrives the slot is not `known`, and whether the offer is then renewed does not depend on its size. What `content_level` (section 6) shows is another thing: that the clients are only told when the size has changed.

`LobbySettles`, for every number of clients that watch, come and go, every set of rules and any number of keys and joinings. `SetupInv` says what is under way in each phase: before the player is seated (`Away`, `Greeting`, `Places`), before and after the start (`BeforeStart`, `AfterStart`), and `Follow`: unless the server is going to be told another step (`Due`), the player's own client sees the server's step, and each other client sees it, or is going to be told it last, or a key is on its way at the step before. Queues grow at one end and are read at the other, so there is one lemma for each (`Grown...`, `Read...`), and one for each kind of step (`Keyed`, `Heard`, `Served`, `WatchInv`, `LoseInv`).

`QuickGamesAreFresh`, for all weapons and powers: the rules keep exactly their names, and each quick game writes all of those that mean something in it. The worth of a box of ammunition is an exception in coin rush, battle royale and exploring: only the death match writes it (`menu_proc.c` 2167), so there it stays as the game, host, replay or file before has left it. The exception is in the property, by name (`WorthAsFound`).

`PressedIsSent`, with the tables of all four platforms and for all gamepads and handlers. `StatesKnown` says that the state of an element the program has is that of the device, or that of an element the program has `lost`; `Standing` what a trigger that never moved stands at; `KeysKnown` the same for keys. `HeldIsPressed` and `StillIsNotHeld` go through the tables. What is excepted is what the program forgets: keys held when keys were cleared, and what was not at rest on other gamepads when one came or went (`t3f.c` 1242-1246). The held is left out until the next event of its gamepad; a trigger at rest then counts as held until it moves.

`ScreensAreRight`, for all menus with something to choose, however deep they are stacked. `MenusInv` is the property with what depends on the timer and the thread of a connection (`Connected`), on the pause (`Paused`), on what is in memory (`InMemory`) and on the bottom of the stack (`AtHome`, `Shown`). There is one lemma for each kind of step. For `Gui`, the highlight comes by an entry (`ComesBy`, `Arrives`): a step leads to the next entry that can be chosen, so that as many steps as there are entries pass them all, in either direction.

### 5.8 ConnectionProofs

| theorem | says |
|---|---|
| `TypeCorrect` | `Spec => []TypeOK`, datagrams under way included |
| `TableRight` | `Spec => []ClientTable` |
| `RoomForEach` | a peer that ENet reports finds a free entry |
| `OnePeerEach` | no two peers of the server are of the same attempt |
| `RemovalsAreSound` | `RemovalSound`, of the game and the session the run puts beside the connection |

`Table` says that entries and reported peers point at each other. If a peer that is reported found no free entry, the entries would be an injection of all peers into the others, which cannot be (`FreeEntry`). `Reported` says of each thing ENet does to a peer whether it passes into or out of the states the application knows, and that it reports exactly then. `OneEach` is why no client is entered twice: a `CONNECT` that arrives again is recognised by its number as long as its peer is not free, and once that is free the attempt is not taken up again.

`RemovalsAreSound` cites `OwnButtons` and `ShortGamesInOrder` of 5.9 and `CountCorrect` of 5.1, after having shown that the constants of the run satisfy what these assume: a game of two ticks does not outrun a ring of four cells.

### 5.9 LockstepProofs

| theorem | says |
|---|---|
| `TypeCorrect` | `Spec => []TypeOK`; `frames` never exceeds what is in the buffer |
| `OwnButtons` | `Spec => []OwnInput` |
| `InOrder` | `Spec /\ []InTime => []TicksInOrder` |
| `AllTheSame` | where `Behaviours \subseteq {"end"}`, `Spec /\ []InTime => []SameTicks` |
| `ShortGamesInOrder`, `ShortGamesTheSame` | the same two without `InTime`, where `MaxTicks <= MaxBuffer` |

A frame is bits without names, so everything turns on which roster a client will have when it comes to read it. `Left(s, r, i)` is who is left of roster `r` after the first `i` messages of `s`, and `Runs(s, ph, i)` whether the game is on then. The invariant says that each frame under way finds the game on and is a frame of the players left at that point (`Good`), and that in the end those are the players of the server (`Ends`). Sending appends to `s` and reading takes its head, so both are lemmas about sequences (`SendInput`, `SendRemovals`, `SendTurn`; `Later`, `GoodLater`). That `Decode` undoes `Encode` for every roster is `EncodeAt`, from lemmas on `Rank`. Towards the server one more fact is needed: the server drops either all players of a client or none, so what a client encodes for all of its players is decoded for all of them (`playing \cap Mine(c) \in {{}, Mine(c)}`).

For the order of ticks, `Line(c)` is what a client has run followed by what it would run of its buffer. `Newest` says that the frames under way are the *last* the server sent, the `i`-th message having `Behind(s, i)` frames behind it. So reading a frame extends the line by the next frame of the server, running one moves it along the line and changes nothing (`TickKeepsLine`), a removal blanks the tail, and `PAUSE`, `RESUME` and `END` cut it off; a line that is in order stays so (`Ordered`). Where nobody leaves or pauses, the line *is* the beginning of the server's frames, up to those under way (`SInv`).

`InTime` says that no client has more frames waiting than its ring has cells. It is a hypothesis on the behaviour, since nothing in the code ensures it: a client that is late tells the server and goes on reading. Without it the two theorems are false. With a ring of one cell and two frames waiting, the older has been overwritten, and the newer is run twice. A game with no more ticks than the ring has cells is always in time, which gives the two theorems on short games: they have no hypothesis on the behaviour.

### 5.10 What is only model-checked

- Liveness (`SteadyCatchesUp`, `LateLeaves`, `SessionGoesOn`, `DeadReturn`, `ItemsReturn`, `AllDelivered`, `EndsNoticed`), since fairness and `ENABLED` are out of the prover's reach.
- `OutOfWalls`: the points tested along the edges of a body, against tiles of any size, are arithmetic with products and divisions in every step, which the solver does not do for sizes that are variables. The run has every pair of a body and an edge of a tile in it.
- `ReplayIsGame`: reading with other players than were written depends on where each cell lies in the file; the relation of the file to the ticks run, under steps back and restarts, has not been put into an invariant.

All other properties of the runs are proved too.

## 6. What the code does differently from what it says

Each of these is the counterexample of a run.

1. `lockstep_drop`: when a player is removed, the loop that copies the waiting frames to the new buffer (`joynet/game_message.c` 1204-1240) reads into the old buffer from the scratch area instead of the reverse. Waiting frames become blank at a client that had not run them, while others ran the real ones: their games differ from then on.
2. `content_level`: the new list of shared levels is sent, and selections "adjusted to ensure players have selected content that everyone has" (727), only when the size of the list has changed (703). A player leaves who lacked one level, another arrives who lacks a different one: the list is as long as before, and the game starts with a level the newcomer does not have. Where selections are adjusted, the server announces the replacement without noting it.
3. `chat_eliminates`: at the end of a chat each player of the client is given the flags of the slot numbered like its place in the message (`pp2/gameplay/network.c` 476), not its own without `TYPING`. A player is out who has lost no life.

Seen on the way, and behind the choice of behaviours in the runs and of conditions in the properties.

*Session and lockstep*
- `INPUT` that was sent before `END` was read finds no input buffer at the server (211); the handler for mice checks this (168), the one for controllers does not. In `Lockstep` the server is then `DEAD`.
- `DISCONNECT` frees the slot it names without looking who owns it (424). If a user presses the button twice before the answer, and another client takes the slot in between, the second request takes out the other's player, whose controller keeps a port that nobody plays (`ControlAgreement` with `"repeat_back"`).
- When the master's connection breaks the heir gets `ASSIGN_MASTER`, but `client[heir]->master` is not set (143-147), unlike in `DISCONNECT` (453). When the heir's connection breaks too, nobody becomes master, and the players who stay can neither start nor end a game (`MasterUnique` with `"drop"` and three clients).
- An overflowing client's counter and master flag are left as they were, so that `SeatsAccounted` and `MasterUnique` do not survive an overflow.
- Joining before the version check is answered joins a local game that is not undone. A `DISCONNECT` for that slot, or a repeated one, takes the counter of the client to -1; after a join it is 0 while the client plays, and when its connection ends the slot is not freed (93).
- A pause drops the frames that happen to wait at each client, so clients that pause with different numbers of frames run different ticks afterwards.
- The buttons a slot held when the last game ended are held at the start of the next (814).

*The game*
- Two who hit each other may start to fade out in the same tick, since one is hit after its turn and the other before it in the next tick. Then nobody remains, an elimination ends with winner -1, and the screen that follows reads the player of slot -1 (`pp2/gameplay/game.c` 809).
- A stomp hurts players who flash, fade in or have no life left, unlike a paintball ("don't deal damage when player is recently hit or if they are spawning", `sprites/paintball.c` 754): a life may count as several frags.
- A coin that two players touch in one tick counts for both. The coins of a player who is removed are gone, and with them the chance to collect all of them.
- When two reach the goal in the same tick, each fades out the other, both vanish, and the one in the higher slot has won.
- A player whose spawn fails never comes back, and is not counted when time is up.
- A generator that finds the array of objects full goes away with its item (`sprites/objects.c` 112); two players who touch an item in one tick leave two generators behind, and the item is there twice (144).
- A player who is set back from another has turned round when the walls are tested, and may end in one; so may a coin that is set back from a ceiling over a ledge it has not left.
- With five players at one machine the fifth is drawn over the others; the dead who fade keep the mark of their target, cloaked or not, and a chat (`network.c` 476) may bring somebody back with the target he had when he went out.

*Around it*
- Registration with the list of servers always fails: both callers pass no password (`network/server.c` 166, `server/pp2_server.c` 461), `t3net_escape` makes `NULL` of the empty string (`t3net/t3net.c` 256-260), so `t3net_add_argument` fails (293-298) and no request is made. No server is ever listed, and the thread that would keep it listed never starts.
- Leaving a server in mid-game, or a level that fails to load, leave joynet's phase as it was; a pause opened at a main menu leaves no way back to it; a watcher may be put into a game that is not loaded (the flaws of `Menus`).
- A stop, or a display that goes away, while a track is being loaded is lost, and the track sounds all the same.
- A level saved over another after its sum was taken, or one whose preview was being written in a crash, has a wrong or broken preview until its sum changes; so has one whose sum is that of another that was there before. A preview that cannot be saved (`preview.c` 563) and a cache that is torn are not in the model.
- The tiles of a level are put on an atlas when it is read (`file/level.c` 289) and once more at the start of a game (`pp2/gameplay/init.c` 285). The second atlas takes the place of the first in the tileset (`t3f/tilemap.c` 225), so that unloading the level destroys the second only: the first keeps referring to freed tiles, and the next time the display is lost or changed the code follows it there (`t3f/atlas.c` 198-205). `AllLive` says nothing from then on (`followed`).
- A copy of an animation whose bitmap is not in the table shares its pixels (`t3f/animation.c` 158, `t3f/resource.c` 416), and dangles once the original has gone.
- The worth of a box of ammunition, changed by hand, by a host or by a replay, survives into the quick games of coin rush, battle royale and exploring: only the death match sets it (`menu_proc.c` 2167).
- When a gamepad comes or goes, `t3f.c` 1242-1246 zeroes what is known of all gamepads: a button held on another one is not sent until the next event of that one, and a trigger at rest at -1 counts as pressed until it moves. The others may have new numbers.
- A replay of a game that a player left, or of one with a slot set up by nobody, reads the wrong buttons from then on. One tick more than recorded is run, since the end of the file is only noticed behind it; it runs with every button held.
- A key pressed between the two messages that seat a player is not passed on (`hasty`). Who only watches is not told the rules when it comes.

## 7. The plan

In this order; what is not marked is done.

1. `JoynetSession`, `GameLobby`: slots, masters, phases, with proofs of the server's part.
2. `InputBuffer`, `FrameQueue`, with proofs.
3. `Lockstep`: a game from `START` to `END`, with proofs. *To come*: several games in a row, with the buttons held over, and spectators who join.
4. `Match`: hits, lives, frags, coins, and the end of a game in each mode, with proofs. *To come*: its ticks as those of `Lockstep`.
5. `Channel`, `Fifo`, `Connection`: what the session takes for granted. *To come*: `JoynetSession` over two channels.
6. `Content`, `Setup`, `Options`, `Menus`, `Gui`, `Input`: everything before a game.
7. `Posture`, `Arsenal`, `Items`, `Paintballs`, `Collision`: everything in a tick besides scores.
8. `Views`, `Replay`, `Resources`, `Library`, `Music`.
9. *To come*: `InputCodec`, the sort of a client's controllers against the server's decoding, over the orders a library's sort may leave; `KeepAlive`, the thread that polls while a level loads, with the handlers cut at their accesses to shared data; `Chat`; `Rollback`.

Theorems to come: `OutOfWalls`, `ReplayIsGame` (see 5.10).

## 8. What is not modelled

- *Speeds, gravity, angles, cameras, pixels and sounds*: floating point; the models leave open where things are and how fast, and keep what is decided by it.
- *ENet's throttle, bandwidth limits, compression, unreliable and unsequenced commands*: not used by the game, or only about when a datagram goes out. *Allegro* and the master server are external.
- *The public list of servers*: registration never makes a request (section 6), so that nothing of what would follow can happen. Nor does the program read the list with more than one blocking request after the other.
- *Formats of files and packets*: `serialize.c`, `file/*`, `legacy/*`.
- *Games of mice* (`JOYNET_GAME_TYPE_MOUSE`): Paintball Party 2 only uses controllers. *Axes*: the game has none (`controller_axes` is 0), and 8 buttons, hence one byte a player.
- *Controller order*: `joynet_qsort_controllers` gives `qsort` a comparator that is no order when two controllers have no port; what comes of it is up to the library. *The keep-alive thread*: it polls during `START`, concurrently with the handler that loads; a model needs every handler cut at each access. *Chat and rollback*: relayed text, and code nobody calls.
- *Editors, intro, themes*: sequential tools apart from the game, and the loading of fixed files.
- *Failing allocations*: the code has few paths for them but a crash.
- *Real time*: any delay is possible in the models, and timers count ticks.
