------------------------------- MODULE LiveClient -------------------------------
(***************************************************************************)
(* The team-match session of LiveMatchClient.ts, from the matchmaker's     *)
(* answer to the end of the match: the first join, play with numbered      *)
(* dispatches, and the reconnect over fresh sockets.                       *)
(*                                                                         *)
(* JavaScript runs one callback at a time, but attemptTwoVTwoReconnect     *)
(* awaits twice: what it finds when a socket is open, or when its join is  *)
(* answered, may be another session phase than the one it left.  Messages  *)
(* of a socket come in order; the answer to a join and the match_started   *)
(* the join causes are sent by two goroutines and come in either order.    *)
(* A timer that runs may fire at any moment.                               *)
(*                                                                         *)
(* The server is the client's slot of live2v2.go as Live2v2 has it, one    *)
(* device, no queue before and no rematch after.  The transport option is  *)
(* always there, as in NakamaClient.ts.                                    *)
(***************************************************************************)
EXTENDS Integers, Sequences, FiniteSets

CONSTANTS
  LastSocket,     \* bound: reconnect attempts of a session
  MaxCommands,    \* bound: dispatches of a session
  MaxSent,        \* bound: messages on their way to the server
  LastSurrender,  \* bound: the last socket a surrender is sent on
  NoSocket

ASSUME LiveClientAssumption ==
  /\ LastSocket \in Nat /\ MaxCommands \in Nat /\ NoSocket \notin Nat
  /\ MaxSent \in Nat /\ LastSurrender \in Nat

Sockets == 0..LastSocket     \* 0 is the one the queue was on

VARIABLES
  phase,         \* of the session; "none" once close() dropped it
  known,         \* canonicalMatchId is set
  next,          \* nextSequence
  socket,        \* session.socket
  heard,         \* the socket whose handlers act, or NoSocket
  recon,         \* session.reconnect is not null
  timers,        \* running timers; see TimersOff
  stage,         \* of every socket's attempt
  link, up, down,               \* connections and the messages on their way
  match, presence, expected,    \* the server: phase, session and nextSeq of the slot
  shut, answering     \* the slot is closed for good; joins to answer

client == <<phase, known, next, socket, heard, recon, timers, stage>>
wire   == <<link, up, down>>
server == <<match, presence, expected, shut, answering>>
vars   == <<client, wire, server>>

(* attempt is the timer reconnect.attemptTimer refers to, loose those it   *)
(* no longer does; resync has the sockets that wait for match_started, and *)
(* held the one whose timer reconnect.resyncTimer refers to.               *)
TimersOff == [attempt |-> FALSE, loose |-> 0, deadline |-> FALSE, resync |-> {}, held |-> NoSocket]

Msg(kind, seq) == [kind |-> kind, seq |-> seq]

Init ==
  /\ phase = "connecting" /\ known = FALSE /\ next = 0
  /\ socket = 0 /\ heard = 0 /\ recon = FALSE /\ timers = TimersOff
  /\ stage = [s \in Sockets |-> IF s = 0 THEN "done" ELSE "unused"]
  /\ link = [s \in Sockets |-> IF s = 0 THEN "open" ELSE "none"]
  /\ up = [s \in Sockets |-> IF s = 0 THEN <<Msg("join", 0)>> ELSE <<>>]
  /\ down = [s \in Sockets |-> <<>>]
  /\ match = "lobby" /\ presence = NoSocket /\ expected = 0 /\ shut = FALSE /\ answering = {}

-----------------------------------------------------------------------------
(* Sockets.                                                                *)

(* What the server sends; a socket nobody listens to drops it.             *)
Listens(s) == heard = s \/ stage[s] = "joining"
Told(s, kind, seq) ==
  IF s # NoSocket /\ link[s] = "open" /\ Listens(s)
    THEN [down EXCEPT ![s] = Append(@, Msg(kind, seq))] ELSE down

Sent(s, m) == IF link[s] = "open" THEN [up EXCEPT ![s] = Append(@, m)] ELSE up

(* The server takes the next message of a session.                         *)
Takes(s, kind) ==
  /\ up[s] # <<>> /\ Head(up[s]).kind = kind
  /\ up' = [up EXCEPT ![s] = Tail(@)]

(* The connection breaks: what is on its way still arrives, or does not.   *)
(* The loss of a socket that matters to nobody is left out.                *)
Lose(s) ==
  /\ link[s] = "open" /\ (Listens(s) \/ presence = s)
  /\ link' = [link EXCEPT ![s] = "lost"]
  /\ down' \in {[down EXCEPT ![s] = rest \o (IF Listens(s) THEN <<Msg("disconnect", 0)>> ELSE <<>>)] :
                 rest \in {<<>>, down[s]}}
  /\ up' \in {up, [up EXCEPT ![s] = <<>>]}
  /\ UNCHANGED <<client, server>>

(* The client's own disconnect(): nothing of the socket is heard again.    *)
Disconnected(s) == [link EXCEPT ![s] = "closed"]

-----------------------------------------------------------------------------
(* The server.                                                             *)

(* MatchJoinAttempt and MatchJoin.  The answer to the first join changes   *)
(* nothing of the session: an error event, or ready, is all it causes.     *)
Over == match \in {"finished", "cancelled", "gone"}
Join(s) ==
  /\ Takes(s, "join")
  /\ IF Over \/ shut
       THEN /\ down' = IF s = 0 THEN down
                      ELSE Told(s, IF match = "gone" THEN "failed" ELSE "refused", 0)
            /\ UNCHANGED server
       ELSE /\ presence' = s /\ answering' = answering \cup ({s} \ {0})
            /\ down' = IF match = "playing" THEN Told(s, "started", expected) ELSE down
            /\ UNCHANGED <<match, expected, shut>>
  /\ UNCHANGED <<client, link>>

AnswerJoin(s) ==
  /\ s \in answering
  /\ answering' = answering \ {s}
  /\ down' = Told(s, "joined", 0)
  /\ UNCHANGED <<client, link, up, match, presence, expected, shut>>

Leave(s) ==
  /\ presence = s /\ ~Over
  /\ link[s] # "open" /\ up[s] = <<>>
  /\ presence' = NoSocket
  /\ UNCHANGED <<client, wire, match, expected, shut, answering>>

(* handleDispatch; the rules of the game may refuse any command.  Only an  *)
(* accepted one moves nextSeq.  The acknowledgement changes what the       *)
(* client predicts, and nothing of its session.                            *)
HandleDispatch(s) ==
  /\ Takes(s, "dispatch")
  /\ LET seq == Head(up[s]).seq IN
     \/ /\ presence = s /\ match = "playing" /\ ~shut /\ seq = expected
        /\ expected' = expected + 1
     \/ UNCHANGED expected
  /\ UNCHANGED <<client, link, down, match, presence, shut, answering>>

(* A surrender shuts the slot and kicks its presence; in the lobby it      *)
(* cancels the match.                                                      *)
HandleSurrender(s) ==
  /\ Takes(s, "surrender")
  /\ \/ /\ presence = s /\ match = "playing"
        /\ shut' = TRUE /\ presence' = NoSocket
        /\ UNCHANGED <<match, down>>
     \/ /\ presence = s /\ match = "lobby"
        /\ match' = "cancelled" /\ down' = Told(s, "cancelled", 0)
        /\ UNCHANGED <<shut, presence>>
     \/ /\ presence # s \/ Over
        /\ UNCHANGED <<shut, presence, match, down>>
  /\ UNCHANGED <<client, link, expected, answering>>

(* The lobby is over, for reasons that lie with the other players too.  A  *)
(* match that starts without this client is one it never comes back to.    *)
StartMatch ==
  /\ match = "lobby" /\ presence # NoSocket
  /\ match' = "playing"
  /\ down' = Told(presence, "started", expected)
  /\ UNCHANGED <<client, link, up, presence, expected, shut, answering>>

CancelMatch ==
  /\ match \in {"lobby", "playing"}
  /\ match' = "cancelled"
  /\ down' = Told(presence, "cancelled", 0)
  /\ UNCHANGED <<client, link, up, presence, expected, shut, answering>>

EnforceReconnectGrace ==
  /\ match = "playing" /\ presence = NoSocket /\ ~shut
  /\ shut' = TRUE
  /\ UNCHANGED <<client, wire, match, presence, expected, answering>>

FinishMatch ==
  /\ match = "playing"
  /\ match' = "finished"
  /\ down' = Told(presence, "finished", 0)
  /\ UNCHANGED <<client, link, up, presence, expected, shut, answering>>

(* The loop returns nil: with match_closed after the rematch window, with  *)
(* nothing after a cancellation.                                           *)
EndMatch ==
  /\ match \in {"finished", "cancelled"}
  /\ match' = "gone"
  /\ down' = IF match = "finished" THEN Told(presence, "closed", 0) ELSE down
  /\ UNCHANGED <<client, link, up, presence, expected, shut, answering>>

Server ==
  \/ \E s \in Sockets : Lose(s) \/ Join(s) \/ AnswerJoin(s) \/ Leave(s)
                        \/ HandleDispatch(s) \/ HandleSurrender(s)
  \/ StartMatch \/ CancelMatch \/ EnforceReconnectGrace \/ FinishMatch \/ EndMatch

-----------------------------------------------------------------------------
(* The session: reconnecting.                                              *)

TornDown ==     \* teardownTwoVTwoReconnectTimers
  IF recon THEN [timers EXCEPT !.attempt = FALSE, !.deadline = FALSE,
                               !.resync = @ \ {timers.held}, !.held = NoSocket]
           ELSE timers

BeginReconnect ==
  IF phase # "active" THEN UNCHANGED <<phase, recon, timers>>
  ELSE /\ phase' = "reconnecting" /\ recon' = TRUE
       /\ timers' = [timers EXCEPT !.attempt = TRUE, !.deadline = TRUE, !.held = NoSocket]

FinishReconnect ==
  IF phase # "reconnecting" THEN UNCHANGED <<phase, recon>>
  ELSE phase' = "reconnect_failed" /\ recon' = FALSE

(* scheduleNextTwoVTwoReconnectAttempt, from timers set.  A timer that     *)
(* was running already is forgotten, not cleared.                          *)
Scheduled(set) ==
  IF phase # "reconnecting" THEN set
  ELSE [set EXCEPT !.attempt = TRUE, !.loose = IF set.attempt THEN @ + 1 ELSE @]

DeadlineFires ==
  /\ timers.deadline
  /\ timers' = IF phase = "reconnecting" THEN TornDown ELSE [timers EXCEPT !.deadline = FALSE]
  /\ FinishReconnect
  /\ UNCHANGED <<known, next, socket, heard, stage, wire, server>>

(* A timer fires and the transport is asked for a socket.                  *)
AttemptFires ==
  /\ \/ timers.attempt /\ timers' = [timers EXCEPT !.attempt = FALSE]
     \/ timers.loose > 0 /\ timers' = [timers EXCEPT !.loose = @ - 1]
  /\ IF phase # "reconnecting" THEN UNCHANGED stage
     ELSE \E s \in Sockets :
            /\ stage[s] = "unused" /\ \A t \in 0..(s - 1) : stage[t] # "unused"
            /\ stage' = [stage EXCEPT ![s] = "opening"]
  /\ UNCHANGED <<phase, known, next, socket, heard, recon, wire, server>>

(* The transport gives no socket.                                          *)
OpenFails(s) ==
  /\ stage[s] = "opening"
  /\ stage' = [stage EXCEPT ![s] = "done"]
  /\ timers' = Scheduled(timers)
  /\ UNCHANGED <<phase, known, next, socket, heard, recon, wire, server>>

(* The first await returns: the socket is bound, and asked to join.        *)
AnyPhase == TRUE                                                     \* mutant
StillReconnecting == phase = "reconnecting"
Opened(s) ==
  /\ stage[s] = "opening"
  /\ IF StillReconnecting
       THEN /\ socket' = s /\ heard' = s
            /\ stage' = [stage EXCEPT ![s] = "joining"]
            /\ link' = [link EXCEPT ![s] = "open"]
            /\ up' = [up EXCEPT ![s] = <<Msg("join", 0)>>]
            /\ down' = [t \in Sockets |-> IF stage[t] = "joining" THEN down[t] ELSE <<>>]
       ELSE /\ stage' = [stage EXCEPT ![s] = "done"]
            /\ UNCHANGED <<socket, heard, link, up, down>>
  /\ UNCHANGED <<phase, known, next, recon, timers, server>>

Deaf(s) == IF heard = s THEN NoSocket ELSE heard     \* detachSocketHandlers

Answered(s) == IF phase = "active" THEN "overtaken" ELSE "done"

(* The second await returns and the resync timer starts.  Without a        *)
(* session.reconnect the assignment of resyncTimer then throws, and the    *)
(* catch gives the fresh socket up.                                        *)
JoinSucceeds(s) ==
  /\ stage' = [stage EXCEPT ![s] = Answered(s)]
  /\ timers' = [timers EXCEPT !.resync = @ \cup {s}, !.held = IF recon THEN s ELSE @]
  /\ IF recon THEN UNCHANGED <<heard, link>>
     ELSE heard' = Deaf(s) /\ link' = Disconnected(s)
  /\ UNCHANGED <<phase, recon>>

(* An answer in TERMINAL_REJOIN_CODES ends the reconnect.                  *)
JoinFails(s, terminal) ==
  /\ stage' = [stage EXCEPT ![s] = Answered(s)]
  /\ heard' = Deaf(s) /\ link' = Disconnected(s)
  /\ IF terminal /\ phase = "reconnecting"
       THEN FinishReconnect /\ timers' = TornDown
       ELSE timers' = Scheduled(timers) /\ UNCHANGED <<phase, recon>>

(* No answer comes any more: the request times out in the socket library.  *)
JoinTimesOut(s) ==
  /\ stage[s] = "joining" /\ link[s] # "open"
  /\ \A k \in DOMAIN down[s] : down[s][k].kind \notin {"joined", "refused", "failed"}
  /\ JoinFails(s, FALSE)
  /\ UNCHANGED <<known, next, socket, up, down, server>>

ResyncFires(s) ==
  /\ s \in timers.resync
  /\ LET rest == [timers EXCEPT !.resync = @ \ {s}] IN
     IF phase = "reconnecting" /\ socket = s
       THEN heard' = Deaf(s) /\ link' = Disconnected(s) /\ timers' = Scheduled(rest)
       ELSE timers' = Scheduled(rest) /\ UNCHANGED <<heard, link>>
  /\ UNCHANGED <<phase, known, next, socket, recon, stage, up, down, server>>

-----------------------------------------------------------------------------
(* The session: play.                                                      *)

(* A send on a closed socket fails, one on a lost socket may; what fails   *)
(* may have gone out all the same.                                         *)
Send(m) ==
  \/ link[socket] # "closed" /\ up' = Sent(socket, m) /\ UNCHANGED <<phase, recon, timers>>
  \/ up' \in {up, Sent(socket, m)} /\ BeginReconnect

SendDispatch ==
  /\ phase = "active" /\ next < MaxCommands /\ Len(up[socket]) < MaxSent
  /\ next' = next + 1
  /\ Send(Msg("dispatch", next))
  /\ UNCHANGED <<known, socket, heard, stage, link, down, server>>

SendSurrender ==
  /\ phase \in {"connecting", "active"}
  /\ socket <= LastSurrender /\ Len(up[socket]) < MaxSent
  /\ Send(Msg("surrender", 0))
  /\ UNCHANGED <<known, next, socket, heard, stage, link, down, server>>

Close ==
  /\ phase # "none"
  /\ phase' = "none" /\ heard' = NoSocket
  /\ timers' = TornDown
  /\ link' = Disconnected(socket)     \* leaveMatch
  /\ UNCHANGED <<known, next, socket, recon, stage, up, down, server>>

UnlessActive == phase \notin {"active", "none"}                      \* mutant
Resumable == phase \in {"connecting", "reconnecting"}

OwnCursor(seq) == 0                                                  \* mutant
AdoptedCursor(seq) == seq

(* handleTwoVTwoMatchStarted: start or resync, else ignored.               *)
MatchStarted(seq) ==
  IF ~Resumable THEN UNCHANGED <<phase, known, next, recon, timers>>
  ELSE /\ phase' = "active" /\ known' = TRUE
       /\ next' = AdoptedCursor(seq)
       /\ timers' = IF phase = "reconnecting" THEN TornDown ELSE timers
       /\ recon' = FALSE

(* match_result, compared with a match id that only match_started gives.   *)
(* The server sends one; a session that heard it ignores others.           *)
MatchResult(outcome) ==
  /\ phase' = IF known /\ phase \in {"connecting", "active", "reconnecting", "reconnect_failed"}
                THEN outcome ELSE phase
  /\ UNCHANGED <<known, next, recon, timers>>

MatchClosed ==
  /\ phase' = IF phase = "finished" /\ known THEN "expired" ELSE phase
  /\ UNCHANGED <<known, next, recon, timers>>

EventOnly == UNCHANGED <<phase, known, next, recon, timers>>   \* mutant
(* ondisconnect; of a session that is not active it is an event only.      *)
OnDisconnect == BeginReconnect /\ UNCHANGED <<known, next>>

HandleMatchData(m) ==
  CASE m.kind = "started"                 -> MatchStarted(m.seq)
    [] m.kind \in {"finished", "cancelled"} -> MatchResult(m.kind)
    [] m.kind = "closed"                  -> MatchClosed
    [] OTHER                              -> OnDisconnect   \* "disconnect"

(* The next message of a socket: an answer goes to the promise that waits, *)
(* all else to the handlers, which act for one socket only.                *)
Receive(s) ==
  /\ down[s] # <<>> /\ link[s] # "closed"
  /\ down' = [down EXCEPT ![s] = Tail(@)]
  /\ LET m == Head(down[s]) IN
     \/ /\ m.kind \in {"joined", "refused", "failed"}
        /\ IF m.kind = "joined" THEN JoinSucceeds(s) ELSE JoinFails(s, m.kind = "refused")
        /\ UNCHANGED <<known, next>>
     \/ /\ m.kind \notin {"joined", "refused", "failed"}
        /\ IF heard = s THEN HandleMatchData(m)
           ELSE UNCHANGED <<phase, known, next, recon, timers>>
        /\ UNCHANGED <<heard, stage, link>>
  /\ UNCHANGED <<socket, up, server>>

Client ==
  \/ SendDispatch \/ SendSurrender \/ Close
  \/ DeadlineFires \/ AttemptFires
  \/ \E s \in Sockets : JoinTimesOut(s) \/ ResyncFires(s) \/ Receive(s)

(* After close() only a socket that was being opened is still dealt with.  *)
Next ==
  \/ phase # "none" /\ (Server \/ Client)
  \/ \E s \in Sockets : OpenFails(s) \/ Opened(s)

Spec == Init /\ [][Next]_vars

(* Timers that run fire, and what was received is handled.  Nothing is     *)
(* assumed of the server, of the transport or of the player.               *)
FairSpec ==
  /\ Spec
  /\ WF_vars(DeadlineFires)
  /\ \A s \in Sockets : WF_vars(Receive(s))

-----------------------------------------------------------------------------
(* Properties.                                                             *)

Ended == {"reconnect_failed", "finished", "cancelled", "expired", "none"}
Phases == Ended \cup {"connecting", "active", "reconnecting"}
Stages == {"unused", "opening", "joining", "done", "overtaken"}

TypeOK ==
  /\ phase \in Phases /\ known \in BOOLEAN
  /\ next \in 0..MaxCommands
  /\ socket \in Sockets /\ heard \in Sockets \cup {NoSocket}
  /\ recon \in BOOLEAN /\ stage \in [Sockets -> Stages]
  /\ expected \in 0..MaxCommands

(* The answer to the join, or its time-out, came after match_started had   *)
(* resumed the session on that socket, and gave the socket up under it.    *)
(* The next command finds it closed, and begins another reconnect.         *)
Overtaken == stage[socket] = "overtaken"

Served == phase = "active" /\ heard = socket /\ link[socket] = "open"

(* An active session acts on a socket that is bound and not given up, or   *)
(* will learn of its loss, and does not fall behind the server: whatever   *)
(* attempts were under way when it resumed, no sequence the server has     *)
(* accepted is used again ("restored sessions never replay already         *)
(* accepted commands", LiveMatchClient.ts:831).                            *)
ActiveIsServed ==
  phase = "active" =>
    /\ next >= expected
    /\ \/ Overtaken
       \/ heard = socket /\ (link[socket] = "lost" =>
            \E k \in DOMAIN down[socket] : down[socket][k].kind = "disconnect")

(* What has ended stays ended: the session of a match that is over, given  *)
(* up ("treats exhaustion as terminal", LiveMatchClient.ts:37) or closed   *)
(* does not come back with a late match_started, and no attempt that was   *)
(* awaiting its socket binds it ("never leave an orphan socket bound").    *)
EndedStaysEnded ==
  [][(phase \in Ended) => phase' \in Ended /\ heard' \in {heard, NoSocket}]_vars

(* A loss of the connection is overcome: the session resumes or ends.      *)
LossIsOvercome ==
  phase = "active" /\ ~Served ~> Served \/ phase \in Ended \/ Overtaken

(* docs/2v2-architecture.md:535, "match cancels (`match_result` with       *)
(* `cancelled` outcome ...) and the matchmaker re-queues survivors         *)
(* client-side": a client in the lobby that hears of the cancellation does *)
(* not go on waiting for the match.                                        *)
CancelledIsHeard ==
  [][(/\ phase = "connecting"
      /\ down[socket] # <<>> /\ Head(down[socket]).kind = "cancelled"
      /\ down'[socket] = Tail(down[socket]) /\ link'[socket] = "open")
     => phase' # "connecting"]_vars
=============================================================================
