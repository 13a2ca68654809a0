---------------------------- MODULE LiveClientProofs ----------------------------
(***************************************************************************)
(* Proofs about LiveClient, for any number of reconnect attempts and of    *)
(* dispatches: types, that an active session is served and not behind the  *)
(* server, that what has ended stays ended, and that a session which       *)
(* reconnects has a deadline.                                              *)
(***************************************************************************)
EXTENDS LiveClient, TLAPS

(* Queues of messages.                                                     *)
Kinds == {"join", "dispatch", "surrender", "started", "finished", "cancelled", "closed",
          "joined", "refused", "failed", "disconnect"}
Message == [kind : Kinds, seq : 0..MaxCommands]

Has(q, kind) == \E k \in 1..Len(q) : q[k].kind = kind
JoinsFirst(q) == \A k \in 1..Len(q) : q[k].kind = "join" => k = 1
StartsOnce(q) ==
  \A j, k \in 1..Len(q) : q[j].kind = "started" /\ q[k].kind = "started" => j = k
StartsAt(q, n) == \A k \in 1..Len(q) : q[k].kind = "started" => q[k].seq = n
Below(q, n) == \A k \in 1..Len(q) : q[k].kind = "dispatch" => q[k].seq < n
EndsLost(q) == q # <<>> => q[Len(q)].kind = "disconnect"

-----------------------------------------------------------------------------
(* The inductive invariant.                                                *)

Types ==
  /\ TypeOK
  /\ link \in [Sockets -> {"none", "open", "lost", "closed"}]
  /\ up \in [Sockets -> Seq(Message)] /\ down \in [Sockets -> Seq(Message)]
  /\ match \in {"lobby", "playing", "finished", "cancelled", "gone"}
  /\ presence \in Sockets \cup {NoSocket}

(* Only the session's own socket acts.                                     *)
OneSpeaks == heard \in {socket, NoSocket} /\ stage[socket] \notin {"unused", "opening"}

(* A socket asks to join first and once, and is the slot's only after.     *)
Joining ==
  \A s \in Sockets :
    /\ stage[s] \in {"unused", "opening"} => up[s] = <<>> /\ presence # s
    /\ JoinsFirst(up[s]) /\ Below(up[s], MaxCommands)
    /\ Has(up[s], "join") => ~Has(up[s], "dispatch") /\ presence # s

(* match_started comes at most once on a socket, after its join.           *)
Starting ==
  /\ \A s \in Sockets :
       /\ StartsOnce(down[s])
       /\ Has(down[s], "started") => match # "lobby" /\ ~Has(up[s], "join")
       /\ Has(up[s], "dispatch") => match # "lobby"
  /\ phase \in {"active", "reconnecting"} => match # "lobby"
  /\ phase = "active" => ~Has(up[socket], "join") /\ ~Has(down[socket], "started")

(* The match_started that will resume the session has the cursor of the    *)
(* server, and nothing on its way to the server can move that any more.    *)
CursorIsFresh ==
  phase \in {"connecting", "reconnecting"} /\ heard # NoSocket =>
    /\ StartsAt(down[heard], expected)
    /\ Has(down[heard], "started") /\ presence # NoSocket => ~Has(up[presence], "dispatch")

CursorLeads ==
  phase = "active" =>
    /\ expected <= next
    /\ presence # NoSocket => Below(up[presence], next)

LossIsLast ==
  heard # NoSocket /\ link[heard] = "lost" => EndsLost(down[heard])

Serving ==
  phase = "active" =>
    \/ Overtaken
    \/ heard = socket /\ (link[socket] = "lost" => Has(down[socket], "disconnect"))

IInv ==
  /\ Types /\ OneSpeaks /\ Joining /\ Starting
  /\ CursorIsFresh /\ CursorLeads /\ LossIsLast /\ Serving

-----------------------------------------------------------------------------
(* What a message more or less does to a queue.                            *)

(* A message that is appended adds its kind, and breaks an order only if   *)
(* it is one more of a kind that comes once.                               *)
LEMMA Appended ==
  ASSUME NEW q \in Seq(Message), NEW m \in Message
  PROVE  /\ Append(q, m) \in Seq(Message)
         /\ \A kind \in Kinds : Has(Append(q, m), kind) <=> Has(q, kind) \/ m.kind = kind
         /\ JoinsFirst(q) /\ m.kind # "join" => JoinsFirst(Append(q, m))
         /\ StartsOnce(q) /\ (m.kind # "started" \/ ~Has(q, "started")) => StartsOnce(Append(q, m))
         /\ \A n \in Int : StartsAt(q, n) /\ (m.kind = "started" => m.seq = n) => StartsAt(Append(q, m), n)
         /\ \A n \in Int : Below(q, n) /\ (m.kind = "dispatch" => m.seq < n) => Below(Append(q, m), n)
         /\ m.kind = "disconnect" => EndsLost(Append(q, m))
  <1> DEFINE r == Append(q, m)
  <1>1. /\ r \in Seq(Message) /\ Len(r) = Len(q) + 1 /\ Len(q) \in Nat
        /\ \A k \in 1..Len(q) : r[k] = q[k]
        /\ r[Len(q) + 1] = m
    OBVIOUS
  <1>2. \A k \in 1..Len(r) : k \in 1..Len(q) \/ k = Len(q) + 1
    BY <1>1
  <1>3. (1..Len(q)) \subseteq 1..Len(r) /\ Len(q) + 1 \in 1..Len(r) /\ Len(q) + 1 \notin 1..Len(q)
    BY <1>1
  <1> HIDE DEF r
  <1>4. \A kind \in Kinds : Has(r, kind) <=> Has(q, kind) \/ m.kind = kind
    BY <1>1, <1>2, <1>3 DEF Has
  <1>5. JoinsFirst(q) /\ m.kind # "join" => JoinsFirst(r)
    BY <1>1, <1>2, <1>3 DEF JoinsFirst
  <1>6. StartsOnce(q) /\ (m.kind # "started" \/ ~Has(q, "started")) => StartsOnce(r)
    <2> SUFFICES ASSUME StartsOnce(q), m.kind # "started" \/ ~Has(q, "started"),
                        NEW j \in 1..Len(r), NEW k \in 1..Len(r),
                        r[j].kind = "started", r[k].kind = "started"
                 PROVE  j = k
      BY DEF StartsOnce
    <2>1. CASE m.kind # "started"
      BY <1>1, <1>2, <2>1 DEF StartsOnce
    <2>2. CASE ~Has(q, "started")
      BY <1>1, <1>2, <2>2 DEF Has
    <2> QED BY <2>1, <2>2
  <1>7. \A n \in Int : StartsAt(q, n) /\ (m.kind = "started" => m.seq = n) => StartsAt(r, n)
    BY <1>1, <1>2, <1>3 DEF StartsAt
  <1>8. \A n \in Int : Below(q, n) /\ (m.kind = "dispatch" => m.seq < n) => Below(r, n)
    BY <1>1, <1>2, <1>3 DEF Below
  <1>9. m.kind = "disconnect" => EndsLost(r)
    BY <1>1 DEF EndsLost
  <1> QED BY <1>1, <1>4, <1>5, <1>6, <1>7, <1>8, <1>9 DEF r

(* A message that is taken leaves the rest as it was; after the join none  *)
(* follows, nor after match_started, and the loss of the connection is     *)
(* taken last.                                                             *)
LEMMA Taken ==
  ASSUME NEW q \in Seq(Message), q # <<>>
  PROVE  /\ Tail(q) \in Seq(Message) /\ Head(q) \in Message
         /\ \A kind \in Kinds : Has(q, kind) <=> Head(q).kind = kind \/ Has(Tail(q), kind)
         /\ JoinsFirst(q) => JoinsFirst(Tail(q)) /\ ~Has(Tail(q), "join")
         /\ StartsOnce(q) => /\ StartsOnce(Tail(q))
                             /\ Head(q).kind = "started" => ~Has(Tail(q), "started")
         /\ \A n \in Int : StartsAt(q, n) =>
              StartsAt(Tail(q), n) /\ (Head(q).kind = "started" => Head(q).seq = n)
         /\ \A n \in Int : Below(q, n) =>
              Below(Tail(q), n) /\ (Head(q).kind = "dispatch" => Head(q).seq < n)
         /\ EndsLost(q) => /\ EndsLost(Tail(q))
                           /\ Head(q).kind # "disconnect" => Has(Tail(q), "disconnect")
  <1> DEFINE r == Tail(q)  h == Head(q)
  <1>1. /\ r \in Seq(Message) /\ h \in Message /\ Len(q) \in Nat /\ Len(q) > 0
        /\ Len(r) = Len(q) - 1 /\ h = q[1] /\ \A k \in 1..Len(r) : r[k] = q[k + 1]
    OBVIOUS
  <1>2. \A k \in 1..Len(r) : k + 1 \in 1..Len(q) /\ k + 1 # 1
    BY <1>1
  <1>3. \A k \in 1..Len(q) : k = 1 \/ (k - 1 \in 1..Len(r) /\ q[k] = r[k - 1])
    BY <1>1
  <1>4. 1 \in 1..Len(q)
    BY <1>1
  <1> HIDE DEF r, h
  <1>5. \A kind \in Kinds : Has(q, kind) <=> h.kind = kind \/ Has(r, kind)
    BY <1>1, <1>2, <1>3, <1>4 DEF Has
  <1>6. JoinsFirst(q) => JoinsFirst(r) /\ ~Has(r, "join")
    BY <1>1, <1>2 DEF JoinsFirst, Has
  <1>7. StartsOnce(q) => StartsOnce(r)
    <2> SUFFICES ASSUME StartsOnce(q), NEW j \in 1..Len(r), NEW k \in 1..Len(r),
                        r[j].kind = "started", r[k].kind = "started"
                 PROVE  j = k
      BY DEF StartsOnce
    <2>1. q[j + 1].kind = "started" /\ q[k + 1].kind = "started"
      BY <1>1
    <2>2. j + 1 = k + 1
      BY <1>2, <2>1 DEF StartsOnce
    <2> QED BY <2>2
  <1>8. StartsOnce(q) /\ h.kind = "started" => ~Has(r, "started")
    BY <1>1, <1>2, <1>4 DEF StartsOnce, Has
  <1>9. \A n \in Int : StartsAt(q, n) => StartsAt(r, n) /\ (h.kind = "started" => h.seq = n)
    BY <1>1, <1>2, <1>4 DEF StartsAt
  <1>10. \A n \in Int : Below(q, n) => Below(r, n) /\ (h.kind = "dispatch" => h.seq < n)
    BY <1>1, <1>2, <1>4 DEF Below
  <1>11. EndsLost(q) => EndsLost(r)
    <2> SUFFICES ASSUME EndsLost(q), r # <<>> PROVE r[Len(r)].kind = "disconnect"
      BY DEF EndsLost
    <2>1. Len(r) \in 1..Len(r)
      BY <1>1
    <2> QED BY <1>1, <2>1 DEF EndsLost
  <1>12. EndsLost(q) /\ h.kind # "disconnect" => Has(r, "disconnect")
    <2> SUFFICES ASSUME EndsLost(q), h.kind # "disconnect"
                 PROVE  \E k \in 1..Len(r) : r[k].kind = "disconnect"
      BY DEF Has
    <2>1. q[Len(q)].kind = "disconnect" /\ Len(q) \in 1..Len(q)
      BY <1>1 DEF EndsLost
    <2>2. Len(q) - 1 \in 1..Len(r) /\ q[Len(q)] = r[Len(q) - 1]
      BY <1>1, <1>3, <2>1
    <2> QED BY <2>1, <2>2
  <1> QED BY <1>1, <1>5, <1>6, <1>7, <1>8, <1>9, <1>10, <1>11, <1>12 DEF r, h

(* Nothing, and a join alone.                                              *)
LEMMA Nothing ==
  /\ <<>> \in Seq(Message) /\ \A kind : ~Has(<<>>, kind)
  /\ JoinsFirst(<<>>) /\ StartsOnce(<<>>) /\ \A n : StartsAt(<<>>, n) /\ Below(<<>>, n)
  BY DEF Has, JoinsFirst, StartsOnce, StartsAt, Below

LEMMA Asking ==
  LET q == <<Msg("join", 0)>> IN
  /\ q \in Seq(Message) /\ ~Has(q, "dispatch") /\ JoinsFirst(q) /\ \A n : Below(q, n)
  <1> DEFINE q == <<Msg("join", 0)>>
  <1>1. Msg("join", 0) \in Message
    BY LiveClientAssumption DEF Msg, Message, Kinds
  <1>2. q \in Seq(Message) /\ Len(q) = 1 /\ q[1].kind = "join"
    BY <1>1 DEF Msg
  <1> HIDE DEF q
  <1>3. \A k \in 1..Len(q) : k = 1
    BY <1>2
  <1>4. ~Has(q, "dispatch") /\ JoinsFirst(q) /\ \A n : Below(q, n)
    BY <1>2, <1>3 DEF Has, JoinsFirst, Below
  <1> QED BY <1>2, <1>4 DEF q

-----------------------------------------------------------------------------
(* Steps that add no match_started and no command.                         *)

Calm ==
  \A t \in Sockets :
    /\ StartsOnce(down[t]) => StartsOnce(down'[t])
    /\ Has(down'[t], "started") => Has(down[t], "started")
    /\ \A n \in Int : StartsAt(down[t], n) => StartsAt(down'[t], n)
    /\ link[t] = "lost" /\ EndsLost(down[t]) => EndsLost(down'[t])

Drained ==
  \A t \in Sockets :
    /\ up[t] = <<>> /\ t # socket => up'[t] = <<>>
    /\ JoinsFirst(up[t]) => JoinsFirst(up'[t])
    /\ \A kind \in {"join", "dispatch"} : Has(up'[t], kind) => Has(up[t], kind)
    /\ \A n \in Int : Below(up[t], n) => Below(up'[t], n)

(* What the server says to a socket is heard on it alone, while it is open.*)
LEMMA ToldIs ==
  ASSUME Types
  PROVE  \A s \in Sockets \cup {NoSocket}, kind \in Kinds, seq \in 0..MaxCommands :
           /\ Told(s, kind, seq) \in [Sockets -> Seq(Message)]
           /\ \A t \in Sockets :
                \/ Told(s, kind, seq)[t] = down[t]
                \/ /\ t = s /\ link[t] = "open"
                   /\ Told(s, kind, seq)[t] = Append(down[t], Msg(kind, seq))
  <1> SUFFICES ASSUME NEW s \in Sockets \cup {NoSocket}, NEW kind \in Kinds,
                      NEW seq \in 0..MaxCommands
               PROVE  /\ Told(s, kind, seq) \in [Sockets -> Seq(Message)]
                      /\ \A t \in Sockets :
                           \/ Told(s, kind, seq)[t] = down[t]
                           \/ /\ t = s /\ link[t] = "open"
                              /\ Told(s, kind, seq)[t] = Append(down[t], Msg(kind, seq))
    OBVIOUS
  <1>1. Msg(kind, seq) \in Message
    BY DEF Msg, Message
  <1>2. down \in [Sockets -> Seq(Message)]
    BY DEF Types
  <1>3. \A t \in Sockets : Append(down[t], Msg(kind, seq)) \in Seq(Message)
    BY <1>1, <1>2
  <1> QED BY <1>2, <1>3 DEF Told

LEMMA ToldIsCalm ==
  ASSUME Types, NEW s \in Sockets \cup {NoSocket}, NEW kind \in Kinds \ {"started"},
         NEW seq \in 0..MaxCommands, down' = Told(s, kind, seq)
  PROVE  Calm /\ down' \in [Sockets -> Seq(Message)]
         /\ \A t \in Sockets : link[t] = "lost" => down'[t] = down[t]
  <1> DEFINE m == Msg(kind, seq)
  <1>1. m \in Message /\ m.kind # "started"
    BY DEF Msg, Message
  <1>2. kind \in Kinds
    OBVIOUS
  <1> HIDE DEF m
  <1>3. /\ down' \in [Sockets -> Seq(Message)]
        /\ \A t \in Sockets : \/ down'[t] = down[t]
                              \/ link[t] = "open" /\ down'[t] = Append(down[t], m)
    BY <1>2, ToldIs DEF m
  <1>4. ASSUME NEW t \in Sockets
        PROVE  /\ StartsOnce(down[t]) => StartsOnce(down'[t])
               /\ Has(down'[t], "started") => Has(down[t], "started")
               /\ \A n \in Int : StartsAt(down[t], n) => StartsAt(down'[t], n)
               /\ link[t] = "lost" /\ EndsLost(down[t]) => EndsLost(down'[t])
    <2>1. down[t] \in Seq(Message)
      BY DEF Types
    <2>2. "started" \in Kinds
      BY DEF Kinds
    <2>3. CASE down'[t] = down[t]
      BY <2>3
    <2>4. CASE link[t] = "open" /\ down'[t] = Append(down[t], m)
      BY <1>1, <2>1, <2>2, <2>4, Appended
    <2> QED BY <1>3, <2>3, <2>4
  <1>5. \A t \in Sockets : link[t] = "lost" => down'[t] = down[t]
    BY <1>3
  <1> QED BY <1>4, <1>3, <1>5 DEF Calm

(* A message taken from a queue to the server.                             *)
LEMMA TakingDrains ==
  ASSUME Types, NEW s \in Sockets, NEW kind \in Kinds, Takes(s, kind)
  PROVE  /\ Drained /\ up' \in [Sockets -> Seq(Message)]
         /\ up[s] # <<>> /\ Has(up[s], kind)
         /\ JoinsFirst(up[s]) => ~Has(up'[s], "join")
         /\ \A n \in Int : Below(up[s], n) /\ kind = "dispatch" => Head(up[s]).seq < n
  <1>1. up \in [Sockets -> Seq(Message)] /\ up[s] \in Seq(Message)
    BY DEF Types
  <1>2. up[s] # <<>> /\ Head(up[s]).kind = kind /\ up' = [up EXCEPT ![s] = Tail(@)]
    BY DEF Takes
  <1>3. up'[s] = Tail(up[s]) /\ \A t \in Sockets : t # s => up'[t] = up[t]
    BY <1>1, <1>2
  <1>4. Tail(up[s]) \in Seq(Message)
    BY <1>1, <1>2, Taken
  <1>5. up' \in [Sockets -> Seq(Message)]
    BY <1>1, <1>2, <1>4
  <1>6. "join" \in Kinds /\ "dispatch" \in Kinds
    BY DEF Kinds
  <1>7. /\ JoinsFirst(up[s]) => JoinsFirst(up'[s]) /\ ~Has(up'[s], "join")
        /\ \A c \in {"join", "dispatch"} : Has(up'[s], c) => Has(up[s], c)
        /\ \A n \in Int : Below(up[s], n) => Below(up'[s], n)
        /\ Has(up[s], kind)
        /\ \A n \in Int : Below(up[s], n) /\ kind = "dispatch" => Head(up[s]).seq < n
    BY <1>1, <1>2, <1>3, <1>6, Taken
  <1>8. Drained
    BY <1>2, <1>3, <1>7 DEF Drained
  <1> QED BY <1>2, <1>5, <1>7, <1>8

LEMMA NothingMoves ==
  /\ down' = down => Calm
  /\ up' = up => Drained
  BY DEF Calm, Drained

(* A step that adds neither, and moves no cursor, keeps the order of the   *)
(* messages and of the cursors.                                            *)
Order == OneSpeaks /\ Joining /\ Starting /\ CursorIsFresh /\ CursorLeads

LEMMA CalmKeepsOrder ==
  ASSUME Types, Types', Order, Calm, Drained,
         socket' = socket, heard' \in {heard, NoSocket},
         \A t \in Sockets : stage'[t] \in {"unused", "opening"} => stage[t] \in {"unused", "opening"},
         presence' \in {presence, NoSocket}, expected' = expected, next' = next,
         match' = match \/ match' # "lobby",
         \/ phase' = phase
         \/ phase' \notin {"connecting", "active", "reconnecting"}
         \/ phase = "active" /\ phase' = "reconnecting"
  PROVE  Order'
  <1>1. /\ socket \in Sockets /\ NoSocket \notin Sockets
        /\ expected \in Int /\ next \in Int /\ MaxCommands \in Int
        /\ presence \in Sockets \cup {NoSocket} /\ heard \in Sockets \cup {NoSocket}
    BY LiveClientAssumption DEF Types, TypeOK, Sockets
  <1>2. OneSpeaks'
    BY <1>1 DEF Order, OneSpeaks
  <1>3. Joining'
    <2> SUFFICES ASSUME NEW s \in Sockets
                 PROVE  /\ stage'[s] \in {"unused", "opening"} => up'[s] = <<>> /\ presence' # s
                        /\ JoinsFirst(up'[s]) /\ Below(up'[s], MaxCommands)
                        /\ Has(up'[s], "join") => ~Has(up'[s], "dispatch") /\ presence' # s
      BY DEF Joining
    <2>1. /\ stage[s] \in {"unused", "opening"} => up[s] = <<>> /\ presence # s
          /\ JoinsFirst(up[s]) /\ Below(up[s], MaxCommands)
          /\ Has(up[s], "join") => ~Has(up[s], "dispatch") /\ presence # s
      BY DEF Order, Joining
    <2>2. presence' = s => presence = s
      BY <1>1
    <2>3. stage'[s] \in {"unused", "opening"} => s # socket
      BY DEF Order, OneSpeaks
    <2> QED BY <1>1, <2>1, <2>2, <2>3 DEF Drained
  <1>4. Starting'
    BY <1>1 DEF Order, Starting, Calm, Drained
  <1>5. CursorIsFresh'
    <2> SUFFICES ASSUME phase' \in {"connecting", "reconnecting"}, heard' # NoSocket
                 PROVE  /\ StartsAt(down'[heard'], expected')
                        /\ Has(down'[heard'], "started") /\ presence' # NoSocket
                              => ~Has(up'[presence'], "dispatch")
      BY DEF CursorIsFresh
    <2>1. heard' = heard /\ heard \in Sockets
      BY <1>1
    <2>2. CASE phase \in {"connecting", "reconnecting"}
      <3>1. StartsAt(down[heard], expected)
        BY <2>1, <2>2 DEF Order, CursorIsFresh
      <3>2. Has(down[heard], "started") /\ presence # NoSocket => ~Has(up[presence], "dispatch")
        BY <2>1, <2>2 DEF Order, CursorIsFresh
      <3> QED BY <1>1, <2>1, <3>1, <3>2 DEF Calm, Drained
    <2>3. CASE phase = "active"
      <3>1. ~Has(down[heard], "started")
        BY <2>1, <2>3 DEF Order, Starting, OneSpeaks
      <3>2. ~Has(down'[heard], "started")
        BY <2>1, <3>1 DEF Calm
      <3>3. StartsAt(down'[heard], expected')
        BY <3>2 DEF Has, StartsAt
      <3> QED BY <2>1, <3>2, <3>3
    <2> QED BY <2>2, <2>3
  <1>6. CursorLeads'
    BY <1>1 DEF Order, CursorLeads, Drained
  <1> QED BY <1>2, <1>3, <1>4, <1>5, <1>6 DEF Order

-----------------------------------------------------------------------------
(* The server.                                                             *)

Matches == {"lobby", "playing", "finished", "cancelled", "gone"}

LEMMA ServerKeepsTypes ==
  ASSUME Types, UNCHANGED client, link' = link,
         up' \in [Sockets -> Seq(Message)], down' \in [Sockets -> Seq(Message)],
         match' \in Matches, presence' \in Sockets \cup {NoSocket},
         expected' \in 0..MaxCommands
  PROVE  Types'
  BY DEF Types, TypeOK, client, Matches

(* What the server does changes nothing of how an active session is served:*)
(* it speaks to open connections only.                                     *)
LEMMA ServerKeepsService ==
  ASSUME Types, LossIsLast, Serving, UNCHANGED client, link' = link,
         \A t \in Sockets : link[t] = "lost" => down'[t] = down[t]
  PROVE  LossIsLast' /\ Serving'
  <1>1. socket \in Sockets /\ heard \in Sockets \cup {NoSocket}
    BY DEF Types, TypeOK
  <1>2. /\ phase' = phase /\ socket' = socket /\ heard' = heard /\ stage' = stage
    BY DEF client
  <1>3. LossIsLast'
    BY <1>1, <1>2 DEF LossIsLast
  <1>4. Serving'
    BY <1>1, <1>2 DEF Serving, Overtaken
  <1> QED BY <1>3, <1>4

LEMMA CalmServerStep ==
  ASSUME IInv, UNCHANGED client, link' = link, Calm, Drained,
         up' \in [Sockets -> Seq(Message)], down' \in [Sockets -> Seq(Message)],
         \A t \in Sockets : link[t] = "lost" => down'[t] = down[t],
         presence' \in {presence, NoSocket}, expected' = expected,
         match' = match \/ match' \in Matches \ {"lobby"}
  PROVE  IInv'
  <1>1. Types /\ Order /\ LossIsLast /\ Serving
    BY DEF IInv, Order
  <1>2. Types'
    <2>1. /\ match' \in Matches /\ presence' \in Sockets \cup {NoSocket}
          /\ expected' \in 0..MaxCommands
      BY <1>1 DEF Types, TypeOK, Matches
    <2> QED BY <1>1, <2>1, ServerKeepsTypes
  <1>3. Order'
    <2>1. /\ socket' = socket /\ heard' = heard /\ stage' = stage /\ next' = next /\ phase' = phase
      BY DEF client
    <2>2. match' = match \/ match' # "lobby"
      OBVIOUS
    <2> QED BY <1>1, <1>2, <2>1, <2>2, CalmKeepsOrder
  <1>4. LossIsLast' /\ Serving'
    BY <1>1, ServerKeepsService
  <1> QED BY <1>2, <1>3, <1>4 DEF IInv, Order

LEMMA AnswerJoinKeeps ==
  ASSUME IInv, NEW s \in Sockets, AnswerJoin(s)
  PROVE  IInv'
  <1>1. Types
    BY DEF IInv
  <1>2. /\ down' = Told(s, "joined", 0) /\ UNCHANGED client /\ link' = link /\ up' = up
        /\ presence' = presence /\ expected' = expected /\ match' = match
    BY DEF AnswerJoin
  <1>3. "joined" \in Kinds \ {"started"} /\ 0 \in 0..MaxCommands
    BY LiveClientAssumption DEF Kinds
  <1>4. /\ Calm /\ down' \in [Sockets -> Seq(Message)]
        /\ \A t \in Sockets : link[t] = "lost" => down'[t] = down[t]
    BY <1>1, <1>2, <1>3, ToldIsCalm
  <1>5. Drained /\ up' \in [Sockets -> Seq(Message)]
    BY <1>1, <1>2, NothingMoves DEF Types
  <1> QED BY <1>2, <1>4, <1>5, CalmServerStep

(* The steps of the server that only tell, or not even that.               *)
LEMMA QuietServer ==
  ASSUME IInv, \/ \E s \in Sockets : Leave(s)
               \/ CancelMatch \/ FinishMatch \/ EndMatch \/ EnforceReconnectGrace
  PROVE  IInv'
  <1>1. Types /\ presence \in Sockets \cup {NoSocket} /\ down \in [Sockets -> Seq(Message)]
    BY DEF IInv, Types
  <1>2. /\ UNCHANGED client /\ link' = link /\ up' = up /\ expected' = expected
        /\ presence' \in {presence, NoSocket}
        /\ match' = match \/ match' \in Matches \ {"lobby"}
        /\ \/ down' = down
           \/ \E kind \in {"cancelled", "finished", "closed"} : down' = Told(presence, kind, 0)
    BY DEF Leave, CancelMatch, FinishMatch, EndMatch, EnforceReconnectGrace, wire, Matches
  <1>3. /\ Calm /\ down' \in [Sockets -> Seq(Message)]
        /\ \A t \in Sockets : link[t] = "lost" => down'[t] = down[t]
    <2>1. CASE down' = down
      BY <1>1, <2>1, NothingMoves
    <2>2. CASE \E kind \in {"cancelled", "finished", "closed"} : down' = Told(presence, kind, 0)
      <3>1. PICK kind \in {"cancelled", "finished", "closed"} : down' = Told(presence, kind, 0)
        BY <2>2
      <3>2. kind \in Kinds \ {"started"} /\ 0 \in 0..MaxCommands
        BY LiveClientAssumption DEF Kinds
      <3> QED BY <1>1, <3>1, <3>2, ToldIsCalm
    <2> QED BY <1>2, <2>1, <2>2
  <1>4. Drained /\ up' \in [Sockets -> Seq(Message)]
    BY <1>1, <1>2, NothingMoves DEF Types
  <1> QED BY <1>2, <1>3, <1>4, CalmServerStep

LEMMA SurrenderKeeps ==
  ASSUME IInv, NEW s \in Sockets, HandleSurrender(s)
  PROVE  IInv'
  <1>1. Types /\ down \in [Sockets -> Seq(Message)]
    BY DEF IInv, Types
  <1>2. /\ Takes(s, "surrender") /\ UNCHANGED client /\ link' = link /\ expected' = expected
        /\ presence' \in {presence, NoSocket}
        /\ match' = match \/ match' \in Matches \ {"lobby"}
        /\ down' = down \/ down' = Told(s, "cancelled", 0)
    BY DEF HandleSurrender, Matches
  <1>3. "cancelled" \in Kinds \ {"started"} /\ "surrender" \in Kinds /\ 0 \in 0..MaxCommands
    BY LiveClientAssumption DEF Kinds
  <1>4. /\ Calm /\ down' \in [Sockets -> Seq(Message)]
        /\ \A t \in Sockets : link[t] = "lost" => down'[t] = down[t]
    <2>1. CASE down' = down
      BY <1>1, <2>1, NothingMoves
    <2>2. CASE down' = Told(s, "cancelled", 0)
      BY <1>1, <1>3, <2>2, ToldIsCalm
    <2> QED BY <1>2, <2>1, <2>2
  <1>5. Drained /\ up' \in [Sockets -> Seq(Message)]
    BY <1>1, <1>2, <1>3, TakingDrains
  <1> QED BY <1>2, <1>4, <1>5, CalmServerStep

(* A join: the slot is the socket's, which has sent no command yet, and    *)
(* the cursor it is told cannot move before it does.                       *)
LEMMA JoinKeeps ==
  ASSUME IInv, NEW s \in Sockets, Join(s)
  PROVE  IInv'
  <1>1. /\ Types /\ OneSpeaks /\ Joining /\ Starting /\ CursorIsFresh /\ CursorLeads
        /\ LossIsLast /\ Serving
    BY DEF IInv
  <1>2. /\ Takes(s, "join") /\ UNCHANGED client /\ link' = link /\ expected' = expected
        /\ match' = match
    BY DEF Join, server
  <1>3. /\ phase' = phase /\ socket' = socket /\ heard' = heard /\ stage' = stage /\ next' = next
    BY <1>2 DEF client
  <1>4. /\ down \in [Sockets -> Seq(Message)] /\ NoSocket \notin Sockets
        /\ expected \in 0..MaxCommands /\ expected \in Int /\ next \in Int /\ MaxCommands \in Int
        /\ socket \in Sockets /\ heard \in Sockets \cup {NoSocket}
    BY <1>1, LiveClientAssumption DEF Types, TypeOK, Sockets
  <1>5. /\ "join" \in Kinds /\ "started" \in Kinds /\ 0 \in 0..MaxCommands
        /\ {"refused", "failed"} \subseteq Kinds \ {"started"}
    BY LiveClientAssumption DEF Kinds
  <1>6. /\ Drained /\ up' \in [Sockets -> Seq(Message)]
        /\ up[s] # <<>> /\ Has(up[s], "join") /\ ~Has(up'[s], "join")
    BY <1>1, <1>2, <1>5, TakingDrains DEF Joining
  <1>7. CASE presence' # s
    <2>1. presence' = presence
      BY <1>7 DEF Join, server
    <2>2. down' = down \/ \E kind \in {"refused", "failed"} : down' = Told(s, kind, 0)
      BY <1>7 DEF Join
    <2>3. /\ Calm /\ down' \in [Sockets -> Seq(Message)]
          /\ \A t \in Sockets : link[t] = "lost" => down'[t] = down[t]
      BY <1>1, <1>4, <1>5, <2>2, ToldIsCalm, NothingMoves
    <2> QED BY <1>2, <1>6, <2>1, <2>3, CalmServerStep
  <1>8. CASE presence' = s /\ presence = s
    BY <1>1, <1>6, <1>8 DEF Joining
  <1>9. CASE presence' = s /\ presence # s
    <2>1. \/ down' = down
          \/ match = "playing" /\ down' = Told(s, "started", expected)
      BY <1>9 DEF Join, server
    <2>2. /\ down' \in [Sockets -> Seq(Message)]
          /\ \A t \in Sockets :
               \/ down'[t] = down[t]
               \/ /\ t = s /\ link[t] = "open" /\ match = "playing"
                  /\ down'[t] = Append(down[t], Msg("started", expected))
      <3>1. CASE down' = down
        BY <1>4, <3>1
      <3>2. CASE match = "playing" /\ down' = Told(s, "started", expected)
        <4>1. s \in Sockets \cup {NoSocket} /\ "started" \in Kinds /\ expected \in 0..MaxCommands
          BY <1>4, <1>5
        <4>2. /\ Told(s, "started", expected) \in [Sockets -> Seq(Message)]
              /\ \A t \in Sockets :
                   \/ Told(s, "started", expected)[t] = down[t]
                   \/ /\ t = s /\ link[t] = "open"
                      /\ Told(s, "started", expected)[t] = Append(down[t], Msg("started", expected))
          BY <1>1, <4>1, ToldIs
        <4> QED BY <3>2, <4>2
      <3> QED BY <2>1, <3>1, <3>2
    <2>3. Types'
      <3>1. match' \in Matches /\ presence' \in Sockets \cup {NoSocket} /\ expected' \in 0..MaxCommands
        BY <1>1, <1>2, <1>4, <1>9 DEF Types, Matches
      <3> QED BY <1>1, <1>2, <1>6, <2>2, <3>1, ServerKeepsTypes
    <2>4. Joining'
      <3> SUFFICES ASSUME NEW t \in Sockets
                   PROVE  /\ stage'[t] \in {"unused", "opening"} => up'[t] = <<>> /\ presence' # t
                          /\ JoinsFirst(up'[t]) /\ Below(up'[t], MaxCommands)
                          /\ Has(up'[t], "join") => ~Has(up'[t], "dispatch") /\ presence' # t
        BY DEF Joining
      <3>1. /\ stage[t] \in {"unused", "opening"} => up[t] = <<>>
            /\ JoinsFirst(up[t]) /\ Below(up[t], MaxCommands)
            /\ Has(up[t], "join") => ~Has(up[t], "dispatch")
        BY <1>1 DEF Joining
      <3>2. stage[t] \in {"unused", "opening"} => t # socket
        BY <1>1 DEF OneSpeaks
      <3> QED BY <1>3, <1>4, <1>6, <1>9, <3>1, <3>2 DEF Drained
    <2>5. ~Has(down[s], "started") /\ ~Has(up[s], "dispatch")
      BY <1>1, <1>6 DEF Starting, Joining
    <2>6. ~Has(up'[s], "dispatch")
      BY <1>6, <2>5 DEF Drained
    <2>7. /\ Msg("started", expected) \in Message
          /\ Msg("started", expected).kind = "started" /\ Msg("started", expected).seq = expected
      BY <1>4, <1>5 DEF Msg, Message
    <2>8. ASSUME NEW t \in Sockets
          PROVE  /\ StartsOnce(down'[t])
                 /\ Has(down'[t], "started") => Has(down[t], "started") \/ (t = s /\ match = "playing")
                 /\ StartsAt(down[t], expected) => StartsAt(down'[t], expected)
      <3>1. StartsOnce(down[t]) /\ down[t] \in Seq(Message)
        BY <1>1, <1>4 DEF Starting
      <3>2. CASE down'[t] = down[t]
        BY <3>1, <3>2
      <3>3. CASE /\ t = s /\ match = "playing"
                 /\ down'[t] = Append(down[t], Msg("started", expected))
        BY <1>4, <1>5, <2>5, <2>7, <3>1, <3>3, Appended
      <3> QED BY <2>2, <3>2, <3>3
    <2>9. Starting'
      <3>1. \A t \in Sockets :
               /\ Has(down'[t], "started") => match' # "lobby" /\ ~Has(up'[t], "join")
               /\ Has(up'[t], "dispatch") => match' # "lobby"
        BY <1>1, <1>2, <1>6, <2>8 DEF Starting, Drained
      <3>2. phase' = "active" => ~Has(up'[socket'], "join") /\ ~Has(down'[socket'], "started")
        BY <1>1, <1>3, <1>4, <1>6, <2>8 DEF Starting, Drained
      <3> QED BY <1>1, <1>2, <1>3, <2>8, <3>1, <3>2 DEF Starting
    <2>10. CursorIsFresh'
      BY <1>1, <1>2, <1>3, <1>4, <1>9, <2>6, <2>8 DEF CursorIsFresh
    <2>11. CursorLeads'
      <3>1. Below(up'[s], next)
        BY <2>6 DEF Has, Below
      <3> QED BY <1>1, <1>2, <1>3, <1>9, <3>1 DEF CursorLeads
    <2>12. OneSpeaks'
      BY <1>1, <1>3 DEF OneSpeaks
    <2>13. LossIsLast' /\ Serving'
      BY <1>1, <1>2, <2>2, ServerKeepsService
    <2> QED BY <2>3, <2>4, <2>9, <2>10, <2>11, <2>12, <2>13 DEF IInv
  <1> QED BY <1>7, <1>8, <1>9

(* An accepted dispatch is the slot's own: no match_started is on its way, *)
(* and the cursor of the client stays ahead.                               *)
LEMMA DispatchKeeps ==
  ASSUME IInv, NEW s \in Sockets, HandleDispatch(s)
  PROVE  IInv'
  <1>1. /\ Types /\ OneSpeaks /\ Joining /\ Starting /\ CursorIsFresh /\ CursorLeads
        /\ LossIsLast /\ Serving /\ Order
    BY DEF IInv, Order
  <1>2. /\ Takes(s, "dispatch") /\ UNCHANGED client /\ link' = link /\ down' = down
        /\ presence' = presence /\ match' = match
        /\ \/ expected' = expected
           \/ presence = s /\ Head(up[s]).seq = expected /\ expected' = expected + 1
    BY DEF HandleDispatch
  <1>3. /\ phase' = phase /\ socket' = socket /\ heard' = heard /\ stage' = stage /\ next' = next
    BY <1>2 DEF client
  <1>4. /\ expected \in 0..MaxCommands /\ next \in Int /\ MaxCommands \in Int
        /\ down \in [Sockets -> Seq(Message)] /\ presence \in Sockets \cup {NoSocket}
        /\ NoSocket \notin Sockets /\ heard \in Sockets \cup {NoSocket} /\ match \in Matches
    BY <1>1, LiveClientAssumption DEF Types, TypeOK, Sockets, Matches
  <1>5. "dispatch" \in Kinds
    BY DEF Kinds
  <1>6. /\ Drained /\ up' \in [Sockets -> Seq(Message)] /\ Has(up[s], "dispatch")
        /\ \A n \in Int : Below(up[s], n) => Head(up[s]).seq < n
    BY <1>1, <1>2, <1>5, TakingDrains
  <1>7. Calm /\ \A t \in Sockets : link[t] = "lost" => down'[t] = down[t]
    BY <1>2, NothingMoves
  <1>8. CASE expected' = expected
    BY <1>2, <1>4, <1>6, <1>7, <1>8, CalmServerStep
  <1>9. CASE presence = s /\ Head(up[s]).seq = expected /\ expected' = expected + 1
    <2>1. expected < MaxCommands
      BY <1>1, <1>4, <1>6, <1>9 DEF Joining
    <2>2. Types'
      BY <1>1, <1>2, <1>4, <1>6, <1>9, <2>1, ServerKeepsTypes
    <2>3. OneSpeaks' /\ Joining' /\ Starting'
      <3>1. OneSpeaks'
        BY <1>1, <1>3 DEF OneSpeaks
      <3>2. Joining'
        <4>1. \A t \in Sockets : stage[t] \in {"unused", "opening"} => t # socket
          BY <1>1 DEF OneSpeaks
        <4> QED BY <1>1, <1>2, <1>3, <1>4, <1>6, <4>1 DEF Joining, Drained
      <3>3. Starting'
        BY <1>1, <1>2, <1>3, <1>6 DEF Starting, Drained, Types, TypeOK
      <3> QED BY <3>1, <3>2, <3>3
    <2>4. CursorIsFresh'
      <3> SUFFICES ASSUME phase \in {"connecting", "reconnecting"}, heard # NoSocket
                   PROVE  StartsAt(down[heard], expected') /\ ~Has(down[heard], "started")
        BY <1>2, <1>3 DEF CursorIsFresh
      <3>1. ~Has(down[heard], "started")
        BY <1>1, <1>4, <1>6, <1>9 DEF CursorIsFresh
      <3> QED BY <3>1 DEF Has, StartsAt
    <2>5. CursorLeads'
      <3> SUFFICES ASSUME phase = "active"
                   PROVE  expected' <= next /\ Below(up'[presence], next)
        BY <1>2, <1>3, <1>4 DEF CursorLeads
      <3>1. Below(up[s], next)
        BY <1>1, <1>4, <1>9 DEF CursorLeads
      <3>2. expected < next
        BY <1>4, <1>6, <1>9, <3>1
      <3> QED BY <1>4, <1>6, <1>9, <3>1, <3>2 DEF Drained
    <2>6. LossIsLast' /\ Serving'
      BY <1>1, <1>2, <1>7, ServerKeepsService
    <2> QED BY <2>2, <2>3, <2>4, <2>5, <2>6 DEF IInv
  <1> QED BY <1>2, <1>8, <1>9

(* The first match_started of a match: nobody has sent a command yet.      *)
LEMMA StartMatchKeeps ==
  ASSUME IInv, StartMatch
  PROVE  IInv'
  <1>1. /\ Types /\ OneSpeaks /\ Joining /\ Starting /\ CursorIsFresh /\ LossIsLast /\ Serving
    BY DEF IInv
  <1>2. /\ match = "lobby" /\ presence # NoSocket /\ match' = "playing"
        /\ down' = Told(presence, "started", expected)
        /\ UNCHANGED client /\ link' = link /\ up' = up /\ presence' = presence
        /\ expected' = expected
    BY DEF StartMatch
  <1>3. /\ phase' = phase /\ socket' = socket /\ heard' = heard /\ stage' = stage /\ next' = next
    BY <1>2 DEF client
  <1>4. /\ down \in [Sockets -> Seq(Message)] /\ up \in [Sockets -> Seq(Message)]
        /\ presence \in Sockets \cup {NoSocket} /\ presence \in Sockets
        /\ expected \in 0..MaxCommands /\ expected \in Int /\ heard \in Sockets \cup {NoSocket}
        /\ "started" \in Kinds
    BY <1>1, <1>2 DEF Types, TypeOK, Kinds
  <1>5. /\ down' \in [Sockets -> Seq(Message)]
        /\ \A t \in Sockets :
             \/ down'[t] = down[t]
             \/ /\ t = presence /\ link[t] = "open"
                /\ down'[t] = Append(down[t], Msg("started", expected))
    <2>1. /\ Told(presence, "started", expected) \in [Sockets -> Seq(Message)]
          /\ \A t \in Sockets :
               \/ Told(presence, "started", expected)[t] = down[t]
               \/ /\ t = presence /\ link[t] = "open"
                  /\ Told(presence, "started", expected)[t] = Append(down[t], Msg("started", expected))
      BY <1>1, <1>4, ToldIs
    <2> QED BY <1>2, <2>1
  <1>6. phase \notin {"active", "reconnecting"} /\ \A t \in Sockets : ~Has(down[t], "started")
        /\ ~Has(up[t], "dispatch")
    BY <1>1, <1>2 DEF Starting
  <1>7. /\ Msg("started", expected) \in Message
        /\ Msg("started", expected).kind = "started" /\ Msg("started", expected).seq = expected
    BY <1>4 DEF Msg, Message
  <1>8. ASSUME NEW t \in Sockets
        PROVE  /\ StartsOnce(down'[t])
               /\ Has(down'[t], "started") => t = presence
               /\ StartsAt(down[t], expected) => StartsAt(down'[t], expected)
    <2>1. StartsOnce(down[t]) /\ down[t] \in Seq(Message) /\ ~Has(down[t], "started")
      BY <1>1, <1>4, <1>6 DEF Starting
    <2>2. CASE down'[t] = down[t]
      BY <2>1, <2>2
    <2>3. CASE t = presence /\ down'[t] = Append(down[t], Msg("started", expected))
      BY <1>4, <1>7, <2>1, <2>3, Appended
    <2> QED BY <1>5, <2>2, <2>3
  <1>9. Types'
    BY <1>1, <1>2, <1>4, <1>5, ServerKeepsTypes DEF Matches
  <1>10. OneSpeaks' /\ Joining'
    BY <1>1, <1>2, <1>3 DEF OneSpeaks, Joining
  <1>11. Starting'
    <2>1. ~Has(up[presence], "join")
      BY <1>1, <1>4 DEF Joining
    <2> QED BY <1>2, <1>3, <1>6, <1>8, <2>1 DEF Starting
  <1>12. CursorIsFresh'
    BY <1>1, <1>2, <1>3, <1>4, <1>6, <1>8 DEF CursorIsFresh
  <1>13. CursorLeads'
    BY <1>3, <1>6 DEF CursorLeads
  <1>14. LossIsLast' /\ Serving'
    BY <1>1, <1>2, <1>5, ServerKeepsService
  <1> QED BY <1>9, <1>10, <1>11, <1>12, <1>13, <1>14 DEF IInv

(* A connection breaks: whoever listens learns of it last.                 *)
LEMMA LoseKeeps ==
  ASSUME IInv, NEW s \in Sockets, Lose(s)
  PROVE  IInv'
  <1> DEFINE lost == [kind |-> "disconnect", seq |-> 0]
  <1>1. Types /\ OneSpeaks /\ Order /\ LossIsLast /\ Serving
    BY DEF IInv, Order
  <1>2. /\ link[s] = "open" /\ link' = [link EXCEPT ![s] = "lost"]
        /\ UNCHANGED <<client, server>>
        /\ up' = up \/ up' = [up EXCEPT ![s] = <<>>]
    BY DEF Lose
  <1>3. /\ phase' = phase /\ socket' = socket /\ heard' = heard /\ stage' = stage /\ next' = next
        /\ match' = match /\ presence' = presence /\ expected' = expected
    BY <1>2 DEF client, server
  <1>4. /\ down \in [Sockets -> Seq(Message)] /\ up \in [Sockets -> Seq(Message)]
        /\ link \in [Sockets -> {"none", "open", "lost", "closed"}]
        /\ heard \in Sockets \cup {NoSocket} /\ socket \in Sockets
    BY <1>1 DEF Types, TypeOK
  <1>5. lost \in Message /\ lost.kind = "disconnect" /\ "started" \in Kinds /\ "disconnect" \in Kinds
    BY LiveClientAssumption DEF Message, Kinds
  <1>6. PICK rest \in {<<>>, down[s]} :
          down' = [down EXCEPT ![s] = rest \o (IF Listens(s) THEN <<lost>> ELSE <<>>)]
    BY DEF Lose, Msg
  <1> HIDE DEF lost
  <1>7. rest \in Seq(Message)
    BY <1>4, <1>6, Nothing
  <1>8. rest \o <<>> = rest /\ rest \o <<lost>> = Append(rest, lost)
    BY <1>5, <1>7
  <1>9. /\ down'[s] = IF Listens(s) THEN Append(rest, lost) ELSE rest
        /\ \A t \in Sockets : t # s => down'[t] = down[t]
    BY <1>4, <1>6, <1>8
  <1>10. Append(rest, lost) \in Seq(Message)
    BY <1>5, <1>7, Appended
  <1>11. down' \in [Sockets -> Seq(Message)]
    BY <1>4, <1>6, <1>7, <1>8, <1>10
  <1>12. Calm
    <2>1. /\ StartsOnce(down[s]) => StartsOnce(rest)
          /\ Has(rest, "started") => Has(down[s], "started")
          /\ \A n \in Int : StartsAt(down[s], n) => StartsAt(rest, n)
      BY <1>6, Nothing
    <2>2. /\ StartsOnce(rest) => StartsOnce(down'[s])
          /\ Has(down'[s], "started") => Has(rest, "started")
          /\ \A n \in Int : StartsAt(rest, n) => StartsAt(down'[s], n)
      BY <1>5, <1>7, <1>9, Appended
    <2> QED BY <1>2, <1>9, <2>1, <2>2 DEF Calm
  <1>13. Drained /\ up' \in [Sockets -> Seq(Message)]
    <2>1. CASE up' = up
      BY <1>4, <2>1, NothingMoves
    <2>2. CASE up' = [up EXCEPT ![s] = <<>>]
      <3>1. up' \in [Sockets -> Seq(Message)]
        BY <1>4, <2>2, Nothing
      <3>2. \A t \in Sockets : up'[t] = up[t] \/ up'[t] = <<>>
        BY <1>4, <2>2
      <3> QED BY <3>1, <3>2, Nothing DEF Drained
    <2> QED BY <1>2, <2>1, <2>2
  <1>14. Types'
    <2>1. link' \in [Sockets -> {"none", "open", "lost", "closed"}]
      BY <1>2, <1>4
    <2>2. known' = known /\ recon' = recon
      BY <1>2 DEF client
    <2> QED BY <1>1, <1>3, <1>11, <1>13, <2>1, <2>2 DEF Types, TypeOK
  <1>15. Order'
    BY <1>1, <1>3, <1>12, <1>13, <1>14, CalmKeepsOrder
  <1>16. LossIsLast'
    <2> SUFFICES ASSUME heard # NoSocket, link'[heard] = "lost"
                 PROVE  EndsLost(down'[heard])
      BY <1>3 DEF LossIsLast
    <2>1. CASE heard = s
      BY <1>5, <1>7, <1>9, <2>1, Appended DEF Listens
    <2>2. CASE heard # s
      BY <1>1, <1>2, <1>4, <1>9, <2>2 DEF LossIsLast
    <2> QED BY <2>1, <2>2
  <1>17. Serving'
    <2> SUFFICES ASSUME phase = "active", ~Overtaken, heard = socket, link'[socket] = "lost"
                 PROVE  Has(down'[socket], "disconnect")
      BY <1>1, <1>3 DEF Serving, Overtaken
    <2>1. CASE socket = s
      <3>1. down'[s] = Append(rest, lost)
        BY <1>9, <2>1 DEF Listens
      <3>2. Has(Append(rest, lost), "disconnect")
        BY <1>5, <1>7, Appended
      <3> QED BY <2>1, <3>1, <3>2
    <2>2. CASE socket # s
      BY <1>1, <1>2, <1>4, <1>9, <2>2 DEF Serving
    <2> QED BY <2>1, <2>2
  <1> QED BY <1>14, <1>15, <1>16, <1>17 DEF IInv, Order

LEMMA ServerKeeps ==
  ASSUME IInv, Server
  PROVE  IInv'
  <1>1. ASSUME NEW s \in Sockets,
               Lose(s) \/ Join(s) \/ AnswerJoin(s) \/ Leave(s) \/ HandleDispatch(s) \/ HandleSurrender(s)
        PROVE  IInv'
    BY <1>1, LoseKeeps, JoinKeeps, AnswerJoinKeeps, QuietServer, DispatchKeeps, SurrenderKeeps
  <1>2. CASE StartMatch
    BY <1>2, StartMatchKeeps
  <1>3. CASE CancelMatch \/ EnforceReconnectGrace \/ FinishMatch \/ EndMatch
    BY <1>3, QuietServer
  <1> QED BY <1>1, <1>2, <1>3 DEF Server

-----------------------------------------------------------------------------
(* The client.                                                             *)

Taking == \A t \in Sockets : down'[t] = down[t] \/ (down[t] # <<>> /\ down'[t] = Tail(down[t]))

LEMMA TakingIsCalm ==
  ASSUME Types, Taking
  PROVE  Calm
  <1>1. \A t \in Sockets : down[t] \in Seq(Message)
    BY DEF Types
  <1>2. "started" \in Kinds
    BY DEF Kinds
  <1> SUFFICES ASSUME NEW t \in Sockets
               PROVE  /\ StartsOnce(down[t]) => StartsOnce(down'[t])
                      /\ Has(down'[t], "started") => Has(down[t], "started")
                      /\ \A n \in Int : StartsAt(down[t], n) => StartsAt(down'[t], n)
                      /\ link[t] = "lost" /\ EndsLost(down[t]) => EndsLost(down'[t])
    BY DEF Calm
  <1>3. CASE down'[t] = down[t]
    BY <1>3
  <1>4. CASE down[t] # <<>> /\ down'[t] = Tail(down[t])
    BY <1>1, <1>2, <1>4, Taken
  <1> QED BY <1>3, <1>4 DEF Taking

LEMMA LossStaysLast ==
  ASSUME Types, LossIsLast, Taking, heard' \in {heard, NoSocket},
         \A t \in Sockets : link'[t] = "lost" => link[t] = "lost"
  PROVE  LossIsLast'
  <1>1. Calm /\ heard \in Sockets \cup {NoSocket}
    BY TakingIsCalm DEF Types, TypeOK
  <1> QED BY <1>1 DEF LossIsLast, Calm

(* An attempt that ends gives up its own socket, and marks an active       *)
(* session that is on it.                                                  *)
LEMMA AnswerKeepsService ==
  ASSUME Types, OneSpeaks, Serving, NEW s \in Sockets, socket' = socket,
         stage' = [stage EXCEPT ![s] = Answered(s)],
         \/ heard' = heard /\ link' = link
         \/ heard' = Deaf(s) /\ link' = Disconnected(s),
         phase' = "active" => phase = "active",
         \A t \in Sockets : t # s => down'[t] = down[t]
  PROVE  Serving'
  <1> SUFFICES ASSUME phase' = "active"
               PROVE  \/ stage'[socket] = "overtaken"
                      \/ /\ heard' = socket
                         /\ link'[socket] = "lost" => Has(down'[socket], "disconnect")
    BY DEF Serving, Overtaken
  <1>1. phase = "active" /\ socket \in Sockets /\ heard \in Sockets \cup {NoSocket}
        /\ stage \in [Sockets -> Stages] /\ link \in [Sockets -> {"none", "open", "lost", "closed"}]
    BY DEF Types, TypeOK
  <1>2. \/ stage[socket] = "overtaken"
        \/ heard = socket /\ (link[socket] = "lost" => Has(down[socket], "disconnect"))
    BY <1>1 DEF Serving, Overtaken
  <1>3. CASE s = socket
    BY <1>1, <1>3 DEF Answered
  <1>4. CASE s # socket
    <2>1. stage'[socket] = stage[socket] /\ down'[socket] = down[socket] /\ link'[socket] = link[socket]
      BY <1>1, <1>4 DEF Disconnected
    <2>2. heard = socket => heard' = socket
      BY <1>4 DEF Deaf
    <2> QED BY <1>2, <2>1, <2>2
  <1> QED BY <1>3, <1>4

LEMMA AnsweredIsStage ==
  ASSUME Types, NEW s \in Sockets, stage' = [stage EXCEPT ![s] = Answered(s)]
  PROVE  /\ stage' \in [Sockets -> Stages]
         /\ \A t \in Sockets : stage'[t] \in {"unused", "opening"} => stage[t] \in {"unused", "opening"}
  <1>1. stage \in [Sockets -> Stages]
    BY DEF Types, TypeOK
  <1>2. Answered(s) \in Stages \ {"unused", "opening"}
    BY DEF Answered, Stages
  <1> QED BY <1>1, <1>2

(* Steps of timers, and the end of a session.                              *)
LEMMA TimersKeep ==
  ASSUME IInv, DeadlineFires \/ AttemptFires \/ Close \/ \E s \in Sockets : OpenFails(s) \/ ResyncFires(s)
  PROVE  IInv'
  <1>1. Types /\ Order /\ OneSpeaks /\ LossIsLast /\ Serving
    BY DEF IInv, Order
  <1>2. /\ known' = known /\ next' = next /\ socket' = socket /\ up' = up /\ down' = down
        /\ match' = match /\ presence' = presence /\ expected' = expected
    BY DEF DeadlineFires, AttemptFires, Close, OpenFails, ResyncFires, wire, server
  <1>3. /\ stage \in [Sockets -> Stages] /\ link \in [Sockets -> {"none", "open", "lost", "closed"}]
        /\ heard \in Sockets \cup {NoSocket} /\ socket \in Sockets /\ phase \in Phases
        /\ recon \in BOOLEAN
    BY <1>1 DEF Types, TypeOK
  <1>4. /\ phase' \in Phases /\ recon' \in BOOLEAN
        /\ \/ phase' = phase
           \/ phase' \notin {"connecting", "active", "reconnecting"}
    BY <1>3 DEF DeadlineFires, AttemptFires, Close, OpenFails, ResyncFires, FinishReconnect, Phases, Ended
  <1>5. /\ heard' \in {heard, NoSocket}
        /\ link' \in [Sockets -> {"none", "open", "lost", "closed"}]
        /\ \A t \in Sockets : link'[t] = "lost" => link[t] = "lost"
    <2>1. /\ heard' \in {heard, NoSocket}
          /\ link' = link \/ \E t \in Sockets : link' = [link EXCEPT ![t] = "closed"]
      BY <1>3 DEF DeadlineFires, AttemptFires, Close, OpenFails, ResyncFires, Deaf, Disconnected, wire
    <2> QED BY <1>3, <2>1
  <1>6. /\ stage' \in [Sockets -> Stages]
        /\ \A t \in Sockets : stage'[t] \in {"unused", "opening"} => stage[t] \in {"unused", "opening"}
        /\ phase = "active" => stage'[socket] = stage[socket]
    <2>1. \/ stage' = stage
          \/ phase # "active" /\ \E t \in Sockets : /\ stage[t] = "unused"
                                                    /\ stage' = [stage EXCEPT ![t] = "opening"]
          \/ \E t \in Sockets : stage[t] = "opening" /\ stage' = [stage EXCEPT ![t] = "done"]
      BY DEF DeadlineFires, AttemptFires, Close, OpenFails, ResyncFires
    <2> QED BY <1>1, <1>3, <2>1 DEF OneSpeaks, Stages
  <1>7. phase' = "active" => heard' = heard /\ link' = link
    BY <1>3 DEF DeadlineFires, AttemptFires, Close, OpenFails, ResyncFires, wire
  <1>8. Types'
    BY <1>1, <1>2, <1>3, <1>4, <1>5, <1>6 DEF Types, TypeOK
  <1>9. Calm /\ Drained /\ Taking
    BY <1>2, NothingMoves DEF Taking
  <1>10. Order'
    BY <1>1, <1>2, <1>4, <1>5, <1>6, <1>8, <1>9, CalmKeepsOrder
  <1>11. LossIsLast'
    BY <1>1, <1>5, <1>9, LossStaysLast
  <1>12. Serving'
    BY <1>1, <1>2, <1>4, <1>6, <1>7 DEF Serving, Overtaken
  <1> QED BY <1>8, <1>10, <1>11, <1>12 DEF IInv, Order

(* What comes after the second await, with an answer or without.           *)
LEMMA AnswerKeeps ==
  ASSUME IInv, NEW s \in Sockets,
         \/ JoinSucceeds(s) \/ \E terminal \in BOOLEAN : JoinFails(s, terminal),
         Taking, \A t \in Sockets : t # s => down'[t] = down[t],
         down' \in [Sockets -> Seq(Message)],
         known' = known, next' = next, socket' = socket, up' = up, UNCHANGED server
  PROVE  IInv'
  <1>1. Types /\ Order /\ OneSpeaks /\ LossIsLast /\ Serving
    BY DEF IInv, Order
  <1>2. match' = match /\ presence' = presence /\ expected' = expected
    BY DEF server
  <1>3. /\ link \in [Sockets -> {"none", "open", "lost", "closed"}]
        /\ heard \in Sockets \cup {NoSocket} /\ phase \in Phases /\ recon \in BOOLEAN
        /\ down \in [Sockets -> Seq(Message)]
    BY <1>1 DEF Types, TypeOK
  <1>4. /\ stage' = [stage EXCEPT ![s] = Answered(s)]
        /\ \/ heard' = heard /\ link' = link
           \/ heard' = Deaf(s) /\ link' = Disconnected(s)
        /\ phase' \in Phases /\ recon' \in BOOLEAN
        /\ phase' = phase \/ phase' = "reconnect_failed"
    BY <1>3 DEF JoinSucceeds, JoinFails, FinishReconnect, Phases, Ended
  <1>5. /\ stage' \in [Sockets -> Stages]
        /\ \A t \in Sockets : stage'[t] \in {"unused", "opening"} => stage[t] \in {"unused", "opening"}
    BY <1>1, <1>4, AnsweredIsStage
  <1>6. /\ heard' \in {heard, NoSocket} /\ link' \in [Sockets -> {"none", "open", "lost", "closed"}]
        /\ \A t \in Sockets : link'[t] = "lost" => link[t] = "lost"
    BY <1>3, <1>4 DEF Deaf, Disconnected
  <1>7. Calm /\ Drained
    BY <1>1, TakingIsCalm, NothingMoves
  <1>8. Types'
    BY <1>1, <1>2, <1>4, <1>5, <1>6 DEF Types, TypeOK
  <1>9. Order'
    BY <1>1, <1>2, <1>4, <1>5, <1>6, <1>7, <1>8, CalmKeepsOrder
  <1>10. LossIsLast'
    BY <1>1, <1>6, LossStaysLast
  <1>11. Serving'
    BY <1>1, <1>4, AnswerKeepsService
  <1> QED BY <1>8, <1>9, <1>10, <1>11 DEF IInv, Order

LEMMA TimeOutKeeps ==
  ASSUME IInv, NEW s \in Sockets, JoinTimesOut(s)
  PROVE  IInv'
  <1>1. /\ JoinFails(s, FALSE) /\ known' = known /\ next' = next /\ socket' = socket
        /\ up' = up /\ down' = down /\ UNCHANGED server
    BY DEF JoinTimesOut
  <1>2. down' \in [Sockets -> Seq(Message)]
    BY <1>1 DEF IInv, Types
  <1>3. Taking /\ \E terminal \in BOOLEAN : JoinFails(s, terminal)
    BY <1>1 DEF Taking
  <1> QED BY <1>1, <1>2, <1>3, AnswerKeeps

(* match_started: the session goes on with the cursor of the server.       *)
LEMMA StartKeeps ==
  ASSUME IInv, NEW s \in Sockets, heard = s, down[s] # <<>>, Head(down[s]).kind = "started",
         down' = [down EXCEPT ![s] = Tail(@)], Resumable,
         MatchStarted(Head(down[s]).seq),
         UNCHANGED <<socket, heard, stage, link, up, server>>
  PROVE  IInv'
  <1>1. /\ Types /\ OneSpeaks /\ Joining /\ Starting /\ CursorIsFresh /\ LossIsLast
    BY DEF IInv
  <1>2. /\ match' = match /\ presence' = presence /\ expected' = expected /\ socket' = socket
        /\ heard' = heard /\ stage' = stage /\ link' = link /\ up' = up
    BY DEF server
  <1>3. /\ down \in [Sockets -> Seq(Message)] /\ down[s] \in Seq(Message)
        /\ expected \in 0..MaxCommands /\ expected \in Int /\ NoSocket \notin Sockets
        /\ presence \in Sockets \cup {NoSocket}
    BY <1>1, LiveClientAssumption DEF Types, TypeOK, Sockets
  <1>4. socket = s /\ heard # NoSocket /\ phase \in {"connecting", "reconnecting"}
    BY <1>1, <1>3 DEF OneSpeaks, Resumable
  <1>5. "started" \in Kinds /\ "disconnect" \in Kinds
    BY DEF Kinds
  <1>6. /\ Tail(down[s]) \in Seq(Message) /\ Has(down[s], "started")
        /\ StartsOnce(Tail(down[s])) /\ ~Has(Tail(down[s]), "started")
        /\ Head(down[s]).seq = expected
        /\ EndsLost(down[s]) => EndsLost(Tail(down[s])) /\ Has(Tail(down[s]), "disconnect")
    <2>1. StartsOnce(down[s]) /\ StartsAt(down[s], expected)
      BY <1>1, <1>4 DEF Starting, CursorIsFresh
    <2> QED BY <1>3, <1>5, <2>1, Taken
  <1>7. phase' = "active" /\ known' = TRUE /\ next' = expected /\ recon' = FALSE
    BY <1>6 DEF MatchStarted, AdoptedCursor
  <1>8. /\ down' \in [Sockets -> Seq(Message)] /\ down'[s] = Tail(down[s])
        /\ \A t \in Sockets : t # s => down'[t] = down[t]
    BY <1>3, <1>6
  <1>9. Types'
    BY <1>1, <1>2, <1>3, <1>7, <1>8 DEF Types, TypeOK, Phases
  <1>10. OneSpeaks' /\ Joining'
    BY <1>1, <1>2 DEF OneSpeaks, Joining
  <1>11. Starting'
    <2>1. ~Has(up[s], "join") /\ match # "lobby"
      BY <1>1, <1>6 DEF Starting
    <2>2. \A t \in Sockets : /\ StartsOnce(down'[t])
                             /\ Has(down'[t], "started") => ~Has(up[t], "join")
      BY <1>1, <1>6, <1>8 DEF Starting
    <2>3. ~Has(down'[socket], "started") /\ ~Has(up[socket], "join")
      BY <1>4, <1>6, <1>8, <2>1
    <2>4. match' # "lobby" /\ up' = up /\ socket' = socket
      BY <1>2, <2>1
    <2>5. \A t \in Sockets :
            /\ StartsOnce(down'[t])
            /\ Has(down'[t], "started") => match' # "lobby" /\ ~Has(up'[t], "join")
            /\ Has(up'[t], "dispatch") => match' # "lobby"
      BY <2>2, <2>4
    <2>6. ~Has(down'[socket'], "started") /\ ~Has(up'[socket'], "join")
      BY <2>3, <2>4
    <2> QED BY <2>4, <2>5, <2>6 DEF Starting
  <1>12. CursorIsFresh'
    BY <1>7 DEF CursorIsFresh
  <1>13. CursorLeads'
    <2>1. presence # NoSocket => ~Has(up[presence], "dispatch")
      BY <1>1, <1>4, <1>6 DEF CursorIsFresh
    <2>2. presence # NoSocket => Below(up[presence], expected)
      BY <2>1 DEF Has, Below
    <2> QED BY <1>2, <1>3, <1>7, <2>2 DEF CursorLeads
  <1>14. link[s] = "lost" => EndsLost(down[s])
    BY <1>1, <1>4 DEF LossIsLast
  <1>15. LossIsLast' /\ Serving'
    BY <1>2, <1>4, <1>6, <1>8, <1>14 DEF LossIsLast, Serving
  <1> QED BY <1>9, <1>10, <1>11, <1>12, <1>13, <1>15 DEF IInv

(* Any other message that is handled, or that nobody listens to.           *)
LEMMA OtherKeeps ==
  ASSUME IInv, NEW s \in Sockets, down[s] # <<>>,
         down' = [down EXCEPT ![s] = Tail(@)],
         next' = next, recon' \in BOOLEAN, known' = known, phase' \in Phases,
         \/ phase' = phase
         \/ phase' \notin {"connecting", "active", "reconnecting"}
         \/ phase = "active" /\ phase' = "reconnecting",
         heard = s /\ Head(down[s]).kind = "disconnect" => phase' # "active",
         UNCHANGED <<socket, heard, stage, link, up, server>>
  PROVE  IInv'
  <1>1. Types /\ Order /\ OneSpeaks /\ LossIsLast /\ Serving
    BY DEF IInv, Order
  <1>2. /\ match' = match /\ presence' = presence /\ expected' = expected /\ socket' = socket
        /\ heard' = heard /\ stage' = stage /\ link' = link /\ up' = up
    BY DEF server
  <1>3. /\ down \in [Sockets -> Seq(Message)] /\ down[s] \in Seq(Message)
        /\ socket \in Sockets
    BY <1>1 DEF Types, TypeOK
  <1>4. "disconnect" \in Kinds
    BY DEF Kinds
  <1>5. /\ Tail(down[s]) \in Seq(Message)
        /\ Has(down[s], "disconnect") <=>
             Head(down[s]).kind = "disconnect" \/ Has(Tail(down[s]), "disconnect")
    BY <1>3, <1>4, Taken
  <1>6. /\ down' \in [Sockets -> Seq(Message)] /\ down'[s] = Tail(down[s])
        /\ \A t \in Sockets : t # s => down'[t] = down[t]
    BY <1>3, <1>5
  <1>7. Taking /\ Calm /\ Drained
    <2>1. Taking
      BY <1>6 DEF Taking
    <2> QED BY <1>1, <1>2, <2>1, TakingIsCalm, NothingMoves
  <1>8. Types'
    BY <1>1, <1>2, <1>6 DEF Types, TypeOK
  <1>9. Order'
    BY <1>1, <1>2, <1>7, <1>8, CalmKeepsOrder
  <1>10. LossIsLast'
    BY <1>1, <1>2, <1>7, LossStaysLast
  <1>11. Serving'
    <2> SUFFICES ASSUME phase' = "active", ~Overtaken
                 PROVE  heard = socket /\ (link[socket] = "lost" => Has(down'[socket], "disconnect"))
      BY <1>2 DEF Serving, Overtaken
    <2>1. heard = socket /\ (link[socket] = "lost" => Has(down[socket], "disconnect"))
      BY <1>1 DEF Serving
    <2> QED BY <1>3, <1>5, <1>6, <2>1
  <1> QED BY <1>8, <1>9, <1>10, <1>11 DEF IInv, Order

LEMMA ReceiveKeeps ==
  ASSUME IInv, NEW s \in Sockets, Receive(s)
  PROVE  IInv'
  <1> DEFINE m == Head(down[s])
             answer == {"joined", "refused", "failed"}
  <1>1. Types /\ down \in [Sockets -> Seq(Message)] /\ phase \in Phases /\ recon \in BOOLEAN
    BY DEF IInv, Types, TypeOK
  <1>2. /\ down[s] # <<>> /\ down' = [down EXCEPT ![s] = Tail(@)]
        /\ socket' = socket /\ up' = up /\ UNCHANGED server
    BY DEF Receive
  <1>3. CASE m.kind \in answer
    <2>1. Tail(down[s]) \in Seq(Message)
      BY <1>1, <1>2, Taken
    <2>2. /\ down' \in [Sockets -> Seq(Message)] /\ down'[s] = Tail(down[s])
          /\ \A t \in Sockets : t # s => down'[t] = down[t]
      BY <1>1, <1>2, <2>1
    <2>3. Taking
      BY <1>2, <2>2 DEF Taking
    <2>4. /\ JoinSucceeds(s) \/ \E terminal \in BOOLEAN : JoinFails(s, terminal)
          /\ known' = known /\ next' = next
      BY <1>3 DEF Receive
    <2> QED BY <1>2, <2>2, <2>3, <2>4, AnswerKeeps
  <1>4. CASE m.kind \notin answer
    <2>1. /\ IF heard = s THEN HandleMatchData(m) ELSE UNCHANGED <<phase, known, next, recon, timers>>
          /\ UNCHANGED <<socket, heard, stage, link, up, server>>
      BY <1>2, <1>4 DEF Receive
    <2>2. CASE heard = s /\ m.kind = "started" /\ Resumable
      <3>1. MatchStarted(m.seq)
        BY <2>1, <2>2 DEF HandleMatchData
      <3> QED BY <1>2, <2>1, <2>2, <3>1, StartKeeps
    <2>3. CASE ~(heard = s /\ m.kind = "started" /\ Resumable)
      <3>1. CASE heard # s
        BY <1>1, <1>2, <2>1, <3>1, OtherKeeps
      <3>2. CASE heard = s /\ m.kind = "started" /\ ~Resumable
        BY <1>1, <1>2, <2>1, <3>2, OtherKeeps DEF HandleMatchData, MatchStarted
      <3>3. CASE heard = s /\ m.kind \in {"finished", "cancelled"}
        BY <1>1, <1>2, <2>1, <3>3, OtherKeeps DEF HandleMatchData, MatchResult, Phases, Ended
      <3>4. CASE heard = s /\ m.kind = "closed"
        BY <1>1, <1>2, <2>1, <3>4, OtherKeeps DEF HandleMatchData, MatchClosed, Phases, Ended
      <3>5. CASE heard = s /\ m.kind \notin {"started", "finished", "cancelled", "closed"}
        BY <1>1, <1>2, <2>1, <3>5, OtherKeeps DEF HandleMatchData, OnDisconnect, BeginReconnect, Phases
      <3> QED BY <1>4, <2>3, <3>1, <3>2, <3>3, <3>4, <3>5
    <2> QED BY <2>2, <2>3
  <1> QED BY <1>3, <1>4

(* A command: it is numbered with the client's cursor, which moves on      *)
(* whether the send succeeds, fails, or fails after it went out.           *)
LEMMA SendKeeps ==
  ASSUME IInv, SendDispatch
  PROVE  IInv'
  <1> DEFINE m == Msg("dispatch", next)
  <1>1. /\ Types /\ OneSpeaks /\ Joining /\ Starting /\ CursorLeads /\ LossIsLast /\ Serving
    BY DEF IInv
  <1>2. /\ phase = "active" /\ next < MaxCommands /\ next' = next + 1
        /\ known' = known /\ socket' = socket /\ heard' = heard /\ stage' = stage /\ link' = link
        /\ down' = down /\ match' = match /\ presence' = presence /\ expected' = expected
    BY DEF SendDispatch, server
  <1>3. /\ up' = up \/ up' = [up EXCEPT ![socket] = Append(@, m)]
        /\ phase' \in {"active", "reconnecting"} /\ recon' \in BOOLEAN
    BY <1>1, <1>2 DEF SendDispatch, Send, Sent, BeginReconnect, Types, TypeOK
  <1>4. /\ up \in [Sockets -> Seq(Message)] /\ socket \in Sockets /\ NoSocket \notin Sockets
        /\ presence \in Sockets \cup {NoSocket} /\ heard \in Sockets \cup {NoSocket}
        /\ next \in 0..MaxCommands /\ MaxCommands \in Int /\ next \in Int /\ next + 1 \in Int
        /\ expected \in Int
    BY <1>1, LiveClientAssumption DEF Types, TypeOK, Sockets
  <1>5. /\ m \in Message /\ m.kind = "dispatch" /\ m.seq = next
        /\ {"join", "dispatch", "started"} \subseteq Kinds
    BY <1>4 DEF Msg, Message, Kinds
  <1> HIDE DEF m
  <1>6. \A t \in Sockets :
          \/ up'[t] = up[t]
          \/ t = socket /\ up'[t] = Append(up[t], m)
    BY <1>3, <1>4
  <1>7. Append(up[socket], m) \in Seq(Message)
    BY <1>4, <1>5, Appended
  <1>8. Types'
    <2>1. up' \in [Sockets -> Seq(Message)]
      BY <1>3, <1>4, <1>7
    <2>2. next' \in 0..MaxCommands
      BY <1>2, <1>4
    <2> QED BY <1>1, <1>2, <1>3, <2>1, <2>2 DEF Types, TypeOK, Phases
  <1>9. ~Has(up[socket], "join") /\ ~Has(down[socket], "started") /\ match # "lobby"
    BY <1>1, <1>2 DEF Starting
  <1>10. ASSUME NEW t \in Sockets
         PROVE  /\ JoinsFirst(up'[t]) /\ Below(up'[t], MaxCommands)
                /\ Has(up'[t], "join") => Has(up[t], "join") /\ up'[t] = up[t]
                /\ Below(up[t], next) => Below(up'[t], next + 1)
    <2>1. JoinsFirst(up[t]) /\ Below(up[t], MaxCommands) /\ up[t] \in Seq(Message)
      BY <1>1, <1>4 DEF Joining
    <2>2. Below(up[t], next) => Below(up[t], next + 1)
      <3> SUFFICES ASSUME Below(up[t], next), NEW k \in 1..Len(up[t]), up[t][k].kind = "dispatch"
                   PROVE  up[t][k].seq < next + 1
        BY DEF Below
      <3>1. up[t][k].seq < next /\ up[t][k] \in Message
        BY <2>1 DEF Below
      <3> QED BY <1>4, <3>1 DEF Message
    <2>3. CASE up'[t] = up[t]
      BY <2>1, <2>2, <2>3
    <2>4. CASE t = socket /\ up'[t] = Append(up[t], m)
      <3>1. JoinsFirst(up'[t]) /\ Below(up'[t], MaxCommands)
        BY <1>2, <1>4, <1>5, <2>1, <2>4, Appended
      <3>2. ~Has(up'[t], "join")
        BY <1>5, <1>9, <2>1, <2>4, Appended
      <3>3. next < next + 1
        BY <1>4
      <3>4. Below(up[t], next) => Below(up'[t], next + 1)
        BY <1>4, <1>5, <2>1, <2>2, <2>4, <3>3, Appended
      <3> QED BY <3>1, <3>2, <3>4
    <2> QED BY <1>6, <2>3, <2>4
  <1>11. OneSpeaks'
    BY <1>1, <1>2 DEF OneSpeaks
  <1>12. Joining'
    <2> SUFFICES ASSUME NEW t \in Sockets
                 PROVE  /\ stage'[t] \in {"unused", "opening"} => up'[t] = <<>> /\ presence' # t
                        /\ JoinsFirst(up'[t]) /\ Below(up'[t], MaxCommands)
                        /\ Has(up'[t], "join") => ~Has(up'[t], "dispatch") /\ presence' # t
      BY DEF Joining
    <2>1. stage[t] \in {"unused", "opening"} => t # socket
      BY <1>1 DEF OneSpeaks
    <2> QED BY <1>1, <1>2, <1>6, <1>10, <2>1 DEF Joining
  <1>13. Starting'
    <2>1. \A t \in Sockets :
            /\ StartsOnce(down'[t])
            /\ Has(down'[t], "started") => match' # "lobby" /\ ~Has(up'[t], "join")
            /\ Has(up'[t], "dispatch") => match' # "lobby"
      BY <1>1, <1>2, <1>9, <1>10 DEF Starting
    <2>2. ~Has(up'[socket'], "join") /\ ~Has(down'[socket'], "started")
      BY <1>2, <1>4, <1>9, <1>10
    <2> QED BY <1>2, <1>9, <2>1, <2>2 DEF Starting
  <1>14. CursorIsFresh'
    <2>1. heard # NoSocket => ~Has(down[heard], "started")
      BY <1>1, <1>9 DEF OneSpeaks
    <2>2. heard # NoSocket => StartsAt(down[heard], expected)
      BY <2>1 DEF Has, StartsAt
    <2> QED BY <1>2, <2>1, <2>2 DEF CursorIsFresh
  <1>15. CursorLeads'
    <2>1. expected <= next /\ (presence # NoSocket => Below(up[presence], next))
      BY <1>1, <1>2 DEF CursorLeads
    <2>2. presence # NoSocket => Below(up'[presence], next + 1)
      BY <1>4, <1>10, <2>1
    <2> QED BY <1>2, <1>4, <2>1, <2>2 DEF CursorLeads
  <1>16. LossIsLast' /\ Serving'
    BY <1>1, <1>2 DEF LossIsLast, Serving, Overtaken
  <1> QED BY <1>8, <1>11, <1>12, <1>13, <1>14, <1>15, <1>16 DEF IInv

LEMMA SurrenderSendKeeps ==
  ASSUME IInv, SendSurrender
  PROVE  IInv'
  <1> DEFINE m == Msg("surrender", 0)
  <1>1. Types /\ Order /\ OneSpeaks /\ LossIsLast /\ Serving
    BY DEF IInv, Order
  <1>2. /\ known' = known /\ next' = next /\ socket' = socket /\ heard' = heard
        /\ stage' = stage /\ link' = link /\ down' = down
        /\ match' = match /\ presence' = presence /\ expected' = expected
    BY DEF SendSurrender, server
  <1>3. /\ up' = up \/ up' = [up EXCEPT ![socket] = Append(@, m)]
        /\ phase' = phase \/ (phase = "active" /\ phase' = "reconnecting")
        /\ recon' \in BOOLEAN
    BY <1>1 DEF SendSurrender, Send, Sent, BeginReconnect, Types, TypeOK
  <1>4. up \in [Sockets -> Seq(Message)] /\ socket \in Sockets /\ phase \in Phases
    BY <1>1 DEF Types, TypeOK
  <1>5. m \in Message /\ m.kind = "surrender" /\ {"join", "dispatch"} \subseteq Kinds
    BY LiveClientAssumption DEF Msg, Message, Kinds
  <1> HIDE DEF m
  <1>6. \A t \in Sockets : up'[t] = up[t] \/ (t = socket /\ up'[t] = Append(up[t], m))
    BY <1>3, <1>4
  <1>7. Append(up[socket], m) \in Seq(Message)
    BY <1>4, <1>5, Appended
  <1>8. Drained
    <2> SUFFICES ASSUME NEW t \in Sockets
                 PROVE  /\ up[t] = <<>> /\ t # socket => up'[t] = <<>>
                        /\ JoinsFirst(up[t]) => JoinsFirst(up'[t])
                        /\ \A kind \in {"join", "dispatch"} : Has(up'[t], kind) => Has(up[t], kind)
                        /\ \A n \in Int : Below(up[t], n) => Below(up'[t], n)
      BY DEF Drained
    <2>1. CASE up'[t] = up[t]
      BY <2>1
    <2>2. CASE t = socket /\ up'[t] = Append(up[t], m)
      BY <1>4, <1>5, <2>2, Appended
    <2> QED BY <1>6, <2>1, <2>2
  <1>9. Types'
    <2>1. up' \in [Sockets -> Seq(Message)]
      BY <1>3, <1>4, <1>7
    <2> QED BY <1>1, <1>2, <1>3, <2>1 DEF Types, TypeOK, Phases
  <1>10. Calm
    BY <1>2, NothingMoves
  <1>11. Order'
    BY <1>1, <1>2, <1>3, <1>8, <1>9, <1>10, CalmKeepsOrder
  <1>12. LossIsLast' /\ Serving'
    BY <1>1, <1>2, <1>3 DEF LossIsLast, Serving, Overtaken
  <1> QED BY <1>9, <1>11, <1>12 DEF IInv, Order

(* A fresh socket is bound and asks to join.                               *)
LEMMA OpenedKeeps ==
  ASSUME IInv, NEW s \in Sockets, Opened(s)
  PROVE  IInv'
  <1> DEFINE ask == <<Msg("join", 0)>>
  <1>1. Types /\ Order /\ OneSpeaks /\ Joining /\ Starting /\ LossIsLast /\ Serving
    BY DEF IInv, Order
  <1>2. /\ stage[s] = "opening" /\ phase' = phase /\ known' = known /\ next' = next
        /\ recon' = recon /\ match' = match /\ presence' = presence /\ expected' = expected
    BY DEF Opened, server
  <1>3. /\ up \in [Sockets -> Seq(Message)] /\ down \in [Sockets -> Seq(Message)]
        /\ stage \in [Sockets -> Stages] /\ link \in [Sockets -> {"none", "open", "lost", "closed"}]
        /\ socket \in Sockets /\ heard \in Sockets \cup {NoSocket} /\ MaxCommands \in Int
    BY <1>1, LiveClientAssumption DEF Types, TypeOK
  <1>4. CASE phase # "reconnecting"
    <2>1. /\ stage' = [stage EXCEPT ![s] = "done"]
          /\ socket' = socket /\ heard' = heard /\ link' = link /\ up' = up /\ down' = down
      BY <1>4 DEF Opened, StillReconnecting
    <2>2. /\ stage' \in [Sockets -> Stages] /\ stage'[socket] = stage[socket]
          /\ \A t \in Sockets : stage'[t] \in {"unused", "opening"} => stage[t] \in {"unused", "opening"}
      BY <1>1, <1>2, <1>3, <2>1 DEF OneSpeaks, Stages
    <2>3. Types'
      BY <1>1, <1>2, <2>1, <2>2 DEF Types, TypeOK
    <2>4. Calm /\ Drained
      BY <2>1, NothingMoves
    <2>5. Order'
      BY <1>1, <1>2, <2>1, <2>2, <2>3, <2>4, CalmKeepsOrder
    <2>6. LossIsLast' /\ Serving'
      BY <1>1, <1>2, <2>1, <2>2 DEF LossIsLast, Serving, Overtaken
    <2> QED BY <2>3, <2>5, <2>6 DEF IInv, Order
  <1>5. CASE phase = "reconnecting"
    <2>1. /\ socket' = s /\ heard' = s
          /\ stage' = [stage EXCEPT ![s] = "joining"]
          /\ link' = [link EXCEPT ![s] = "open"]
          /\ up' = [up EXCEPT ![s] = ask]
          /\ down' = [t \in Sockets |-> IF stage[t] = "joining" THEN down[t] ELSE <<>>]
      BY <1>5 DEF Opened, StillReconnecting
    <2>2. /\ ask \in Seq(Message) /\ ~Has(ask, "dispatch") /\ JoinsFirst(ask)
          /\ \A n : Below(ask, n)
      BY Asking
    <2> HIDE DEF ask
    <2>3. /\ up'[s] = ask /\ \A t \in Sockets : t # s => up'[t] = up[t]
          /\ stage'[s] = "joining" /\ \A t \in Sockets : t # s => stage'[t] = stage[t]
          /\ link'[s] = "open" /\ down'[s] = <<>>
          /\ \A t \in Sockets : down'[t] = down[t] \/ down'[t] = <<>>
      BY <1>2, <1>3, <2>1
    <2>4. Types'
      <3>1. up' \in [Sockets -> Seq(Message)] /\ link' \in [Sockets -> {"none", "open", "lost", "closed"}]
        BY <1>3, <2>1, <2>2
      <3>2. stage' \in [Sockets -> Stages]
        BY <1>3, <2>1 DEF Stages
      <3>3. down' \in [Sockets -> Seq(Message)]
        BY <1>3, <2>1, Nothing
      <3> QED BY <1>1, <1>2, <2>1, <3>1, <3>2, <3>3 DEF Types, TypeOK
    <2>5. OneSpeaks'
      BY <2>1, <2>3 DEF OneSpeaks
    <2>6. presence # s
      BY <1>1, <1>2 DEF Joining
    <2>7. Joining'
      <3> SUFFICES ASSUME NEW t \in Sockets
                   PROVE  /\ stage'[t] \in {"unused", "opening"} => up'[t] = <<>> /\ presence' # t
                          /\ JoinsFirst(up'[t]) /\ Below(up'[t], MaxCommands)
                          /\ Has(up'[t], "join") => ~Has(up'[t], "dispatch") /\ presence' # t
        BY DEF Joining
      <3>1. CASE t = s
        BY <1>2, <2>2, <2>3, <2>6, <3>1
      <3>2. CASE t # s
        BY <1>1, <1>2, <2>3, <3>2 DEF Joining
      <3> QED BY <3>1, <3>2
    <2>8. Starting'
      <3>1. match # "lobby"
        BY <1>1, <1>5 DEF Starting
      <3>2. ASSUME NEW t \in Sockets
            PROVE  StartsOnce(down'[t]) /\ (Has(down'[t], "started") => ~Has(up'[t], "join"))
        <4>1. CASE down'[t] = <<>>
          BY <4>1, Nothing
        <4>2. CASE down'[t] = down[t] /\ t # s
          BY <1>1, <2>3, <4>2 DEF Starting
        <4> QED BY <2>3, <4>1, <4>2
      <3> QED BY <1>2, <1>5, <3>1, <3>2 DEF Starting
    <2>9. CursorIsFresh'
      BY <2>1, <2>3, Nothing DEF CursorIsFresh
    <2>10. CursorLeads' /\ Serving'
      BY <1>2, <1>5 DEF CursorLeads, Serving
    <2>11. LossIsLast'
      BY <2>1, <2>3 DEF LossIsLast
    <2> QED BY <2>4, <2>5, <2>7, <2>8, <2>9, <2>10, <2>11 DEF IInv
  <1> QED BY <1>4, <1>5

-----------------------------------------------------------------------------
(* The theorems.                                                           *)

LEMMA Initially == Init => IInv
  <1> SUFFICES ASSUME Init PROVE IInv
    OBVIOUS
  <1>1. 0 \in Sockets /\ NoSocket \notin Sockets /\ MaxCommands \in Nat
    BY LiveClientAssumption DEF Sockets
  <1>2. /\ up \in [Sockets -> Seq(Message)] /\ up[0] = <<Msg("join", 0)>>
        /\ \A s \in Sockets : s # 0 => up[s] = <<>>
        /\ \A s \in Sockets : down[s] = <<>>
    BY <1>1, Asking, Nothing DEF Init
  <1>3. Types
    <2>1. /\ phase \in Phases /\ next \in 0..MaxCommands /\ expected \in 0..MaxCommands
          /\ socket \in Sockets /\ heard \in Sockets \cup {NoSocket}
      BY <1>1 DEF Init, Phases
    <2>2. known \in BOOLEAN /\ recon \in BOOLEAN
      BY DEF Init
    <2>3. stage \in [Sockets -> Stages] /\ link \in [Sockets -> {"none", "open", "lost", "closed"}]
      BY DEF Init, Stages
    <2>4. down \in [Sockets -> Seq(Message)]
      BY Nothing DEF Init
    <2>5. match \in {"lobby", "playing", "finished", "cancelled", "gone"}
          /\ presence \in Sockets \cup {NoSocket}
      BY DEF Init
    <2> QED BY <1>2, <2>1, <2>2, <2>3, <2>4, <2>5 DEF Types, TypeOK
  <1>4. OneSpeaks
    BY <1>1 DEF Init, OneSpeaks
  <1>5. Joining
    BY <1>1, <1>2, Asking, Nothing DEF Init, Joining
  <1>6. Starting
    BY <1>1, <1>2, Asking, Nothing DEF Init, Starting
  <1>7. CursorIsFresh /\ CursorLeads /\ LossIsLast /\ Serving
    BY <1>1, <1>2, Nothing DEF Init, CursorIsFresh, CursorLeads, LossIsLast, Serving
  <1> QED BY <1>3, <1>4, <1>5, <1>6, <1>7 DEF IInv

LEMMA Inductive == IInv /\ [Next]_vars => IInv'
  <1> SUFFICES ASSUME IInv, [Next]_vars PROVE IInv'
    OBVIOUS
  <1>1. CASE Server
    BY <1>1, ServerKeeps
  <1>2. CASE SendDispatch
    BY <1>2, SendKeeps
  <1>3. CASE SendSurrender
    BY <1>3, SurrenderSendKeeps
  <1>4. CASE Close \/ DeadlineFires \/ AttemptFires
    BY <1>4, TimersKeep
  <1>5. ASSUME NEW s \in Sockets,
               JoinTimesOut(s) \/ ResyncFires(s) \/ Receive(s) \/ OpenFails(s) \/ Opened(s)
        PROVE  IInv'
    BY <1>5, TimeOutKeeps, TimersKeep, ReceiveKeeps, OpenedKeeps
  <1>6. CASE UNCHANGED vars
    BY <1>6 DEF IInv, Types, TypeOK, OneSpeaks, Joining, Starting, CursorIsFresh, CursorLeads,
       LossIsLast, Serving, Overtaken, vars, client, wire, server
  <1> QED BY <1>1, <1>2, <1>3, <1>4, <1>5, <1>6 DEF Next, Client

(* Every state of the specification satisfies the inductive invariant.     *)
THEOREM Invariance == Spec => []IInv
  BY Initially, Inductive, PTL DEF Spec

(* Each variable keeps its type: the cursors of the client and of the      *)
(* server stay within the commands sent.                                   *)
THEOREM TypeCorrect == Spec => []TypeOK
  <1>1. IInv => TypeOK
    BY DEF IInv, Types
  <1> QED BY <1>1, Invariance, PTL

(* An active session is on a socket that is bound and alive, or will learn *)
(* of its loss, and is never behind the server's cursor, for any number of *)
(* attempts and commands.                                                  *)
THEOREM ServedCorrect == Spec => []ActiveIsServed
  <1>1. IInv => ActiveIsServed
    <2> SUFFICES ASSUME IInv, phase = "active"
                 PROVE  /\ next >= expected
                        /\ \/ Overtaken
                           \/ heard = socket /\ (link[socket] = "lost" =>
                                \E k \in DOMAIN down[socket] : down[socket][k].kind = "disconnect")
      BY DEF ActiveIsServed
    <2>1. expected <= next /\ expected \in Int /\ next \in Int
      BY LiveClientAssumption DEF IInv, CursorLeads, Types, TypeOK
    <2>2. down[socket] \in Seq(Message)
      BY DEF IInv, Types, TypeOK
    <2>3. Has(down[socket], "disconnect") =>
            \E k \in DOMAIN down[socket] : down[socket][k].kind = "disconnect"
      BY <2>2 DEF Has
    <2> QED BY <2>1, <2>3 DEF IInv, Serving
  <1> QED BY <1>1, Invariance, PTL

(* What has ended stays ended, and binds no socket.                        *)
THEOREM EndedCorrect == Spec => EndedStaysEnded
  <1>1. IInv /\ [Next]_vars => [(phase \in Ended) => phase' \in Ended /\ heard' \in {heard, NoSocket}]_vars
    <2> SUFFICES ASSUME Next, phase \in Ended
                 PROVE  phase' \in Ended /\ heard' \in {heard, NoSocket}
      OBVIOUS
    <2>0. phase \notin {"connecting", "active", "reconnecting"}
      BY DEF Ended
    <2>1. CASE Server
      BY <2>1 DEF Server, Lose, Join, AnswerJoin, Leave, HandleDispatch, HandleSurrender,
         StartMatch, CancelMatch, EnforceReconnectGrace, FinishMatch, EndMatch, client
    <2>2. CASE SendDispatch \/ SendSurrender \/ Close
      BY <2>0, <2>2 DEF SendDispatch, SendSurrender, Close, Ended
    <2>3. CASE DeadlineFires \/ AttemptFires
      BY <2>0, <2>3 DEF DeadlineFires, AttemptFires, FinishReconnect
    <2>4. ASSUME NEW s \in Sockets, JoinTimesOut(s) \/ ResyncFires(s) \/ OpenFails(s) \/ Opened(s)
          PROVE  phase' \in Ended /\ heard' \in {heard, NoSocket}
      BY <2>0, <2>4 DEF JoinTimesOut, JoinFails, ResyncFires, OpenFails, Opened, StillReconnecting,
         FinishReconnect, Deaf
    <2>5. ASSUME NEW s \in Sockets, Receive(s)
          PROVE  phase' \in Ended /\ heard' \in {heard, NoSocket}
      <3> DEFINE m == Head(down[s])
      <3>1. CASE m.kind \in {"joined", "refused", "failed"}
        BY <2>0, <2>5, <3>1 DEF Receive, JoinSucceeds, JoinFails, FinishReconnect, Deaf
      <3>2. CASE m.kind \notin {"joined", "refused", "failed"}
        <4>1. heard' = heard /\ (IF heard = s THEN HandleMatchData(m) ELSE phase' = phase)
          BY <2>5, <3>2 DEF Receive
        <4> QED BY <2>0, <4>1 DEF HandleMatchData, MatchStarted, Resumable, MatchResult, MatchClosed,
                 OnDisconnect, BeginReconnect, Ended
      <3> QED BY <3>1, <3>2
    <2> QED BY <2>1, <2>2, <2>3, <2>4, <2>5 DEF Next, Client
  <1> QED BY <1>1, Invariance, PTL DEF Spec, EndedStaysEnded

-----------------------------------------------------------------------------
(* The deadline of a reconnect.                                            *)

Clocks == [attempt : BOOLEAN, loose : Nat, deadline : BOOLEAN, resync : SUBSET Sockets,
           held : Sockets \cup {NoSocket}]

(* While the session reconnects its reconnect is there, and its deadline   *)
(* runs: no attempt that fails, however late, is left to retry for ever.   *)
DeadlineRuns == phase = "reconnecting" => recon /\ timers.deadline

(* A step that does not start a reconnect keeps its deadline running.      *)
OnTime == phase' = "reconnecting" => /\ phase = "reconnecting" /\ recon' = recon
                                     /\ timers'.deadline = timers.deadline

LEMMA TornDownTyped == ASSUME timers \in Clocks PROVE TornDown \in Clocks
  BY DEF Clocks, TornDown

(* Another attempt that is scheduled leaves the deadline running.          *)
LEMMA ScheduledTyped ==
  ASSUME NEW set \in Clocks
  PROVE  Scheduled(set) \in Clocks /\ Scheduled(set).deadline = set.deadline
  <1>1. CASE phase # "reconnecting"
    BY <1>1 DEF Scheduled
  <1>2. CASE phase = "reconnecting"
    <2> DEFINE l == IF set.attempt THEN set.loose + 1 ELSE set.loose
    <2>1. l \in Nat
      BY DEF Clocks
    <2>2. Scheduled(set) = [set EXCEPT !.attempt = TRUE, !.loose = l]
      BY <1>2 DEF Scheduled, Clocks
    <2> HIDE DEF l
    <2> QED BY <2>1, <2>2 DEF Clocks
  <1> QED BY <1>1, <1>2

(* A reconnect begins with its deadline.                                   *)
LEMMA ReconnectBegins ==
  ASSUME timers \in Clocks, DeadlineRuns, BeginReconnect
  PROVE  timers' \in Clocks /\ DeadlineRuns'
  <1>1. CASE phase # "active"
    BY <1>1 DEF BeginReconnect, DeadlineRuns
  <1>2. CASE phase = "active"
    <2>1. /\ phase' = "reconnecting" /\ recon' = TRUE
          /\ timers' = [timers EXCEPT !.attempt = TRUE, !.deadline = TRUE, !.held = NoSocket]
      BY <1>2 DEF BeginReconnect
    <2>2. timers' \in Clocks /\ timers'.deadline = TRUE
      BY <2>1 DEF Clocks
    <2> QED BY <2>1, <2>2 DEF DeadlineRuns
  <1> QED BY <1>1, <1>2

(* What comes after the second await starts no reconnect.                  *)
LEMMA AnswerOnTime ==
  ASSUME NEW s \in Sockets, timers \in Clocks,
         JoinSucceeds(s) \/ \E terminal \in BOOLEAN : JoinFails(s, terminal)
  PROVE  timers' \in Clocks /\ OnTime
  <1>1. CASE JoinSucceeds(s)
    <2>1. /\ phase' = phase /\ recon' = recon
          /\ timers' = [timers EXCEPT !.resync = @ \cup {s}, !.held = IF recon THEN s ELSE @]
      BY <1>1 DEF JoinSucceeds
    <2>2. timers' \in Clocks /\ timers'.deadline = timers.deadline
      BY <2>1 DEF Clocks
    <2> QED BY <2>1, <2>2 DEF OnTime
  <1>2. ASSUME NEW terminal \in BOOLEAN, JoinFails(s, terminal)
        PROVE  timers' \in Clocks /\ OnTime
    <2>1. CASE terminal /\ phase = "reconnecting"
      <3>1. phase' = "reconnect_failed" /\ timers' = TornDown
        BY <1>2, <2>1 DEF JoinFails, FinishReconnect
      <3> QED BY <3>1, TornDownTyped DEF OnTime
    <2>2. CASE ~(terminal /\ phase = "reconnecting")
      <3>1. phase' = phase /\ recon' = recon /\ timers' = Scheduled(timers)
        BY <1>2, <2>2 DEF JoinFails
      <3> QED BY <3>1, ScheduledTyped DEF OnTime
    <2> QED BY <2>1, <2>2
  <1> QED BY <1>1, <1>2

(* Timers, and the first await: only the deadline itself stops one.        *)
LEMMA TimersOnTime ==
  ASSUME timers \in Clocks,
         \/ DeadlineFires \/ AttemptFires \/ Close
         \/ \E s \in Sockets : OpenFails(s) \/ Opened(s) \/ ResyncFires(s)
  PROVE  timers' \in Clocks /\ OnTime
  <1>1. CASE DeadlineFires
    <2>1. CASE phase = "reconnecting"
      <3>1. phase' = "reconnect_failed" /\ timers' = TornDown
        BY <1>1, <2>1 DEF DeadlineFires, FinishReconnect
      <3> QED BY <3>1, TornDownTyped DEF OnTime
    <2>2. CASE phase # "reconnecting"
      <3>1. phase' = phase /\ timers' = [timers EXCEPT !.deadline = FALSE]
        BY <1>1, <2>2 DEF DeadlineFires, FinishReconnect
      <3> QED BY <2>2, <3>1 DEF OnTime, Clocks
    <2> QED BY <2>1, <2>2
  <1>2. CASE AttemptFires
    <2>1. /\ phase' = phase /\ recon' = recon
          /\ \/ timers' = [timers EXCEPT !.attempt = FALSE]
             \/ timers.loose > 0 /\ timers' = [timers EXCEPT !.loose = @ - 1]
      BY <1>2 DEF AttemptFires
    <2>2. ASSUME timers.loose > 0, timers' = [timers EXCEPT !.loose = @ - 1]
          PROVE  timers' \in Clocks /\ timers'.deadline = timers.deadline
      <3> DEFINE l == timers.loose - 1
      <3>1. l \in Nat
        BY <2>2 DEF Clocks
      <3>2. timers' = [timers EXCEPT !.loose = l]
        BY <2>2
      <3> HIDE DEF l
      <3> QED BY <3>1, <3>2 DEF Clocks
    <2>3. ASSUME timers' = [timers EXCEPT !.attempt = FALSE]
          PROVE  timers' \in Clocks /\ timers'.deadline = timers.deadline
      BY <2>3 DEF Clocks
    <2> QED BY <2>1, <2>2, <2>3 DEF OnTime
  <1>3. CASE Close
    <2>1. phase' = "none" /\ timers' = TornDown
      BY <1>3 DEF Close
    <2> QED BY <2>1, TornDownTyped DEF OnTime
  <1>4. ASSUME NEW s \in Sockets, OpenFails(s) \/ Opened(s) PROVE timers' \in Clocks /\ OnTime
    <2>1. phase' = phase /\ recon' = recon /\ timers' \in {timers, Scheduled(timers)}
      BY <1>4 DEF OpenFails, Opened
    <2> QED BY <2>1, ScheduledTyped DEF OnTime
  <1>5. ASSUME NEW s \in Sockets, ResyncFires(s) PROVE timers' \in Clocks /\ OnTime
    <2> DEFINE rest == [timers EXCEPT !.resync = @ \ {s}]
    <2>1. phase' = phase /\ recon' = recon /\ timers' = Scheduled(rest)
      BY <1>5 DEF ResyncFires
    <2>2. rest \in Clocks /\ rest.deadline = timers.deadline
      BY DEF Clocks
    <2> HIDE DEF rest
    <2> QED BY <2>1, <2>2, ScheduledTyped DEF OnTime
  <1> QED BY <1>1, <1>2, <1>3, <1>4, <1>5

(* What the handlers hear: match_started ends a reconnect, a loss starts   *)
(* one.                                                                    *)
LEMMA HeardOnTime ==
  ASSUME timers \in Clocks, DeadlineRuns, NEW m, HandleMatchData(m)
  PROVE  timers' \in Clocks /\ DeadlineRuns'
  <1>1. CASE m.kind = "started"
    <2>1. MatchStarted(m.seq)
      BY <1>1 DEF HandleMatchData
    <2>2. CASE Resumable
      <3>1. phase' = "active" /\ timers' \in {TornDown, timers}
        BY <2>1, <2>2 DEF MatchStarted
      <3> QED BY <3>1, TornDownTyped DEF DeadlineRuns
    <2>3. CASE ~Resumable
      BY <2>1, <2>3 DEF MatchStarted, DeadlineRuns
    <2> QED BY <2>2, <2>3
  <1>2. CASE m.kind \in {"finished", "cancelled"}
    <2>1. timers' = timers /\ recon' = recon /\ phase' \in {phase, m.kind}
      BY <1>2 DEF HandleMatchData, MatchResult
    <2> QED BY <1>2, <2>1 DEF DeadlineRuns
  <1>3. CASE m.kind = "closed"
    <2>1. timers' = timers /\ recon' = recon /\ phase' \in {phase, "expired"}
      BY <1>3 DEF HandleMatchData, MatchClosed
    <2> QED BY <2>1 DEF DeadlineRuns
  <1>4. CASE m.kind \notin {"started", "finished", "cancelled", "closed"}
    <2>1. BeginReconnect
      BY <1>4 DEF HandleMatchData, OnDisconnect
    <2> QED BY <2>1, ReconnectBegins
  <1> QED BY <1>1, <1>2, <1>3, <1>4

(* A session that reconnects has a deadline that still runs, whatever      *)
(* attempts fail, are overtaken or are forgotten: with a deadline that     *)
(* fires, no loss leaves it trying for ever.  It is what LossIsOvercome    *)
(* needs besides fairness.                                                 *)
THEOREM DeadlineCorrect == Spec => []DeadlineRuns
  <1> DEFINE Inv == timers \in Clocks /\ DeadlineRuns
  <1>1. Init => Inv
    BY DEF Init, TimersOff, Clocks, DeadlineRuns
  <1>2. Inv /\ [Next]_vars => Inv'
    <2> SUFFICES ASSUME Inv, [Next]_vars PROVE Inv'
      OBVIOUS
    <2>1. ASSUME timers' \in Clocks, OnTime PROVE Inv'
      BY <2>1 DEF OnTime, DeadlineRuns
    <2>2. ASSUME UNCHANGED client PROVE Inv'
      BY <2>2 DEF client, DeadlineRuns
    <2>3. CASE Server
      BY <2>2, <2>3 DEF Server, Lose, Join, AnswerJoin, Leave, HandleDispatch, HandleSurrender,
         StartMatch, CancelMatch, EnforceReconnectGrace, FinishMatch, EndMatch
    <2>4. CASE SendDispatch \/ SendSurrender
      <3>1. \/ phase' = phase /\ recon' = recon /\ timers' = timers
            \/ BeginReconnect
        BY <2>4 DEF SendDispatch, SendSurrender, Send
      <3> QED BY <3>1, ReconnectBegins DEF DeadlineRuns
    <2>5. CASE \/ DeadlineFires \/ AttemptFires \/ Close
               \/ \E s \in Sockets : OpenFails(s) \/ Opened(s) \/ ResyncFires(s)
      BY <2>1, <2>5, TimersOnTime
    <2>6. ASSUME NEW s \in Sockets, JoinTimesOut(s) PROVE Inv'
      <3>1. \E terminal \in BOOLEAN : JoinFails(s, terminal)
        BY <2>6 DEF JoinTimesOut
      <3> QED BY <2>1, <3>1, AnswerOnTime
    <2>7. ASSUME NEW s \in Sockets, Receive(s) PROVE Inv'
      <3> DEFINE m == Head(down[s])
      <3>1. CASE m.kind \in {"joined", "refused", "failed"}
        <4>1. JoinSucceeds(s) \/ \E terminal \in BOOLEAN : JoinFails(s, terminal)
          BY <2>7, <3>1 DEF Receive
        <4> QED BY <2>1, <4>1, AnswerOnTime
      <3>2. CASE m.kind \notin {"joined", "refused", "failed"}
        <4>1. \/ HandleMatchData(m)
              \/ phase' = phase /\ recon' = recon /\ timers' = timers
          BY <2>7, <3>2 DEF Receive
        <4> HIDE DEF m
        <4> QED BY <4>1, HeardOnTime DEF DeadlineRuns
      <3> QED BY <3>1, <3>2
    <2>8. CASE UNCHANGED vars
      BY <2>2, <2>8 DEF vars
    <2> QED BY <2>3, <2>4, <2>5, <2>6, <2>7, <2>8 DEF Next, Client
  <1>3. Inv => DeadlineRuns
    OBVIOUS
  <1> QED BY <1>1, <1>2, <1>3, PTL DEF Spec
=============================================================================
