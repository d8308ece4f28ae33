-------------------------------- MODULE Hub --------------------------------
(***************************************************************************)
(* The WebSocket hub of the message service (cmd/message-service/hub.go)   *)
(* with the goroutines that use it: the upgrade handler, each connection's *)
(* readPump and writePump, the 30 s ping sweep of wsHub.run, the eviction  *)
(* goroutines a broadcast starts, and the HTTP handlers that broadcast.    *)
(*                                                                         *)
(* hub.mu makes every hub method one atomic step: a method that changes    *)
(* the two maps holds the write lock to its end, and a broadcast holds the *)
(* read lock, so only channel sends and drains, which commute, run beside  *)
(* it.  A send channel is abstracted to its length and a flag for          *)
(* close(send).  A panic outside an HTTP handler ends the process (no      *)
(* goroutine recovers); chi's Recoverer turns one inside a handler into a  *)
(* 500, so such a handler stops half-way.                                  *)
(***************************************************************************)
EXTENDS Naturals, FiniteSets

CONSTANTS
    Users, Chats, Devices,
    Conns,          \* accepted WebSocket connections; an element is used once
    TokenDevices,   \* the device_id claims access tokens carry, NoDevice for a token without
    UnknownDevice,  \* user -> the device id "unknown-<user>"
    SendCap,        \* capacity of a send channel (256 in the code)
    MaxEvictions,   \* bound on the eviction goroutines waiting for one connection
    NoDevice, NoConn, NoUser

ASSUME HubAssumption ==
    /\ TokenDevices \subseteq Devices \cup {NoDevice}
    /\ UnknownDevice \in [Users -> Devices]
    /\ SendCap \in Nat \ {0}
    /\ MaxEvictions \in Nat
    /\ NoConn \notin Conns
    /\ NoDevice \notin Devices
    /\ NoUser \notin Users
    /\ IsFiniteSet(Chats)

VARIABLES
    byChat,     \* h.byChat: partial function, chat -> set of connections
    byUser,     \* h.byUser: user -> device -> connection, or NoConn
    userID,     \* client.userID, NoUser before the upgrade
    deviceID,   \* client.deviceID, NoDevice before the upgrade
    chatIDs,    \* client.chatIDs
    stage,      \* the connection's life: see Stages
    link,       \* its socket: live, silent (the peer answers no more), or closed by a pump;
                \* writePump runs until it is closed
    backlog,    \* number of frames in client.send
    closed,     \* connections whose client.send is closed
    evicting,   \* number of `go h.removeClient(client)` not yet run
    stale,      \* the ping sweep's list: how often each connection is in it
    presence,   \* Valkey set user_sessions:<user>
    lastSeen,   \* users whose users.last_seen was set after their last connection began
    crashed,    \* "no", or the panic that ended the process
    latest,     \* (auxiliary) user -> device -> connection registered last
    overflow    \* (auxiliary) connections that once had no room for a frame

registry == <<byChat, byUser>>
queues   == <<backlog, evicting, overflow>>
client   == <<userID, deviceID>>
sockets  == <<client, stage, link, chatIDs>>
valkey   == <<presence, lastSeen>>
vars     == <<byChat, byUser, userID, deviceID, chatIDs, stage, link, backlog, closed, evicting,
              stale, presence, lastSeen, crashed, latest, overflow>>

Stages == {"none", "accepted", "open", "gone"}
Panics == {"no", "close of closed channel", "send on closed channel"}

InChat(ch)      == IF ch \in DOMAIN byChat THEN byChat[ch] ELSE {}
DevicesOn(u)    == {byUser[u][d] : d \in Devices} \ {NoConn}
ChatsOf(c)      == {ch \in DOMAIN byChat : c \in byChat[ch]}
Listed(c)       == ChatsOf(c) # {} \/ \E u \in Users : c \in DevicesOn(u)

NoSlots == [u \in Users |-> [d \in Devices |-> NoConn]]

All(v)  == [c \in Conns |-> v]

Init ==
    /\ byChat = [ch \in {} |-> {}]
    /\ byUser = NoSlots
    /\ userID = All(NoUser)
    /\ deviceID = All(NoDevice)
    /\ chatIDs = All({})
    /\ stage = All("none")
    /\ link = All("closed")
    /\ backlog = All(0)
    /\ closed = {}
    /\ evicting = All(0)
    /\ stale = All(0)
    /\ latest = NoSlots
    /\ presence = [u \in Users |-> {}]
    /\ lastSeen = {}
    /\ crashed = "no"
    /\ overflow = {}

\* A panic outside an HTTP handler: the process ends and its memory is gone.
Dies(why) ==
    /\ byChat' = [ch \in {} |-> {}]
    /\ byUser' = NoSlots
    /\ userID' = All(NoUser)
    /\ deviceID' = All(NoDevice)
    /\ chatIDs' = All({})
    /\ stage' = All("none")
    /\ link' = All("closed")
    /\ backlog' = All(0)
    /\ closed' = {}
    /\ evicting' = All(0)
    /\ stale' = All(0)
    /\ latest' = NoSlots
    /\ crashed' = why
    /\ UNCHANGED overflow

-----------------------------------------------------------------------------
(* The two maps.                                                           *)

JoinChat(c, ch) ==
    byChat' = [x \in DOMAIN byChat \cup {ch} |->
                 IF x = ch THEN InChat(ch) \cup {c} ELSE byChat[x]]

\* delete(h.byChat[chatID], client) for the chats of S, and the key when nobody is left
LeaveChats(c, S) ==
    LET left(x) == IF x \in S THEN byChat[x] \ {c} ELSE byChat[x]
    IN  byChat' = [x \in {y \in DOMAIN byChat : left(y) # {} \/ y \notin S} |-> left(x)]

SetSlot(c, v) ==
    byUser' = [byUser EXCEPT ![userID[c]] = [@ EXCEPT ![deviceID[c]] = v]]

\* Fault: the presence entry is left to expire.
LeavePresenceNoSRem(c) ==
    LET u == userID[c]
        rest == presence[u] \ {deviceID[c]}
    IN  /\ presence' = presence
        /\ lastSeen' = IF rest = {} THEN lastSeen \cup {u} ELSE lastSeen

\* SRem of the device, then last_seen is stamped if the set is empty.
LeavePresence(c) ==
    LET u == userID[c]
        rest == presence[u] \ {deviceID[c]}
    IN  /\ presence' = [presence EXCEPT ![u] = rest]
        /\ lastSeen' = IF rest = {} THEN lastSeen \cup {u} ELSE lastSeen

\* hub.removeClient: the write lock is held from the first delete to close(client.send).
\* The slot of the connection's device is deleted whichever connection it holds.
RemoveClient(c) ==
    /\ c \notin closed
    /\ LeaveChats(c, DOMAIN byChat)
    /\ SetSlot(c, NoConn)
    /\ LeavePresence(c)
    /\ closed' = closed \cup {c}
    /\ UNCHANGED crashed

\* The same method, run for the second time: its last statement panics.
RemoveClientPanics(c) ==
    /\ c \in closed
    /\ LeavePresence(c)
    /\ Dies("close of closed channel")

-----------------------------------------------------------------------------
(* Non-blocking sends: `select { case client.send <- m: default: ... }`.   *)

\* Fault: off by one at the channel's capacity.
FullLate(c) == backlog[c] > SendCap
Full(c) == backlog[c] = SendCap

\* Fault: a full connection loses the frame and stays.
OfferDrops(S) ==
    /\ backlog' = [c \in Conns |-> IF c \in S /\ ~Full(c) THEN backlog[c] + 1 ELSE backlog[c]]
    /\ UNCHANGED evicting
    /\ overflow' = overflow \cup {c \in S : Full(c)}

\* Each connection of S takes the frame or, when full, gets an eviction goroutine.
Offer(S) ==
    /\ \A c \in S : Full(c) => evicting[c] < MaxEvictions
    /\ backlog' = [c \in Conns |-> IF c \in S /\ ~Full(c) THEN backlog[c] + 1 ELSE backlog[c]]
    /\ evicting' = [c \in Conns |-> IF c \in S /\ Full(c) THEN evicting[c] + 1 ELSE evicting[c]]
    /\ overflow' = overflow \cup {c \in S : Full(c)}

\* A send on a closed channel panics; Go's map order decides who was served before.
Sends(S) ==
    /\ S \cap closed = {}
    /\ Offer(S)
SendPanics(S) ==
    /\ S \cap closed # {}
    /\ \E T \in SUBSET (S \ closed) : Offer(T)

\* The same panic in a goroutine that nothing recovers.
SendKills(S) ==
    /\ S \cap closed # {}
    /\ Dies("send on closed channel")
    /\ UNCHANGED valkey

Others(ch, u) == {c \in InChat(ch) : userID[c] # u}

-----------------------------------------------------------------------------
(* handleWebSocket: the presence entry is stored before the hub knows the  *)
(* connection; then register, and the two pumps start.                     *)

\* Every token GenerateAccessToken issues lacks the device_id claim, so in a deployment
\* TokenDevices is {NoDevice} and all connections of a user share one device id.
Accept(c, u, t, ch) ==
    LET d == IF t = NoDevice THEN UnknownDevice[u] ELSE t
    IN  /\ stage[c] = "none"
        /\ stage' = [stage EXCEPT ![c] = "accepted"]
        /\ userID' = [userID EXCEPT ![c] = u]
        /\ deviceID' = [deviceID EXCEPT ![c] = d]
        /\ chatIDs' = [chatIDs EXCEPT ![c] = {ch}]
        /\ presence' = [presence EXCEPT ![u] = @ \cup {d}]
        /\ lastSeen' = lastSeen \ {u}
        /\ UNCHANGED <<registry, link, queues, closed, stale, crashed, latest>>

\* Fault: the first connection of a device keeps the slot.
RegisterKeepsFirst(c) ==
    /\ stage[c] = "accepted"
    /\ stage' = [stage EXCEPT ![c] = "open"]
    /\ link' = [link EXCEPT ![c] = "live"]
    /\ \E ch \in chatIDs[c] : JoinChat(c, ch)
    /\ IF byUser[userID[c]][deviceID[c]] = NoConn THEN SetSlot(c, c) ELSE UNCHANGED byUser
    /\ latest' = [latest EXCEPT ![userID[c]] = [@ EXCEPT ![deviceID[c]] = c]]
    /\ UNCHANGED <<client, chatIDs, queues, closed, stale, valkey, crashed>>

Register(c) ==
    /\ stage[c] = "accepted"
    /\ stage' = [stage EXCEPT ![c] = "open"]
    /\ link' = [link EXCEPT ![c] = "live"]
    /\ \E ch \in chatIDs[c] : JoinChat(c, ch)
    /\ SetSlot(c, c)
    /\ latest' = [latest EXCEPT ![userID[c]] = [@ EXCEPT ![deviceID[c]] = c]]
    /\ UNCHANGED <<client, chatIDs, queues, closed, stale, valkey, crashed>>

(* The expiry of user_sessions:<user>, 5 min after the last StoreUserSession. *)
PresenceExpires(u) ==
    /\ presence[u] # {}
    /\ presence' = [presence EXCEPT ![u] = {}]
    /\ UNCHANGED <<registry, sockets, queues, closed, stale, lastSeen,
                   crashed, latest>>

-----------------------------------------------------------------------------
(* readPump: frames are handled one at a time.                             *)

Reading(c) ==
    /\ stage[c] = "open"
    /\ link[c] # "closed"

Subscribe(c, ch) ==
    /\ Reading(c)
    /\ chatIDs' = [chatIDs EXCEPT ![c] = @ \cup {ch}]
    /\ JoinChat(c, ch)
    /\ UNCHANGED <<byUser, client, stage, link, queues, closed, stale, valkey,
                   crashed, latest>>

\* Fault: only the connection forgets the chat.
UnsubscribeForgets(c, ch) ==
    /\ Reading(c)
    /\ chatIDs' = [chatIDs EXCEPT ![c] = @ \ {ch}]
    /\ UNCHANGED <<registry, client, stage, link, queues, closed, stale, valkey,
                   crashed, latest>>

Unsubscribe(c, ch) ==
    /\ Reading(c)
    /\ chatIDs' = [chatIDs EXCEPT ![c] = @ \ {ch}]
    /\ LeaveChats(c, {ch})
    /\ UNCHANGED <<byUser, client, stage, link, queues, closed, stale, valkey,
                   crashed, latest>>

\* typing.start, typing.stop: one iteration of the loop over c.chatIDs.  The lock is taken
\* anew for each chat, and the peer may send such frames as often as it likes.
TypingFrame(c, ch) ==
    /\ Reading(c)
    /\ ch \in chatIDs[c]
    /\ \/ /\ Sends(Others(ch, userID[c]))
          /\ UNCHANGED <<registry, sockets, closed, stale, valkey, crashed, latest>>
       \/ SendKills(Others(ch, userID[c]))

\* call.offer, call.answer, call.ice, call.end, call.reject
CallFrame(c, target) ==
    /\ Reading(c)
    /\ \/ /\ Sends(DevicesOn(target))
          /\ UNCHANGED <<registry, sockets, closed, stale, valkey, crashed, latest>>
       \/ SendKills(DevicesOn(target))

\* Fault: readPump returns without removeClient when an eviction is pending.
ReadPumpExitTrustsEviction(c) ==
    /\ stage[c] = "open"
    /\ link[c] # "live"
    /\ stage' = [stage EXCEPT ![c] = "gone"]
    /\ link' = [link EXCEPT ![c] = "closed"]
    /\ \/ /\ evicting[c] > 0
          /\ UNCHANGED <<registry, closed, valkey, crashed>>
       \/ /\ evicting[c] = 0
          /\ RemoveClient(c)
    /\ UNCHANGED <<client, chatIDs, queues, stale, latest>>

\* The read fails (deadline of 60 s, reset, or writePump closed the socket): the deferred
\* removeClient and Close run.
ReadPumpExit(c) ==
    /\ stage[c] = "open"
    /\ link[c] # "live"
    /\ \/ /\ RemoveClient(c)
          /\ stage' = [stage EXCEPT ![c] = "gone"]
          /\ link' = [link EXCEPT ![c] = "closed"]
          /\ UNCHANGED <<client, chatIDs, queues, stale, latest>>
       \/ RemoveClientPanics(c)

PeerFallsSilent(c) ==
    /\ link[c] = "live"
    /\ link' = [link EXCEPT ![c] = "silent"]
    /\ UNCHANGED <<registry, client, chatIDs, stage, queues, closed, stale,
                   valkey, crashed, latest>>

-----------------------------------------------------------------------------
(* writePump.                                                              *)

WriteFrame(c) ==
    /\ link[c] # "closed"
    /\ backlog[c] > 0
    /\ backlog' = [backlog EXCEPT ![c] = @ - 1]
    /\ UNCHANGED <<registry, sockets, closed, evicting, overflow, stale, valkey,
                   crashed, latest>>

\* The channel is closed and empty: write a close frame, return, close the socket.
WriterSeesClose(c) ==
    /\ link[c] # "closed"
    /\ c \in closed
    /\ backlog[c] = 0
    /\ link' = [link EXCEPT ![c] = "closed"]
    /\ UNCHANGED <<registry, client, chatIDs, stage, queues, closed, stale, valkey,
                   crashed, latest>>

\* A frame or the 30 s ping cannot be written (10 s deadline): return, close the socket.
WriteFails(c) ==
    /\ link[c] = "silent"
    /\ link' = [link EXCEPT ![c] = "closed"]
    /\ \/ backlog[c] > 0 /\ backlog' = [backlog EXCEPT ![c] = @ - 1]
       \/ UNCHANGED backlog
    /\ UNCHANGED <<registry, client, chatIDs, stage, closed, evicting, overflow, stale,
                   valkey, crashed, latest>>

-----------------------------------------------------------------------------
(* Eviction: the goroutine a broadcast started, and the 30 s sweep.        *)

Evict(c) ==
    /\ evicting[c] > 0
    /\ \/ /\ RemoveClient(c)
          /\ evicting' = [evicting EXCEPT ![c] = @ - 1]
          /\ UNCHANGED <<sockets, backlog, overflow, stale, latest>>
       \/ RemoveClientPanics(c)

\* wsHub.run's tick: one ping per (chat, connection) pair of byChat, so a connection that
\* watches two chats can enter the list of stale connections twice.  The tick also deletes
\* the chats nobody is left in, holding only the read lock: NoEmptyChat says there are none.
Room(c)     == SendCap - backlog[c]
Pings(c)    == Cardinality(ChatsOf(c))
Watching    == UNION {byChat[ch] : ch \in DOMAIN byChat}

PingSweep ==
    /\ \A c \in Conns : stale[c] = 0
    /\ \/ /\ Watching \cap closed = {}
          /\ backlog' = [c \in Conns |-> IF Pings(c) <= Room(c) THEN backlog[c] + Pings(c)
                                         ELSE SendCap]
          /\ stale' = [c \in Conns |-> IF Pings(c) <= Room(c) THEN 0 ELSE Pings(c) - Room(c)]
          /\ overflow' = overflow \cup {c \in Conns : Pings(c) > Room(c)}
          /\ byChat' = [ch \in {x \in DOMAIN byChat : byChat[x] # {}} |-> byChat[ch]]
          /\ UNCHANGED <<byUser, sockets, evicting, closed, valkey, crashed, latest>>
       \/ SendKills(Watching)

SweepRemoves(c) ==
    /\ stale[c] > 0
    /\ \/ /\ RemoveClient(c)
          /\ stale' = [stale EXCEPT ![c] = @ - 1]
          /\ UNCHANGED <<sockets, queues, latest>>
       \/ RemoveClientPanics(c)

-----------------------------------------------------------------------------
(* The HTTP handlers, as far as the hub sees them.                         *)

\* A broadcast to a chat that leaves out the acting user or (NoUser) nobody: handlers of
\* send, edit, delete, react, read, delivered and forward.
ChatEvent(ch, u) ==
    /\ Sends(Others(ch, u)) \/ SendPanics(Others(ch, u))
    /\ UNCHANGED <<registry, sockets, closed, stale, valkey, crashed, latest>>

\* A broadcast to the devices of one user: each recipient of a sent message, and the
\* sender of a forwarded one.
UserEvent(u) ==
    /\ Sends(DevicesOn(u)) \/ SendPanics(DevicesOn(u))
    /\ UNCHANGED <<registry, sockets, closed, stale, valkey, crashed, latest>>

\* Fault: the channel is closed here as well as by readPump.
ForceRevokeCloses(u, d) ==
    LET c == byUser[u][d]
    IN  /\ c # NoConn
        /\ c \notin closed
        /\ LeaveChats(c, DOMAIN byChat)
        /\ byUser' = [byUser EXCEPT ![u] = [@ EXCEPT ![d] = NoConn]]
        /\ closed' = closed \cup {c}
        /\ UNCHANGED <<sockets, queues, stale, valkey, crashed, latest>>

\* handleForceRevokeDevice: the one connection in the device's slot leaves both maps and is
\* told so if its channel has room; neither its channel nor its socket is closed.
ForceRevoke(u, d) ==
    LET c == byUser[u][d]
    IN  /\ c # NoConn
        /\ LeaveChats(c, DOMAIN byChat)
        /\ byUser' = [byUser EXCEPT ![u] = [@ EXCEPT ![d] = NoConn]]
        /\ backlog' = [backlog EXCEPT ![c] = IF Full(c) \/ c \in closed THEN @ ELSE @ + 1]
        /\ UNCHANGED <<sockets, evicting, overflow, closed, stale, valkey, crashed, latest>>

-----------------------------------------------------------------------------
ConnStep(c) ==
    \/ \E u \in Users, t \in TokenDevices, ch \in Chats : Accept(c, u, t, ch)
    \/ Register(c)
    \/ \E ch \in Chats : Subscribe(c, ch)
    \/ \E ch \in Chats : Unsubscribe(c, ch)
    \/ \E ch \in Chats : TypingFrame(c, ch)
    \/ \E u \in Users : CallFrame(c, u)
    \/ ReadPumpExit(c)
    \/ PeerFallsSilent(c)
    \/ WriteFrame(c)
    \/ WriterSeesClose(c)
    \/ WriteFails(c)
    \/ Evict(c)
    \/ SweepRemoves(c)

\* Nothing happens after a panic: a restarted process is a new behaviour.
Next ==
    /\ crashed = "no"
    /\ \/ \E c \in Conns : ConnStep(c)
       \/ \E ch \in Chats, u \in Users \cup {NoUser} : ChatEvent(ch, u)
       \/ \E u \in Users : UserEvent(u)
       \/ \E u \in Users, d \in Devices : ForceRevoke(u, d)
       \/ \E u \in Users : PresenceExpires(u)
       \/ PingSweep

Spec == Init /\ [][Next]_vars

Alive(A) == crashed = "no" /\ A

\* The Go scheduler runs every ready goroutine, and reads and writes have deadlines.
Fairness ==
    /\ \A c \in Conns :
        /\ WF_vars(Alive(Register(c)))
        /\ WF_vars(Alive(ReadPumpExit(c)))
        /\ WF_vars(Alive(WriterSeesClose(c)))
        /\ WF_vars(Alive(WriteFails(c)))
        /\ WF_vars(Alive(Evict(c)))
        /\ WF_vars(Alive(SweepRemoves(c)))

FairSpec == Spec /\ Fairness

-----------------------------------------------------------------------------
(* Properties.                                                             *)

\* Every variable has its type: in particular a slot of byUser holds a connection of that
\* user and device, and byChat has no keys but chats.
TypeOK ==
    /\ DOMAIN byChat \subseteq Chats
    /\ byChat \in [DOMAIN byChat -> SUBSET Conns]
    /\ byUser \in [Users -> [Devices -> Conns \cup {NoConn}]]
    /\ \A u \in Users, d \in Devices :
          byUser[u][d] # NoConn => userID[byUser[u][d]] = u /\ deviceID[byUser[u][d]] = d
    /\ userID \in [Conns -> Users \cup {NoUser}]
    /\ deviceID \in [Conns -> Devices \cup {NoDevice}]
    /\ \A c \in Conns : stage[c] # "none" => userID[c] \in Users /\ deviceID[c] \in Devices
    /\ chatIDs \in [Conns -> SUBSET Chats]
    /\ stage \in [Conns -> Stages]
    /\ link \in [Conns -> {"live", "silent", "closed"}]
    /\ backlog \in [Conns -> 0 .. SendCap]
    /\ closed \subseteq Conns
    /\ evicting \in [Conns -> Nat]
    /\ stale \in [Conns -> Nat]
    /\ presence \in [Users -> SUBSET Devices]
    /\ lastSeen \subseteq Users
    /\ crashed \in Panics
    /\ latest \in [Users -> [Devices -> Conns \cup {NoConn}]]
    /\ overflow \subseteq Conns

\* byChat never keeps a chat with no connection, so the delete that run() makes while it
\* holds only the read lock (hub.go:49-51), which would race with broadcasts, never runs.
NoEmptyChat == \A ch \in DOMAIN byChat : byChat[ch] # {}

\* A connection in the chat map still has that chat in its own chatIDs: after an
\* unsubscribe nothing brings it back but its own subscribe.
ListedAsSubscribed == \A c \in Conns : ChatsOf(c) \subseteq chatIDs[c]

\* The two views of who is in which chat agree: byChat, and the chatIDs of the connections.
ChatsAgree == NoEmptyChat /\ ListedAsSubscribed

\* A connection is in the maps only between register and the end of its readPump: the hub
\* never keeps (or broadcasts to) a connection whose socket reader has finished.
NoLeakedClient == \A c \in Conns : stage[c] # "open" => ~Listed(c)

\* The per-user map never holds a connection whose channel is closed, so fan-out to a
\* user's devices, call signalling and force-revoke cannot panic.
SlotsAreOpen == \A u \in Users : DevicesOn(u) \cap closed = {}

\* A device's slot is empty or holds the connection registered last: fan-out never goes to
\* a superseded socket, however the removals of old connections are delayed.
SlotIsLatest ==
    \A u \in Users, d \in Devices : byUser[u][d] \in {NoConn, latest[u][d]}

\* The maps the hub delivers from hold live connections only, and the last one of each
\* device: removals that come late, twice or from a stale list never leave anything else.
MapsAreCurrent == NoLeakedClient /\ SlotsAreOpen /\ SlotIsLatest

\* A connection that lost a frame because its channel was full does not stay: its removal
\* is pending or done.  A client never misses a message and goes on receiving later ones.
NoSilentGap ==
    crashed = "no" =>
        \A c \in overflow : evicting[c] > 0 \/ stale[c] > 0 \/ c \in closed

\* The process panics only if some connection's channel was once full: without a slow
\* client no interleaving of removals, subscriptions and broadcasts ends it.
CrashNeedsOverflow == crashed # "no" => overflow # {}

\* Valkey shows a device as connected only while some connection of it has been accepted
\* and has not finished, whatever order old and new connections of the device come and go.
\* (After a crash the entries stay until they expire.)
PresenceBacked ==
    crashed = "no" => \A u \in Users : \A d \in presence[u] :
        \E c \in Conns : userID[c] = u /\ deviceID[c] = d /\ stage[c] \in {"accepted", "open"}

\* Once the last connection of a user is over, users.last_seen was set after it began: the
\* stamp depends on the Valkey set being empty, which expiry and other sockets also change.
LastSeenRecorded ==
    \A u \in Users :
        LET mine == {c \in Conns : userID[c] = u /\ stage[c] # "none"}
        IN  (crashed = "no" /\ mine # {} /\ \A c \in mine : stage[c] = "gone") => u \in lastSeen

\* What others see of a user, in Valkey and in users.last_seen, follows the connections.
PresenceTracks == PresenceBacked /\ LastSeenRecorded

\* A connection whose peer stopped answering leaves both maps, unless the process dies.
SilentPeerLeaves ==
    \A c \in Conns : (stage[c] = "open" /\ link[c] = "silent") ~> (~Listed(c) \/ crashed # "no")

\* requirements.md N3.7, "No cascading failures": one connection cannot end the process.
NoCrash == crashed = "no"
=============================================================================
