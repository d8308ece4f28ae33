----------------------------- MODULE HubProofs -----------------------------
(***************************************************************************)
(* Proofs about Hub: its type invariant and its safety invariants hold for *)
(* every set of connections, users, devices and chats and every capacity   *)
(* of the send channels.  First the maps and the channels (Core), then the *)
(* views of a connection that must agree, then how a connection goes.      *)
(***************************************************************************)
EXTENDS Hub, TLAPS, FiniteSetTheorems

\* A connection waiting for its removal has been registered and was once full.
PendingWasFull ==
    \A c \in Conns : evicting[c] > 0 \/ stale[c] > 0 =>
        stage[c] \in {"open", "gone"} /\ c \in overflow

\* A channel is closed by the end of its readPump or by an eviction.
ClosedAccounted ==
    \A c \in closed : stage[c] = "gone" \/ (stage[c] = "open" /\ c \in overflow)

\* The parts of the invariant that concern the maps and the channels.
Core ==
    /\ TypeOK
    /\ NoLeakedClient
    /\ SlotsAreOpen
    /\ PendingWasFull
    /\ ClosedAccounted
    /\ CrashNeedsOverflow

-----------------------------------------------------------------------------
(* The maps.                                                               *)

LEMMA LeaveChatsFacts ==
    ASSUME NEW c \in Conns, NEW S, TypeOK, LeaveChats(c, S)
    PROVE  /\ DOMAIN byChat' \subseteq DOMAIN byChat
           /\ byChat' \in [DOMAIN byChat' -> SUBSET Conns]
           /\ \A x \in DOMAIN byChat' : byChat'[x] \subseteq byChat[x]
           /\ DOMAIN byChat \subseteq S => \A x \in DOMAIN byChat' : c \notin byChat'[x]
           /\ NoEmptyChat => NoEmptyChat'
BY DEF LeaveChats, TypeOK, NoEmptyChat

LEMMA JoinChatFacts ==
    ASSUME NEW c \in Conns, NEW ch \in Chats, TypeOK, JoinChat(c, ch)
    PROVE  /\ DOMAIN byChat' = DOMAIN byChat \cup {ch}
           /\ byChat' \in [DOMAIN byChat' -> SUBSET Conns]
           /\ \A x \in DOMAIN byChat' : byChat'[x] \subseteq InChat(x) \cup {c}
           /\ \A x \in DOMAIN byChat' : x # ch => byChat'[x] = InChat(x)
           /\ NoEmptyChat => NoEmptyChat'
BY DEF JoinChat, TypeOK, NoEmptyChat, InChat

\* No connection of a slot of another user or device is touched.
LEMMA SetSlotFacts ==
    ASSUME NEW c \in Conns, NEW v \in Conns \cup {NoConn}, TypeOK,
           userID[c] \in Users, deviceID[c] \in Devices, SetSlot(c, v)
    PROVE  /\ byUser' \in [Users -> [Devices -> Conns \cup {NoConn}]]
           /\ byUser'[userID[c]][deviceID[c]] = v
           /\ \A u \in Users, d \in Devices :
                 <<u, d>> # <<userID[c], deviceID[c]>> => byUser'[u][d] = byUser[u][d]
BY DEF SetSlot, TypeOK

LEMMA PresenceFacts ==
    ASSUME NEW c \in Conns, TypeOK, userID[c] \in Users, LeavePresence(c)
    PROVE  /\ presence' \in [Users -> SUBSET Devices]
           /\ lastSeen' \subseteq Users
BY DEF LeavePresence, TypeOK

LEMMA OfferFacts ==
    ASSUME NEW S \in SUBSET Conns, TypeOK, Offer(S)
    PROVE  /\ backlog' \in [Conns -> 0 .. SendCap]
           /\ evicting' \in [Conns -> Nat]
           /\ overflow' \subseteq Conns
           /\ overflow \subseteq overflow'
           /\ \A c \in Conns : evicting'[c] # evicting[c] => c \in S /\ c \in overflow'
           /\ \A c \in overflow' \ overflow : evicting'[c] > 0
           /\ \A c \in Conns : evicting'[c] >= evicting[c]
<1>1. /\ SendCap \in Nat
      /\ backlog \in [Conns -> 0 .. SendCap]
      /\ evicting \in [Conns -> Nat]
      /\ overflow \subseteq Conns
  BY HubAssumption DEF TypeOK
<1>2. backlog' \in [Conns -> 0 .. SendCap]
  BY <1>1 DEF Offer, Full
<1>3. \A c \in Conns : evicting'[c] = IF c \in S /\ Full(c) THEN evicting[c] + 1 ELSE evicting[c]
  BY DEF Offer
<1>4. overflow' = overflow \cup {c \in S : Full(c)}
  BY DEF Offer
<1>5. evicting' \in [Conns -> Nat]
  BY <1>1 DEF Offer
<1> QED BY <1>1, <1>2, <1>3, <1>4, <1>5

LEMMA ListedInRange ==
    ASSUME TypeOK, NEW ch, NEW u
    PROVE  /\ InChat(ch) \subseteq Conns
           /\ Others(ch, u) \subseteq InChat(ch)
           /\ u \in Users => DevicesOn(u) \subseteq Conns
<1>1. InChat(ch) \subseteq Conns
  BY DEF TypeOK, InChat
<1>2. Others(ch, u) \subseteq InChat(ch)
  BY DEF Others
<1>3. ASSUME u \in Users PROVE DevicesOn(u) \subseteq Conns
  <2>1. \A d \in Devices : byUser[u][d] \in Conns \cup {NoConn}
    BY <1>3 DEF TypeOK
  <2> QED BY <2>1 DEF DevicesOn
<1> QED BY <1>1, <1>2, <1>3

\* After a panic the memory of the process is that of Init.
LEMMA DiesCore ==
    ASSUME Core, NEW why \in Panics, Dies(why), overflow # {},
           presence' \in [Users -> SUBSET Devices], lastSeen' \subseteq Users
    PROVE  Core'
<1>1. TypeOK'
  <2>1. /\ DOMAIN byChat' = {}
        /\ byChat' \in [DOMAIN byChat' -> SUBSET Conns]
    BY DEF Dies
  <2>2. /\ byUser' \in [Users -> [Devices -> Conns \cup {NoConn}]]
        /\ latest' \in [Users -> [Devices -> Conns \cup {NoConn}]]
        /\ \A u \in Users, d \in Devices : byUser'[u][d] = NoConn
    BY DEF Dies, NoSlots
  <2>3. /\ \A c \in Conns : stage'[c] = "none"
        /\ stage' \in [Conns -> Stages]
        /\ link' \in [Conns -> {"live", "silent", "closed"}]
        /\ userID' \in [Conns -> Users \cup {NoUser}]
        /\ deviceID' \in [Conns -> Devices \cup {NoDevice}]
        /\ chatIDs' \in [Conns -> SUBSET Chats]
    BY DEF Dies, All, Stages
  <2>4. /\ backlog' \in [Conns -> 0 .. SendCap]
        /\ evicting' \in [Conns -> Nat]
        /\ stale' \in [Conns -> Nat]
    BY HubAssumption DEF Dies, All
  <2>5. closed' \subseteq Conns /\ crashed' \in Panics /\ overflow' \subseteq Conns
    BY DEF Dies, Core, TypeOK
  <2> QED BY <2>1, <2>2, <2>3, <2>4, <2>5 DEF TypeOK
<1>2. NoLeakedClient'
  BY DEF Core, NoLeakedClient, Dies, NoSlots, Listed, ChatsOf, DevicesOn
<1>3. SlotsAreOpen'
  BY DEF SlotsAreOpen, Dies
<1>4. PendingWasFull'
  BY DEF PendingWasFull, Dies, All
<1>5. ClosedAccounted'
  BY DEF ClosedAccounted, Dies
<1>6. CrashNeedsOverflow'
  BY DEF CrashNeedsOverflow, Dies
<1> QED BY <1>1, <1>2, <1>3, <1>4, <1>5, <1>6 DEF Core

-----------------------------------------------------------------------------
(* Steps that several actions share.                                       *)

\* Frames are put in channels and eviction goroutines started; nothing else changes.
LEMMA OfferCore ==
    ASSUME Core, NEW S \in SUBSET Conns, Offer(S),
           \A c \in S : Listed(c),
           UNCHANGED <<registry, sockets, closed, stale, valkey, crashed, latest>>
    PROVE  Core'
<1> USE DEF registry, sockets, client, valkey
<1>1. /\ backlog' \in [Conns -> 0 .. SendCap]
      /\ evicting' \in [Conns -> Nat]
      /\ overflow' \subseteq Conns
      /\ overflow \subseteq overflow'
      /\ \A c \in Conns : evicting'[c] # evicting[c] => c \in S /\ c \in overflow'
  BY OfferFacts DEF Core
<1>2. TypeOK'
  BY <1>1 DEF Core, TypeOK
<1>3. NoLeakedClient' /\ SlotsAreOpen'
  BY DEF Core, NoLeakedClient, SlotsAreOpen, Listed, ChatsOf, DevicesOn
<1>4. PendingWasFull'
  <2>1. \A c \in S : stage[c] = "open"
    BY DEF Core, NoLeakedClient
  <2> QED BY <1>1, <2>1 DEF Core, PendingWasFull, TypeOK
<1>5. ClosedAccounted' /\ CrashNeedsOverflow'
  BY <1>1 DEF Core, ClosedAccounted, CrashNeedsOverflow
<1> QED BY <1>2, <1>3, <1>4, <1>5 DEF Core

\* A connection of the maps that is closed was once full.
LEMMA ListedClosedWasFull ==
    ASSUME Core, NEW S \in SUBSET Conns, \A c \in S : Listed(c), S \cap closed # {}
    PROVE  overflow # {}
<1>1. PICK c \in S : c \in closed
  OBVIOUS
<1>2. stage[c] = "open"
  BY DEF Core, NoLeakedClient
<1> QED BY <1>1, <1>2 DEF Core, ClosedAccounted

LEMMA SendsCore ==
    ASSUME Core, NEW S \in SUBSET Conns, \A c \in S : Listed(c),
           \/ /\ Sends(S)
              /\ UNCHANGED <<registry, sockets, closed, stale, valkey, crashed, latest>>
           \/ /\ SendPanics(S)
              /\ UNCHANGED <<registry, sockets, closed, stale, valkey, crashed, latest>>
           \/ SendKills(S)
    PROVE  Core'
<1>1. CASE Sends(S) /\ UNCHANGED <<registry, sockets, closed, stale, valkey, crashed, latest>>
  BY <1>1, OfferCore DEF Sends
<1>2. CASE SendPanics(S) /\ UNCHANGED <<registry, sockets, closed, stale, valkey, crashed, latest>>
  <2>1. PICK T \in SUBSET (S \ closed) : Offer(T)
    BY <1>2 DEF SendPanics
  <2> QED BY <1>2, <2>1, OfferCore
<1>3. CASE SendKills(S)
  <2>1. /\ S \cap closed # {}
        /\ Dies("send on closed channel")
        /\ presence' \in [Users -> SUBSET Devices]
        /\ lastSeen' \subseteq Users
    BY <1>3 DEF SendKills, valkey, Core, TypeOK
  <2> QED BY <2>1, ListedClosedWasFull, DiesCore DEF Panics
<1> QED BY <1>1, <1>2, <1>3

\* The connections a broadcast or a fan-out serves are in the maps.
LEMMA AudienceListed ==
    ASSUME TypeOK, NEW ch, NEW u
    PROVE  /\ Others(ch, u) \in SUBSET Conns
           /\ \A c \in Others(ch, u) : Listed(c)
           /\ u \in Users => /\ DevicesOn(u) \in SUBSET Conns
                             /\ \A c \in DevicesOn(u) : Listed(c)
<1>1. \A c \in InChat(ch) : ChatsOf(c) # {}
  BY DEF InChat, ChatsOf
<1> QED BY <1>1, ListedInRange DEF Listed

\* removeClient leaves the connection in neither map, closes its channel and leaves the
\* rest of the maps as they were or smaller.
LEMMA RemoveFacts ==
    ASSUME Core, NEW c \in Conns, stage[c] # "none", RemoveClient(c)
    PROVE  /\ DOMAIN byChat' \subseteq Chats
           /\ byChat' \in [DOMAIN byChat' -> SUBSET Conns]
           /\ byUser' \in [Users -> [Devices -> Conns \cup {NoConn}]]
           /\ \A u \in Users, d \in Devices :
                 byUser'[u][d] # NoConn => byUser'[u][d] = byUser[u][d] /\ byUser'[u][d] # c
           /\ presence' \in [Users -> SUBSET Devices]
           /\ lastSeen' \subseteq Users
           /\ closed' = closed \cup {c}
           /\ crashed' = crashed
           /\ \A e \in Conns : Listed(e)' => Listed(e) /\ e # c
           /\ NoEmptyChat => NoEmptyChat'
<1> DEFINE u0 == userID[c]
           d0 == deviceID[c]
<1>1. TypeOK /\ u0 \in Users /\ d0 \in Devices
  BY DEF Core, TypeOK
<1>2. LeaveChats(c, DOMAIN byChat) /\ SetSlot(c, NoConn) /\ LeavePresence(c)
  BY DEF RemoveClient
<1>3. /\ DOMAIN byChat' \subseteq DOMAIN byChat
      /\ byChat' \in [DOMAIN byChat' -> SUBSET Conns]
      /\ \A x \in DOMAIN byChat' : byChat'[x] \subseteq byChat[x]
      /\ \A x \in DOMAIN byChat' : c \notin byChat'[x]
      /\ NoEmptyChat => NoEmptyChat'
  BY <1>1, <1>2, LeaveChatsFacts
<1>4. /\ byUser' \in [Users -> [Devices -> Conns \cup {NoConn}]]
      /\ byUser'[u0][d0] = NoConn
      /\ \A u \in Users, d \in Devices :
            <<u, d>> # <<u0, d0>> => byUser'[u][d] = byUser[u][d]
  BY <1>1, <1>2, SetSlotFacts
<1>5. presence' \in [Users -> SUBSET Devices] /\ lastSeen' \subseteq Users
  BY <1>1, <1>2, PresenceFacts
<1>6. ASSUME NEW u \in Users, NEW d \in Devices, byUser'[u][d] # NoConn
      PROVE  byUser'[u][d] = byUser[u][d] /\ byUser'[u][d] # c
  <2>1. byUser'[u][d] = byUser[u][d] /\ <<u, d>> # <<u0, d0>>
    BY <1>4, <1>6
  <2>2. byUser[u][d] = c => u = u0 /\ d = d0
    BY <1>6, <2>1 DEF Core, TypeOK
  <2> QED BY <2>1, <2>2
<1>7. ASSUME NEW e \in Conns, Listed(e)'
      PROVE  Listed(e) /\ e # c
  <2>1. CASE \E x \in DOMAIN byChat' : e \in byChat'[x]
    BY <1>3, <2>1 DEF Listed, ChatsOf
  <2>2. CASE \E u \in Users, d \in Devices : e = byUser'[u][d] /\ e # NoConn
    BY <1>6, <2>2 DEF Listed, DevicesOn
  <2> QED BY <1>7, <2>1, <2>2 DEF Listed, ChatsOf, DevicesOn
<1> QED
  BY <1>1, <1>3, <1>4, <1>5, <1>6, <1>7 DEF RemoveClient, Core, TypeOK

LEMMA RemoveCore ==
    ASSUME Core, NEW c \in Conns, RemoveClient(c), stage[c] \in {"open", "gone"},
           UNCHANGED <<client, chatIDs, backlog, overflow, latest>>,
           link' \in [Conns -> {"live", "silent", "closed"}],
           stage' \in [Conns -> Stages],
           \A e \in Conns : e # c => stage'[e] = stage[e],
           stage'[c] = "gone" \/ (stage'[c] = stage[c] /\ c \in overflow),
           evicting' \in [Conns -> Nat], stale' \in [Conns -> Nat],
           \A e \in Conns : evicting'[e] <= evicting[e] /\ stale'[e] <= stale[e]
    PROVE  Core'
<1> USE DEF client
<1> DEFINE R == 
       /\ DOMAIN byChat' \subseteq Chats
       /\ byChat' \in [DOMAIN byChat' -> SUBSET Conns]
       /\ byUser' \in [Users -> [Devices -> Conns \cup {NoConn}]]
       /\ \A u \in Users, d \in Devices :
             byUser'[u][d] # NoConn => byUser'[u][d] = byUser[u][d] /\ byUser'[u][d] # c
       /\ presence' \in [Users -> SUBSET Devices]
       /\ lastSeen' \subseteq Users
       /\ closed' = closed \cup {c}
       /\ crashed' = crashed
       /\ \A e \in Conns : Listed(e)' => Listed(e) /\ e # c
<1>1. R
  BY RemoveFacts
<1>2. TypeOK'
  <2>1. \A u \in Users, d \in Devices :
           byUser'[u][d] # NoConn => /\ userID'[byUser'[u][d]] = u
                                     /\ deviceID'[byUser'[u][d]] = d
    BY <1>1 DEF Core, TypeOK
  <2>2. \A e \in Conns : stage'[e] # "none" => userID'[e] \in Users /\ deviceID'[e] \in Devices
    BY DEF Core, TypeOK
  <2> QED BY <1>1, <2>1, <2>2 DEF Core, TypeOK
<1>3. NoLeakedClient'
  BY <1>1 DEF Core, NoLeakedClient
<1>4. SlotsAreOpen'
  BY <1>1 DEF Core, SlotsAreOpen, DevicesOn
<1>5. PendingWasFull'
  <2> SUFFICES ASSUME NEW e \in Conns, evicting'[e] > 0 \/ stale'[e] > 0
               PROVE  stage'[e] \in {"open", "gone"} /\ e \in overflow
    BY DEF PendingWasFull
  <2>1. evicting[e] > 0 \/ stale[e] > 0
    BY DEF Core, TypeOK
  <2> QED BY <2>1 DEF Core, PendingWasFull
<1>6. ClosedAccounted'
  BY <1>1 DEF Core, ClosedAccounted, TypeOK
<1>7. CrashNeedsOverflow'
  BY <1>1 DEF Core, CrashNeedsOverflow
<1> QED BY <1>2, <1>3, <1>4, <1>5, <1>6, <1>7 DEF Core

\* The second removal of a connection ends the process, and needs an eviction before it.
LEMMA RemovePanicsCore ==
    ASSUME Core, NEW c \in Conns, RemoveClientPanics(c), stage[c] # "none",
           stage[c] = "open" \/ c \in overflow
    PROVE  Core'
<1>1. c \in closed /\ LeavePresence(c) /\ Dies("close of closed channel")
  BY DEF RemoveClientPanics
<1>2. presence' \in [Users -> SUBSET Devices] /\ lastSeen' \subseteq Users
  BY <1>1, PresenceFacts DEF Core, TypeOK
<1>3. overflow # {}
  BY <1>1 DEF Core, ClosedAccounted
<1> QED BY <1>1, <1>2, <1>3, DiesCore DEF Panics

-----------------------------------------------------------------------------
(* The core holds initially and every step keeps it.                       *)

LEMMA CoreInit == Init => Core
<1> SUFFICES ASSUME Init PROVE Core
  OBVIOUS
<1>1. /\ DOMAIN byChat = {}
      /\ \A u \in Users, d \in Devices : byUser[u][d] = NoConn
      /\ \A c \in Conns : stage[c] = "none" /\ evicting[c] = 0 /\ stale[c] = 0
      /\ closed = {} /\ crashed = "no"
  BY DEF Init, All, NoSlots
<1>2. TypeOK
  <2>1. /\ byChat \in [DOMAIN byChat -> SUBSET Conns]
        /\ byUser \in [Users -> [Devices -> Conns \cup {NoConn}]]
        /\ latest \in [Users -> [Devices -> Conns \cup {NoConn}]]
        /\ presence \in [Users -> SUBSET Devices]
        /\ lastSeen \subseteq Users /\ overflow \subseteq Conns /\ crashed \in Panics
    BY <1>1 DEF Init, NoSlots, Panics
  <2>2. /\ stage \in [Conns -> Stages]
        /\ link \in [Conns -> {"live", "silent", "closed"}]
        /\ userID \in [Conns -> Users \cup {NoUser}]
        /\ deviceID \in [Conns -> Devices \cup {NoDevice}]
        /\ chatIDs \in [Conns -> SUBSET Chats]
        /\ backlog \in [Conns -> 0 .. SendCap]
        /\ evicting \in [Conns -> Nat]
        /\ stale \in [Conns -> Nat]
    BY HubAssumption DEF Init, All, Stages
  <2> QED BY <1>1, <2>1, <2>2 DEF TypeOK
<1>3. NoLeakedClient
  BY <1>1 DEF NoLeakedClient, Listed, ChatsOf, DevicesOn
<1> QED
  BY <1>1, <1>2, <1>3
     DEF Core, SlotsAreOpen, PendingWasFull, ClosedAccounted, CrashNeedsOverflow

LEMMA PingsFacts ==
    ASSUME TypeOK, NEW c \in Conns
    PROVE  /\ Pings(c) \in Nat
           /\ Pings(c) > 0 => ChatsOf(c) # {}
           /\ Room(c) \in Nat
<1>1. ChatsOf(c) \subseteq Chats
  BY DEF ChatsOf, TypeOK
<1>2. IsFiniteSet(ChatsOf(c))
  BY <1>1, FS_Subset, HubAssumption
<1>3. Pings(c) \in Nat
  BY <1>2, FS_CardinalityType DEF Pings
<1>4. ChatsOf(c) = {} => Pings(c) = 0
  BY FS_EmptySet DEF Pings
<1>5. Room(c) \in Nat
  BY HubAssumption DEF Room, TypeOK
<1> QED BY <1>3, <1>4, <1>5

\* The tick keeps the core: who gets on its list is in a chat, hence registered.
LEMMA PingSweepCore ==
    ASSUME Core, PingSweep
    PROVE  Core'
<1> DEFINE kept == {x \in DOMAIN byChat : byChat[x] # {}}
<1>1. CASE SendKills(Watching)
  <2>1. Watching \in SUBSET Conns /\ \A c \in Watching : Listed(c)
    BY DEF Watching, Core, TypeOK, Listed, ChatsOf
  <2> QED BY <1>1, <2>1, SendsCore
<1>2. CASE
        /\ backlog' = [c \in Conns |-> IF Pings(c) <= Room(c) THEN backlog[c] + Pings(c)
                                       ELSE SendCap]
        /\ stale' = [c \in Conns |-> IF Pings(c) <= Room(c) THEN 0 ELSE Pings(c) - Room(c)]
        /\ overflow' = overflow \cup {c \in Conns : Pings(c) > Room(c)}
        /\ byChat' = [ch \in kept |-> byChat[ch]]
        /\ UNCHANGED <<byUser, sockets, evicting, closed, valkey, crashed, latest>>
  <2> USE DEF sockets, client, valkey
  <2>1. /\ DOMAIN byChat' \subseteq DOMAIN byChat
        /\ byChat' \in [DOMAIN byChat' -> SUBSET Conns]
        /\ \A x \in DOMAIN byChat' : byChat'[x] = byChat[x]
    BY <1>2 DEF Core, TypeOK
  <2>2. \A c \in Conns : Listed(c)' => Listed(c)
    BY <1>2, <2>1 DEF Listed, ChatsOf, DevicesOn
  <2>3. \A c \in Conns : /\ Pings(c) \in Nat /\ Room(c) \in Nat
                         /\ Room(c) = SendCap - backlog[c]
                         /\ Pings(c) > 0 => stage[c] = "open"
    BY PingsFacts DEF Core, NoLeakedClient, Listed, Room
  <2>4. /\ SendCap \in Nat
        /\ \A c \in Conns : backlog[c] \in 0 .. SendCap
        /\ overflow \subseteq Conns
    BY HubAssumption DEF Core, TypeOK
  <2>5. \A c \in Conns : backlog'[c] \in 0 .. SendCap
    <3> SUFFICES ASSUME NEW c \in Conns PROVE backlog'[c] \in 0 .. SendCap
      OBVIOUS
    <3>1. backlog'[c] = IF Pings(c) <= Room(c) THEN backlog[c] + Pings(c) ELSE SendCap
      BY <1>2
    <3> QED BY <3>1, <2>3, <2>4
  <2>6. \A c \in Conns : /\ stale'[c] \in Nat
                         /\ stale'[c] > 0 => stage[c] = "open" /\ c \in overflow'
    <3> SUFFICES ASSUME NEW c \in Conns
                 PROVE  /\ stale'[c] \in Nat
                        /\ stale'[c] > 0 => stage[c] = "open" /\ c \in overflow'
      OBVIOUS
    <3>1. stale'[c] = IF Pings(c) <= Room(c) THEN 0 ELSE Pings(c) - Room(c)
      BY <1>2
    <3>2. Pings(c) > Room(c) => c \in overflow'
      BY <1>2
    <3> QED BY <3>1, <3>2, <2>3
  <2>7. /\ backlog' \in [Conns -> 0 .. SendCap]
        /\ stale' \in [Conns -> Nat]
        /\ overflow' \subseteq Conns
        /\ overflow \subseteq overflow'
    BY <1>2, <2>4, <2>5, <2>6
  <2>8. TypeOK'
    BY <1>2, <2>1, <2>7 DEF Core, TypeOK
  <2>9. NoLeakedClient' /\ SlotsAreOpen'
    BY <1>2, <2>2 DEF Core, NoLeakedClient, SlotsAreOpen, DevicesOn
  <2>10. PendingWasFull'
    BY <1>2, <2>6, <2>7 DEF Core, PendingWasFull
  <2>11. ClosedAccounted' /\ CrashNeedsOverflow'
    BY <1>2, <2>7 DEF Core, ClosedAccounted, CrashNeedsOverflow
  <2> QED BY <2>8, <2>9, <2>10, <2>11 DEF Core
<1> QED BY <1>1, <1>2 DEF PingSweep

\* The upgrade and the registration of a connection.
LEMMA OpenCore ==
    ASSUME Core, NEW c \in Conns,
           \/ \E u \in Users, t \in TokenDevices, ch \in Chats : Accept(c, u, t, ch)
           \/ Register(c)
    PROVE  Core'
<1> USE DEF registry, queues, client, valkey
<1>1. ASSUME NEW u \in Users, NEW t \in TokenDevices, NEW ch \in Chats, Accept(c, u, t, ch)
      PROVE  Core'
  <2> DEFINE d == IF t = NoDevice THEN UnknownDevice[u] ELSE t
  <2>1. /\ d \in Devices
        /\ stage[c] = "none"
        /\ stage' = [stage EXCEPT ![c] = "accepted"]
        /\ userID' = [userID EXCEPT ![c] = u]
        /\ deviceID' = [deviceID EXCEPT ![c] = d]
        /\ chatIDs' = [chatIDs EXCEPT ![c] = {ch}]
        /\ presence' = [presence EXCEPT ![u] = @ \cup {d}]
        /\ lastSeen' = lastSeen \ {u}
        /\ UNCHANGED <<registry, link, queues, closed, stale, crashed, latest>>
    BY <1>1, HubAssumption DEF Accept
  <2>2. ~Listed(c)
    BY <2>1 DEF Core, NoLeakedClient
  <2>3. TypeOK'
    <3>1. \A v \in Users, e \in Devices :
             byUser[v][e] # NoConn => /\ byUser[v][e] # c
                                      /\ userID'[byUser[v][e]] = v
                                      /\ deviceID'[byUser[v][e]] = e
      BY <2>1, <2>2 DEF Core, TypeOK, Listed, DevicesOn
    <3>2. \A e \in Conns : stage'[e] # "none" => userID'[e] \in Users /\ deviceID'[e] \in Devices
      BY <2>1 DEF Core, TypeOK
    <3>3. /\ stage' \in [Conns -> Stages]
          /\ userID' \in [Conns -> Users \cup {NoUser}]
          /\ deviceID' \in [Conns -> Devices \cup {NoDevice}]
          /\ chatIDs' \in [Conns -> SUBSET Chats]
          /\ presence' \in [Users -> SUBSET Devices]
          /\ lastSeen' \subseteq Users
      BY <2>1 DEF Core, TypeOK, Stages
    <3> QED BY <2>1, <3>1, <3>2, <3>3 DEF Core, TypeOK
  <2>4. NoLeakedClient' /\ SlotsAreOpen'
    BY <2>1, <2>2 DEF Core, TypeOK, NoLeakedClient, SlotsAreOpen, Listed, ChatsOf, DevicesOn
  <2>5. PendingWasFull' /\ ClosedAccounted' /\ CrashNeedsOverflow'
    BY <2>1 DEF Core, TypeOK, PendingWasFull, ClosedAccounted, CrashNeedsOverflow
  <2> QED BY <2>3, <2>4, <2>5 DEF Core
<1>2. CASE Register(c)
  <2>1. PICK ch \in chatIDs[c] : JoinChat(c, ch)
    BY <1>2 DEF Register
  <2>2. ch \in Chats
    BY <2>1 DEF Core, TypeOK
  <2>3. /\ stage[c] = "accepted"
        /\ stage' = [stage EXCEPT ![c] = "open"]
        /\ link' = [link EXCEPT ![c] = "live"]
        /\ SetSlot(c, c)
        /\ latest' = [latest EXCEPT ![userID[c]] = [@ EXCEPT ![deviceID[c]] = c]]
        /\ UNCHANGED <<client, chatIDs, queues, closed, stale, valkey, crashed>>
    BY <1>2 DEF Register
  <2>4. TypeOK /\ userID[c] \in Users /\ deviceID[c] \in Devices
    BY <2>3 DEF Core, TypeOK
  <2>5. /\ DOMAIN byChat' = DOMAIN byChat \cup {ch}
        /\ byChat' \in [DOMAIN byChat' -> SUBSET Conns]
        /\ \A x \in DOMAIN byChat' : byChat'[x] \subseteq InChat(x) \cup {c}
    BY <2>1, <2>2, <2>4, JoinChatFacts
  <2>6. /\ byUser' \in [Users -> [Devices -> Conns \cup {NoConn}]]
        /\ byUser'[userID[c]][deviceID[c]] = c
        /\ \A u \in Users, d \in Devices :
              <<u, d>> # <<userID[c], deviceID[c]>> => byUser'[u][d] = byUser[u][d]
    BY <2>3, <2>4, SetSlotFacts
  <2>7. \A e \in Conns : Listed(e)' => Listed(e) \/ e = c
    BY <2>5, <2>6 DEF Listed, ChatsOf, DevicesOn, InChat
  <2>8. TypeOK'
    <3>1. \A u \in Users, d \in Devices :
             byUser'[u][d] # NoConn => /\ userID[byUser'[u][d]] = u
                                       /\ deviceID[byUser'[u][d]] = d
      <4>1. ASSUME NEW u \in Users, NEW d \in Devices, byUser'[u][d] # NoConn
            PROVE  userID[byUser'[u][d]] = u /\ deviceID[byUser'[u][d]] = d
        <5>1. CASE u = userID[c] /\ d = deviceID[c]
          BY <2>6, <5>1
        <5>2. CASE ~(u = userID[c] /\ d = deviceID[c])
          <6>1. byUser'[u][d] = byUser[u][d]
            BY <2>6, <5>2
          <6>2. QED
            BY <2>4, <4>1, <6>1 DEF TypeOK
        <5>3. QED
          BY <5>1, <5>2
      <4>2. QED
        BY <4>1
    <3>2. /\ stage' \in [Conns -> Stages]
          /\ link' \in [Conns -> {"live", "silent", "closed"}]
          /\ latest' \in [Users -> [Devices -> Conns \cup {NoConn}]]
          /\ \A e \in Conns : stage'[e] # "none" => stage[e] # "none"
      BY <2>3, <2>4 DEF TypeOK, Stages
    <3> QED BY <2>2, <2>3, <2>4, <2>5, <2>6, <3>1, <3>2 DEF TypeOK
  <2>9. NoLeakedClient'
    BY <2>3, <2>7 DEF Core, TypeOK, NoLeakedClient
  <2>10. SlotsAreOpen'
    <3>1. c \notin closed
      BY <2>3 DEF Core, ClosedAccounted
    <3> QED BY <3>1, <2>3, <2>6 DEF Core, SlotsAreOpen, DevicesOn
  <2>11. PendingWasFull' /\ ClosedAccounted' /\ CrashNeedsOverflow'
    BY <2>3 DEF Core, TypeOK, PendingWasFull, ClosedAccounted, CrashNeedsOverflow
  <2> QED BY <2>8, <2>9, <2>10, <2>11 DEF Core
<1> QED BY <1>1, <1>2

\* Subscriptions change the chat map and the connection's own set.
LEMMA SubscriptionCore ==
    ASSUME Core, NEW c \in Conns, NEW ch \in Chats, Subscribe(c, ch) \/ Unsubscribe(c, ch)
    PROVE  Core'
<1> USE DEF queues, client, valkey
<1>1. /\ stage[c] = "open"
      /\ chatIDs' \in [Conns -> SUBSET Chats]
      /\ UNCHANGED <<byUser, client, stage, link, queues, closed, stale, valkey, crashed, latest>>
  BY DEF Subscribe, Unsubscribe, Reading, Core, TypeOK
<1>2. /\ DOMAIN byChat' \subseteq DOMAIN byChat \cup {ch}
      /\ byChat' \in [DOMAIN byChat' -> SUBSET Conns]
      /\ \A x \in DOMAIN byChat' : byChat'[x] \subseteq InChat(x) \cup {c}
  <2>1. CASE JoinChat(c, ch)
    BY <2>1, JoinChatFacts DEF Core
  <2>2. CASE LeaveChats(c, {ch})
    BY <2>2, LeaveChatsFacts DEF Core, InChat
  <2> QED BY <2>1, <2>2 DEF Subscribe, Unsubscribe
<1>3. \A e \in Conns : Listed(e)' => Listed(e) \/ e = c
  BY <1>1, <1>2 DEF Listed, ChatsOf, DevicesOn, InChat
<1>4. TypeOK'
  BY <1>1, <1>2 DEF Core, TypeOK
<1>5. NoLeakedClient' /\ SlotsAreOpen'
  BY <1>1, <1>3 DEF Core, NoLeakedClient, SlotsAreOpen, DevicesOn
<1>6. PendingWasFull' /\ ClosedAccounted' /\ CrashNeedsOverflow'
  BY <1>1 DEF Core, PendingWasFull, ClosedAccounted, CrashNeedsOverflow
<1> QED BY <1>4, <1>5, <1>6 DEF Core

\* Frames from a peer and broadcasts of the HTTP handlers.
LEMMA FrameCore ==
    ASSUME Core,
           \/ \E c \in Conns, ch \in Chats : TypingFrame(c, ch)
           \/ \E c \in Conns, u \in Users : CallFrame(c, u)
           \/ \E ch \in Chats, u \in Users \cup {NoUser} : ChatEvent(ch, u)
           \/ \E u \in Users : UserEvent(u)
    PROVE  Core'
<1>1. TypeOK
  BY DEF Core
<1>2. ASSUME NEW c \in Conns, NEW ch \in Chats, TypingFrame(c, ch)
      PROVE  Core'
  <2> DEFINE S == Others(ch, userID[c])
  <2>1. S \in SUBSET Conns /\ \A e \in S : Listed(e)
    BY <1>1, AudienceListed
  <2> QED BY <1>2, <2>1, SendsCore DEF TypingFrame
<1>3. ASSUME NEW c \in Conns, NEW u \in Users, CallFrame(c, u)
      PROVE  Core'
  <2>1. DevicesOn(u) \in SUBSET Conns /\ \A e \in DevicesOn(u) : Listed(e)
    BY <1>1, AudienceListed
  <2> QED BY <1>3, <2>1, SendsCore DEF CallFrame
<1>4. ASSUME NEW ch \in Chats, NEW u \in Users \cup {NoUser}, ChatEvent(ch, u)
      PROVE  Core'
  <2>1. Others(ch, u) \in SUBSET Conns /\ \A e \in Others(ch, u) : Listed(e)
    BY <1>1, AudienceListed
  <2> QED BY <1>4, <2>1, SendsCore DEF ChatEvent
<1>5. ASSUME NEW u \in Users, UserEvent(u)
      PROVE  Core'
  <2>1. DevicesOn(u) \in SUBSET Conns /\ \A e \in DevicesOn(u) : Listed(e)
    BY <1>1, AudienceListed
  <2> QED BY <1>5, <2>1, SendsCore DEF UserEvent
<1> QED BY <1>2, <1>3, <1>4, <1>5

\* The three ways a connection is removed.
LEMMA RemovalCore ==
    ASSUME Core, NEW c \in Conns, ReadPumpExit(c) \/ Evict(c) \/ SweepRemoves(c)
    PROVE  Core'
<1> USE DEF queues, client, sockets
<1>1. CASE ReadPumpExit(c)
  <2>1. stage[c] = "open"
    BY <1>1 DEF ReadPumpExit
  <2>2. CASE RemoveClientPanics(c)
    BY <2>1, <2>2, RemovePanicsCore
  <2>3. CASE /\ RemoveClient(c)
             /\ stage' = [stage EXCEPT ![c] = "gone"]
             /\ link' = [link EXCEPT ![c] = "closed"]
             /\ UNCHANGED <<client, chatIDs, queues, stale, latest>>
    <3>1. /\ stage' \in [Conns -> Stages]
          /\ link' \in [Conns -> {"live", "silent", "closed"}]
          /\ evicting' \in [Conns -> Nat] /\ stale' \in [Conns -> Nat]
          /\ \A e \in Conns : e # c => stage'[e] = stage[e]
          /\ stage'[c] = "gone"
          /\ \A e \in Conns : evicting'[e] <= evicting[e] /\ stale'[e] <= stale[e]
      BY <2>3 DEF Core, TypeOK, Stages
    <3> QED BY <2>1, <2>3, <3>1, RemoveCore
  <2> QED BY <1>1, <2>2, <2>3 DEF ReadPumpExit
<1>2. CASE Evict(c)
  <2>1. stage[c] \in {"open", "gone"} /\ c \in overflow
    BY <1>2 DEF Evict, Core, PendingWasFull
  <2>2. CASE RemoveClientPanics(c)
    BY <2>1, <2>2, RemovePanicsCore
  <2>3. CASE /\ RemoveClient(c)
             /\ evicting' = [evicting EXCEPT ![c] = @ - 1]
             /\ UNCHANGED <<sockets, backlog, overflow, stale, latest>>
    <3>1. /\ evicting' \in [Conns -> Nat] /\ stale' \in [Conns -> Nat]
          /\ \A e \in Conns : evicting'[e] <= evicting[e] /\ stale'[e] <= stale[e]
          /\ stage' \in [Conns -> Stages]
          /\ link' \in [Conns -> {"live", "silent", "closed"}]
      BY <1>2, <2>3 DEF Evict, Core, TypeOK
    <3> QED BY <2>1, <2>3, <3>1, RemoveCore
  <2> QED BY <1>2, <2>2, <2>3 DEF Evict
<1>3. CASE SweepRemoves(c)
  <2>1. stage[c] \in {"open", "gone"} /\ c \in overflow
    BY <1>3 DEF SweepRemoves, Core, PendingWasFull
  <2>2. CASE RemoveClientPanics(c)
    BY <2>1, <2>2, RemovePanicsCore
  <2>3. CASE /\ RemoveClient(c)
             /\ stale' = [stale EXCEPT ![c] = @ - 1]
             /\ UNCHANGED <<sockets, queues, latest>>
    <3>1. /\ evicting' \in [Conns -> Nat] /\ stale' \in [Conns -> Nat]
          /\ \A e \in Conns : evicting'[e] <= evicting[e] /\ stale'[e] <= stale[e]
          /\ stage' \in [Conns -> Stages]
          /\ link' \in [Conns -> {"live", "silent", "closed"}]
      BY <1>3, <2>3 DEF SweepRemoves, Core, TypeOK
    <3> QED BY <2>1, <2>3, <3>1, RemoveCore
  <2> QED BY <1>3, <2>2, <2>3 DEF SweepRemoves
<1> QED BY <1>1, <1>2, <1>3

\* writePump, a peer that falls silent, and the expiry of a presence entry leave the hub alone.
LEMMA PumpCore ==
    ASSUME Core,
           \/ \E c \in Conns : \/ PeerFallsSilent(c) \/ WriteFrame(c)
                               \/ WriterSeesClose(c) \/ WriteFails(c)
           \/ \E u \in Users : PresenceExpires(u)
    PROVE  Core'
<1> USE DEF registry, queues, client, sockets, valkey
<1>1. /\ UNCHANGED <<registry, client, chatIDs, stage, closed, evicting, overflow, stale,
                     crashed, latest>>
      /\ link' \in [Conns -> {"live", "silent", "closed"}]
      /\ presence' \in [Users -> SUBSET Devices]
      /\ lastSeen' \subseteq Users
  <2>1. ASSUME NEW c \in Conns, PeerFallsSilent(c) \/ WriterSeesClose(c) \/ WriteFails(c)
        PROVE  link' \in [Conns -> {"live", "silent", "closed"}]
    <3>1. \/ link' = [link EXCEPT ![c] = "silent"]
          \/ link' = [link EXCEPT ![c] = "closed"]
      BY <2>1 DEF PeerFallsSilent, WriterSeesClose, WriteFails
    <3>2. link \in [Conns -> {"live", "silent", "closed"}]
      BY DEF Core, TypeOK
    <3> QED BY <3>1, <3>2
  <2>2. ASSUME NEW c \in Conns, WriteFrame(c)
        PROVE  link' \in [Conns -> {"live", "silent", "closed"}]
    BY <2>2 DEF WriteFrame, Core, TypeOK
  <2>3. ASSUME NEW u \in Users, PresenceExpires(u)
        PROVE  /\ presence' \in [Users -> SUBSET Devices]
               /\ UNCHANGED <<lastSeen, link>>
    BY <2>3 DEF PresenceExpires, Core, TypeOK
  <2>4. /\ UNCHANGED <<registry, client, chatIDs, stage, closed, evicting, overflow, stale,
                       crashed, latest, lastSeen>>
        /\ presence' = presence \/ \E u \in Users : PresenceExpires(u)
        /\ link' = link \/ \E c \in Conns : \/ PeerFallsSilent(c) \/ WriterSeesClose(c)
                                            \/ WriteFails(c)
    BY DEF PeerFallsSilent, WriteFrame, WriterSeesClose, WriteFails, PresenceExpires
  <2>5. /\ link \in [Conns -> {"live", "silent", "closed"}]
        /\ presence \in [Users -> SUBSET Devices]
        /\ lastSeen \subseteq Users
    BY DEF Core, TypeOK
  <2>6. link' \in [Conns -> {"live", "silent", "closed"}]
    BY <2>1, <2>4, <2>5
  <2>7. presence' \in [Users -> SUBSET Devices]
    BY <2>3, <2>4, <2>5
  <2> QED BY <2>4, <2>5, <2>6, <2>7
<1>2. backlog' \in [Conns -> 0 .. SendCap]
  <2>1. SendCap \in Nat /\ backlog \in [Conns -> 0 .. SendCap]
    BY HubAssumption DEF Core, TypeOK
  <2>2. ASSUME NEW c \in Conns, backlog[c] > 0, backlog' = [backlog EXCEPT ![c] = @ - 1]
        PROVE  backlog' \in [Conns -> 0 .. SendCap]
    BY <2>1, <2>2
  <2> QED
    BY <2>1, <2>2 DEF PeerFallsSilent, WriteFrame, WriterSeesClose, WriteFails, PresenceExpires
<1>3. TypeOK'
  BY <1>1, <1>2 DEF Core, TypeOK
<1>4. NoLeakedClient' /\ SlotsAreOpen'
  BY <1>1 DEF Core, NoLeakedClient, SlotsAreOpen, Listed, ChatsOf, DevicesOn
<1>5. PendingWasFull' /\ ClosedAccounted' /\ CrashNeedsOverflow'
  BY <1>1 DEF Core, PendingWasFull, ClosedAccounted, CrashNeedsOverflow
<1> QED BY <1>3, <1>4, <1>5 DEF Core

\* A forced revocation only takes a connection out of the maps.
LEMMA ForceRevokeCore ==
    ASSUME Core, NEW u \in Users, NEW d \in Devices, ForceRevoke(u, d)
    PROVE  Core'
<1> USE DEF queues, client, sockets, valkey
<1> DEFINE c == byUser[u][d]
<1>1. c \in Conns
  BY DEF Core, TypeOK, ForceRevoke
<1>2. LeaveChats(c, DOMAIN byChat)
  BY DEF ForceRevoke
<1>3. /\ DOMAIN byChat' \subseteq DOMAIN byChat
      /\ byChat' \in [DOMAIN byChat' -> SUBSET Conns]
      /\ \A x \in DOMAIN byChat' : byChat'[x] \subseteq byChat[x]
  BY <1>1, <1>2, LeaveChatsFacts DEF Core
<1>4. /\ byUser' = [byUser EXCEPT ![u] = [@ EXCEPT ![d] = NoConn]]
      /\ UNCHANGED <<sockets, evicting, overflow, closed, stale, valkey, crashed, latest>>
  BY DEF ForceRevoke
<1>5. backlog' \in [Conns -> 0 .. SendCap]
  <2>1. SendCap \in Nat /\ backlog \in [Conns -> 0 .. SendCap]
    BY HubAssumption DEF Core, TypeOK
  <2> QED BY <1>1, <2>1 DEF ForceRevoke, Full
<1>6. /\ byUser' \in [Users -> [Devices -> Conns \cup {NoConn}]]
      /\ \A v \in Users, e \in Devices : byUser'[v][e] # NoConn => byUser'[v][e] = byUser[v][e]
  BY <1>4 DEF Core, TypeOK
<1>7. \A e \in Conns : Listed(e)' => Listed(e)
  BY <1>3, <1>6 DEF Listed, ChatsOf, DevicesOn
<1>8. TypeOK'
  BY <1>3, <1>4, <1>5, <1>6 DEF Core, TypeOK
<1>9. NoLeakedClient' /\ SlotsAreOpen'
  BY <1>4, <1>6, <1>7 DEF Core, NoLeakedClient, SlotsAreOpen, DevicesOn
<1>10. PendingWasFull' /\ ClosedAccounted' /\ CrashNeedsOverflow'
  BY <1>4 DEF Core, PendingWasFull, ClosedAccounted, CrashNeedsOverflow
<1> QED BY <1>8, <1>9, <1>10 DEF Core

LEMMA CoreStep == Core /\ [Next]_vars => Core'
<1> SUFFICES ASSUME Core, [Next]_vars PROVE Core'
  OBVIOUS
<1>1. ASSUME NEW c \in Conns, ConnStep(c) PROVE Core'
  BY <1>1, OpenCore, SubscriptionCore, FrameCore, RemovalCore, PumpCore DEF ConnStep
<1>2. CASE UNCHANGED vars
  <2> USE <1>2 DEF vars, Core
  <2>1. TypeOK'
    BY DEF TypeOK
  <2>2. NoLeakedClient' /\ SlotsAreOpen'
    BY DEF NoLeakedClient, SlotsAreOpen, Listed, ChatsOf, DevicesOn
  <2>3. PendingWasFull' /\ ClosedAccounted' /\ CrashNeedsOverflow'
    BY DEF PendingWasFull, ClosedAccounted, CrashNeedsOverflow
  <2> QED BY <2>1, <2>2, <2>3
<1>3. CASE Next
  BY <1>1, <1>3, FrameCore, ForceRevokeCore, PumpCore, PingSweepCore DEF Next
<1> QED BY <1>2, <1>3

-----------------------------------------------------------------------------
(* What Core gives.                                                        *)

LEMMA CoreHolds == Spec => []Core
BY CoreInit, CoreStep, PTL DEF Spec

\* The type invariant, with the agreement of a slot with its connection's user and device.
THEOREM TypeCorrect == Spec => []TypeOK
BY CoreHolds, PTL DEF Core

\* A connection whose reader is over, or which was never registered, is in neither map.
THEOREM NothingLeaks == Spec => []NoLeakedClient
BY CoreHolds, PTL DEF Core

\* Fan-out, call signalling and force-revoke never meet a closed channel.
THEOREM SlotsStayOpen == Spec => []SlotsAreOpen
BY CoreHolds, PTL DEF Core

\* No panic without a connection whose channel was once full.
THEOREM CrashNeedsSlowClient == Spec => []CrashNeedsOverflow
BY CoreHolds, PTL DEF Core

-----------------------------------------------------------------------------
(* More proofs about Hub: the views of a connection agree (the chat map    *)
(* with its own set of chats, the user map with the last registration,     *)
(* Valkey and last_seen with the connections), and a connection that lost  *)
(* a frame does not stay.  They rest on the invariant Core.                *)

\* What a step does to these views, in six cases.
Quiet ==
    /\ UNCHANGED <<registry, client, chatIDs, stage, closed, lastSeen, latest, crashed>>
    /\ \A u \in Users : presence'[u] \subseteq presence[u]
    /\ UNCHANGED stale
    /\ \A c \in overflow' : evicting'[c] > 0 \/ (c \in overflow /\ evicting[c] = 0)

Ticks ==
    /\ byChat' = [ch \in {x \in DOMAIN byChat : byChat[x] # {}} |-> byChat[ch]]
    /\ UNCHANGED <<byUser, sockets, evicting, closed, valkey, crashed, latest>>
    /\ \A c \in overflow' : stale'[c] > 0 \/ (c \in overflow /\ stale[c] = 0)

Removes(c) ==
    /\ RemoveClient(c)
    /\ stage[c] \in {"open", "gone"}
    /\ UNCHANGED <<client, chatIDs, latest, overflow>>
    /\ stage' = stage \/ stage' = [stage EXCEPT ![c] = "gone"]
    /\ \A e \in Conns : e # c => evicting'[e] = evicting[e] /\ stale'[e] = stale[e]

Accepts(c) == \E u \in Users, t \in TokenDevices, ch \in Chats : Accept(c, u, t, ch)

Subscribes(c) == \E ch \in Chats : Subscribe(c, ch) \/ Unsubscribe(c, ch)

Ends == \E why \in Panics \ {"no"} : Dies(why)

LEMMA OfferIsQuiet ==
    ASSUME Core, NEW S \in SUBSET Conns, Offer(S),
           UNCHANGED <<registry, sockets, closed, stale, valkey, crashed, latest>>
    PROVE  Quiet
<1>1. /\ overflow \subseteq overflow' /\ overflow' \subseteq Conns
      /\ \A c \in overflow' \ overflow : evicting'[c] > 0
      /\ \A c \in Conns : evicting'[c] >= evicting[c]
      /\ \A c \in Conns : evicting[c] \in Nat /\ evicting'[c] \in Nat
  BY OfferFacts DEF Core, TypeOK
<1>2. \A c \in overflow' : evicting'[c] > 0 \/ (c \in overflow /\ evicting[c] = 0)
  BY <1>1
<1> QED BY <1>2 DEF Quiet, sockets, client, valkey, Core, TypeOK

LEMMA SendIsQuietOrEnds ==
    ASSUME Core, NEW S \in SUBSET Conns,
           \/ /\ Sends(S)
              /\ UNCHANGED <<registry, sockets, closed, stale, valkey, crashed, latest>>
           \/ /\ SendPanics(S)
              /\ UNCHANGED <<registry, sockets, closed, stale, valkey, crashed, latest>>
           \/ SendKills(S)
    PROVE  Quiet \/ Ends
<1>1. CASE Sends(S) /\ UNCHANGED <<registry, sockets, closed, stale, valkey, crashed, latest>>
  BY <1>1, OfferIsQuiet DEF Sends
<1>2. CASE SendPanics(S) /\ UNCHANGED <<registry, sockets, closed, stale, valkey, crashed, latest>>
  <2>1. PICK T \in SUBSET (S \ closed) : Offer(T)
    BY <1>2 DEF SendPanics
  <2>2. T \in SUBSET Conns
    OBVIOUS
  <2> QED BY <1>2, <2>1, <2>2, OfferIsQuiet
<1>3. CASE SendKills(S)
  BY <1>3 DEF SendKills, Ends, Panics
<1> QED BY <1>1, <1>2, <1>3

\* A frame or a broadcast goes to connections, and only puts frames in their channels.
LEMMA FrameIsQuiet ==
    ASSUME Core,
           \/ \E c \in Conns, ch \in Chats : TypingFrame(c, ch)
           \/ \E c \in Conns, u \in Users : CallFrame(c, u)
           \/ \E ch \in Chats, u \in Users \cup {NoUser} : ChatEvent(ch, u)
           \/ \E u \in Users : UserEvent(u)
    PROVE  Quiet \/ Ends
<1>1. TypeOK
  BY DEF Core
<1>2. ASSUME NEW c \in Conns, NEW ch \in Chats, TypingFrame(c, ch)
      PROVE  Quiet \/ Ends
  <2>1. Others(ch, userID[c]) \in SUBSET Conns
    BY <1>1, AudienceListed
  <2> QED BY <1>2, <2>1, SendIsQuietOrEnds DEF TypingFrame
<1>3. ASSUME NEW c \in Conns, NEW u \in Users, CallFrame(c, u)
      PROVE  Quiet \/ Ends
  <2>1. DevicesOn(u) \in SUBSET Conns
    BY <1>1, AudienceListed
  <2> QED BY <1>3, <2>1, SendIsQuietOrEnds DEF CallFrame
<1>4. ASSUME NEW ch \in Chats, NEW u \in Users \cup {NoUser}, ChatEvent(ch, u)
      PROVE  Quiet \/ Ends
  <2>1. Others(ch, u) \in SUBSET Conns
    BY <1>1, AudienceListed
  <2> QED BY <1>4, <2>1, SendIsQuietOrEnds DEF ChatEvent
<1>5. ASSUME NEW u \in Users, UserEvent(u)
      PROVE  Quiet \/ Ends
  <2>1. DevicesOn(u) \in SUBSET Conns
    BY <1>1, AudienceListed
  <2> QED BY <1>5, <2>1, SendIsQuietOrEnds DEF UserEvent
<1> QED BY <1>2, <1>3, <1>4, <1>5

LEMMA PumpIsQuiet ==
    ASSUME Core,
           \/ \E c \in Conns : \/ PeerFallsSilent(c) \/ WriteFrame(c)
                               \/ WriterSeesClose(c) \/ WriteFails(c)
           \/ \E u \in Users : PresenceExpires(u)
           \/ UNCHANGED vars
    PROVE  Quiet
<1> USE DEF registry, queues, client, sockets, valkey
<1>1. /\ UNCHANGED <<registry, client, chatIDs, stage, closed, evicting, overflow, stale,
                     lastSeen, crashed, latest>>
      /\ presence' = presence \/ \E u \in Users : PresenceExpires(u)
  BY DEF PeerFallsSilent, WriteFrame, WriterSeesClose, WriteFails, PresenceExpires, vars
<1>2. \A u \in Users : presence'[u] \subseteq presence[u]
  BY <1>1 DEF PresenceExpires, Core, TypeOK
<1>3. \A c \in overflow' : evicting'[c] > 0 \/ (c \in overflow /\ evicting[c] = 0)
  BY <1>1 DEF Core, TypeOK
<1> QED BY <1>1, <1>2, <1>3 DEF Quiet

LEMMA TickFacts ==
    ASSUME Core, PingSweep
    PROVE  Ticks \/ Ends
<1>1. CASE SendKills(Watching)
  BY <1>1 DEF SendKills, Ends, Panics
<1>2. CASE
        /\ \A c \in Conns : stale[c] = 0
        /\ stale' = [c \in Conns |-> IF Pings(c) <= Room(c) THEN 0 ELSE Pings(c) - Room(c)]
        /\ overflow' = overflow \cup {c \in Conns : Pings(c) > Room(c)}
        /\ byChat' = [ch \in {x \in DOMAIN byChat : byChat[x] # {}} |-> byChat[ch]]
        /\ UNCHANGED <<byUser, sockets, evicting, closed, valkey, crashed, latest>>
  <2>1. ASSUME NEW c \in overflow'
        PROVE  stale'[c] > 0 \/ (c \in overflow /\ stale[c] = 0)
    <3>1. c \in Conns /\ stale[c] = 0
      BY <1>2 DEF Core, TypeOK
    <3>2. Pings(c) \in Nat /\ Room(c) \in Nat
      BY <3>1, PingsFacts DEF Core
    <3>3. stale'[c] = IF Pings(c) <= Room(c) THEN 0 ELSE Pings(c) - Room(c)
      BY <1>2, <3>1
    <3>4. c \in overflow \/ Pings(c) > Room(c)
      BY <1>2, <2>1
    <3> QED BY <3>1, <3>2, <3>3, <3>4
  <2> QED BY <1>2, <2>1 DEF Ticks
<1> QED BY <1>1, <1>2 DEF PingSweep

LEMMA RemovalFacts ==
    ASSUME Core, NEW c \in Conns, ReadPumpExit(c) \/ Evict(c) \/ SweepRemoves(c)
    PROVE  Removes(c) \/ Ends
<1> USE DEF queues, client, sockets
<1>1. stage[c] \in {"open", "gone"}
  BY DEF ReadPumpExit, Evict, SweepRemoves, Core, PendingWasFull
<1>2. CASE RemoveClientPanics(c)
  BY <1>2 DEF RemoveClientPanics, Ends, Panics
<1>3. CASE /\ RemoveClient(c)
           /\ stage' = [stage EXCEPT ![c] = "gone"]
           /\ UNCHANGED <<client, chatIDs, queues, stale, latest>>
  BY <1>1, <1>3 DEF Removes
<1>4. CASE /\ RemoveClient(c)
           /\ evicting' = [evicting EXCEPT ![c] = @ - 1]
           /\ UNCHANGED <<sockets, backlog, overflow, stale, latest>>
  BY <1>1, <1>4 DEF Removes, Core, TypeOK
<1>5. CASE /\ RemoveClient(c)
           /\ stale' = [stale EXCEPT ![c] = @ - 1]
           /\ UNCHANGED <<sockets, queues, latest>>
  BY <1>1, <1>5 DEF Removes, Core, TypeOK
<1> QED BY <1>2, <1>3, <1>4, <1>5 DEF ReadPumpExit, Evict, SweepRemoves

LEMMA StepCases ==
    ASSUME Core, [Next]_vars
    PROVE  \/ Quiet
           \/ Ends
           \/ Ticks
           \/ \E c \in Conns : Removes(c) \/ Accepts(c) \/ Register(c) \/ Subscribes(c)
           \/ \E u \in Users, d \in Devices : ForceRevoke(u, d)
<1>1. ASSUME NEW c \in Conns, ConnStep(c)
      PROVE  \/ Quiet \/ Ends
             \/ Removes(c) \/ Accepts(c) \/ Register(c) \/ Subscribes(c)
  BY <1>1, FrameIsQuiet, PumpIsQuiet, RemovalFacts DEF ConnStep, Accepts, Subscribes
<1>2. CASE UNCHANGED vars
  BY <1>2, PumpIsQuiet
<1>3. CASE Next
  BY <1>1, <1>3, FrameIsQuiet, PumpIsQuiet, TickFacts DEF Next
<1> QED BY <1>2, <1>3

-----------------------------------------------------------------------------
(* The chat map and the connections' own sets.                             *)

LEMMA ChatsAgreeStep ==
    ASSUME Core, ChatsAgree, [Next]_vars
    PROVE  ChatsAgree'
<1> USE DEF ChatsAgree, registry, client
<1>1. CASE Quiet
  BY <1>1 DEF Quiet, NoEmptyChat, ListedAsSubscribed, ChatsOf
<1>2. CASE Ends
  BY <1>2 DEF Ends, Dies, NoEmptyChat, ListedAsSubscribed, ChatsOf
<1>3. CASE Ticks
  BY <1>3 DEF Ticks, sockets, NoEmptyChat, ListedAsSubscribed, ChatsOf
<1>4. ASSUME NEW c \in Conns, Removes(c)
      PROVE  ChatsAgree'
  <2>1. /\ LeaveChats(c, DOMAIN byChat)
        /\ chatIDs' = chatIDs
    BY <1>4 DEF Removes, RemoveClient
  <2>2. /\ DOMAIN byChat' \subseteq DOMAIN byChat
        /\ \A x \in DOMAIN byChat' : byChat'[x] \subseteq byChat[x]
        /\ NoEmptyChat'
    BY <2>1, LeaveChatsFacts DEF Core
  <2> QED BY <2>1, <2>2 DEF ListedAsSubscribed, ChatsOf
<1>5. ASSUME NEW c \in Conns, Accepts(c)
      PROVE  ChatsAgree'
  <2>1. PICK ch \in Chats : /\ stage[c] = "none"
                            /\ chatIDs' = [chatIDs EXCEPT ![c] = {ch}]
                            /\ byChat' = byChat
    BY <1>5 DEF Accepts, Accept
  <2>2. ChatsOf(c) = {}
    BY <2>1 DEF Core, NoLeakedClient, Listed
  <2>3. \A e \in Conns \ {c} : chatIDs'[e] = chatIDs[e]
    BY <2>1 DEF Core, TypeOK
  <2>4. \A e \in Conns : ChatsOf(e)' = ChatsOf(e)
    BY <2>1 DEF ChatsOf
  <2> QED BY <2>1, <2>2, <2>3, <2>4 DEF NoEmptyChat, ListedAsSubscribed
<1>6. ASSUME NEW c \in Conns, NEW ch \in Chats, JoinChat(c, ch),
             ch \in chatIDs'[c], \A e \in Conns : chatIDs[e] \subseteq chatIDs'[e]
      PROVE  ChatsAgree'
  <2>1. /\ \A x \in DOMAIN byChat' : byChat'[x] \subseteq InChat(x) \cup {c}
        /\ \A x \in DOMAIN byChat' : x # ch => byChat'[x] = InChat(x)
        /\ NoEmptyChat'
    BY <1>6, JoinChatFacts DEF Core
  <2>2. \A e \in Conns : \A x \in ChatsOf(e)' : x \in ChatsOf(e) \/ (e = c /\ x = ch)
    BY <2>1 DEF ChatsOf, InChat
  <2> QED BY <1>6, <2>1, <2>2 DEF ListedAsSubscribed
<1>7. ASSUME NEW c \in Conns, Register(c)
      PROVE  ChatsAgree'
  <2>1. PICK ch \in chatIDs[c] : JoinChat(c, ch)
    BY <1>7 DEF Register
  <2>2. ch \in Chats /\ chatIDs' = chatIDs
    BY <1>7, <2>1 DEF Register, Core, TypeOK
  <2> QED BY <1>6, <2>1, <2>2
<1>8. ASSUME NEW c \in Conns, NEW ch \in Chats, Subscribe(c, ch)
      PROVE  ChatsAgree'
  <2>1. /\ JoinChat(c, ch)
        /\ ch \in chatIDs'[c]
        /\ \A e \in Conns : chatIDs[e] \subseteq chatIDs'[e]
    BY <1>8 DEF Subscribe, Core, TypeOK
  <2> QED BY <1>6, <2>1
<1>9. ASSUME NEW c \in Conns, NEW ch \in Chats, Unsubscribe(c, ch)
      PROVE  ChatsAgree'
  <2>1. /\ LeaveChats(c, {ch})
        /\ chatIDs' = [chatIDs EXCEPT ![c] = @ \ {ch}]
    BY <1>9 DEF Unsubscribe
  <2>2. /\ DOMAIN byChat' \subseteq DOMAIN byChat
        /\ \A x \in DOMAIN byChat' : byChat'[x] \subseteq byChat[x]
        /\ NoEmptyChat'
    BY <2>1, LeaveChatsFacts DEF Core
  <2>3. ch \in DOMAIN byChat' => c \notin byChat'[ch]
    BY <2>1 DEF LeaveChats
  <2>4. /\ \A e \in Conns \ {c} : chatIDs'[e] = chatIDs[e]
        /\ chatIDs'[c] = chatIDs[c] \ {ch}
    BY <2>1 DEF Core, TypeOK
  <2>5. \A e \in Conns : ChatsOf(e)' \subseteq ChatsOf(e)
    BY <2>2 DEF ChatsOf
  <2>6. ch \notin ChatsOf(c)'
    BY <2>3 DEF ChatsOf
  <2> QED BY <2>2, <2>4, <2>5, <2>6 DEF ListedAsSubscribed
<1>10. ASSUME NEW u \in Users, NEW d \in Devices, ForceRevoke(u, d)
       PROVE  ChatsAgree'
  <2> DEFINE c == byUser[u][d]
  <2>1. /\ c \in Conns
        /\ LeaveChats(c, DOMAIN byChat)
        /\ chatIDs' = chatIDs
    BY <1>10 DEF ForceRevoke, sockets, Core, TypeOK
  <2>2. /\ DOMAIN byChat' \subseteq DOMAIN byChat
        /\ \A x \in DOMAIN byChat' : byChat'[x] \subseteq byChat[x]
        /\ NoEmptyChat'
    BY <2>1, LeaveChatsFacts DEF Core
  <2> QED BY <2>1, <2>2 DEF ListedAsSubscribed, ChatsOf
<1> QED
  BY <1>1, <1>2, <1>3, <1>4, <1>5, <1>7, <1>8, <1>9, <1>10, StepCases DEF Subscribes

\* byChat and the chatIDs of the connections never contradict each other, and no chat
\* without a connection stays in the map.
THEOREM ChatsAlwaysAgree == Spec => []ChatsAgree
<1>1. Init => ChatsAgree
  BY DEF Init, ChatsAgree, NoEmptyChat, ListedAsSubscribed, ChatsOf
<1>2. Core /\ ChatsAgree /\ [Next]_vars => ChatsAgree'
  BY ChatsAgreeStep
<1> QED BY <1>1, <1>2, CoreHolds, PTL DEF Spec

-----------------------------------------------------------------------------
(* The user map and the last registration.                                 *)

LEMMA SlotStep ==
    ASSUME Core, SlotIsLatest, [Next]_vars
    PROVE  SlotIsLatest'
<1> USE DEF SlotIsLatest, registry
<1>1. CASE Quiet \/ Ticks \/ \E c \in Conns : Accepts(c) \/ Subscribes(c)
  BY <1>1 DEF Quiet, Ticks, Accepts, Accept, Subscribes, Subscribe, Unsubscribe
<1>2. CASE Ends
  BY <1>2 DEF Ends, Dies, NoSlots
<1>3. ASSUME NEW c \in Conns, Removes(c)
      PROVE  SlotIsLatest'
  <2>1. RemoveClient(c) /\ stage[c] # "none" /\ latest' = latest
    BY <1>3 DEF Removes
  <2>2. \A u \in Users, d \in Devices : byUser'[u][d] # NoConn => byUser'[u][d] = byUser[u][d]
    BY <2>1, RemoveFacts
  <2> QED BY <2>1, <2>2
<1>4. ASSUME NEW c \in Conns, Register(c)
      PROVE  SlotIsLatest'
  <2>1. /\ SetSlot(c, c)
        /\ latest' = [latest EXCEPT ![userID[c]] = [@ EXCEPT ![deviceID[c]] = c]]
        /\ userID[c] \in Users /\ deviceID[c] \in Devices /\ TypeOK
    BY <1>4 DEF Register, Core, TypeOK
  <2>2. /\ byUser'[userID[c]][deviceID[c]] = c
        /\ \A u \in Users, d \in Devices :
              <<u, d>> # <<userID[c], deviceID[c]>> => byUser'[u][d] = byUser[u][d]
    BY <2>1, SetSlotFacts
  <2>3. /\ latest'[userID[c]][deviceID[c]] = c
        /\ \A u \in Users, d \in Devices :
              <<u, d>> # <<userID[c], deviceID[c]>> => latest'[u][d] = latest[u][d]
    BY <2>1 DEF TypeOK
  <2> QED BY <2>2, <2>3
<1>5. ASSUME NEW v \in Users, NEW e \in Devices, ForceRevoke(v, e)
      PROVE  SlotIsLatest'
  <2>1. /\ byUser' = [byUser EXCEPT ![v] = [@ EXCEPT ![e] = NoConn]]
        /\ latest' = latest
    BY <1>5 DEF ForceRevoke
  <2>2. \A u \in Users, d \in Devices : byUser'[u][d] = NoConn \/ byUser'[u][d] = byUser[u][d]
    BY <2>1 DEF Core, TypeOK
  <2> QED BY <2>1, <2>2
<1> QED BY <1>1, <1>2, <1>3, <1>4, <1>5, StepCases

\* Fan-out to a user's devices never goes to a superseded socket.
THEOREM SlotsAreLatest == Spec => []SlotIsLatest
<1>1. Init => SlotIsLatest
  BY DEF Init, SlotIsLatest, NoSlots
<1>2. Core /\ SlotIsLatest /\ [Next]_vars => SlotIsLatest'
  BY SlotStep
<1> QED BY <1>1, <1>2, CoreHolds, PTL DEF Spec

\* The maps the hub delivers from hold live connections only, and the last of each device.
THEOREM MapsStayCurrent == Spec => []MapsAreCurrent
BY NothingLeaks, SlotsStayOpen, SlotsAreLatest, PTL DEF MapsAreCurrent

-----------------------------------------------------------------------------
(* Connections that lost a frame.                                          *)

LEMMA GapStep ==
    ASSUME Core, NoSilentGap, [Next]_vars
    PROVE  NoSilentGap'
<1> USE DEF NoSilentGap, registry, queues
<1>1. CASE Quiet
  BY <1>1 DEF Quiet, Core, TypeOK
<1>2. CASE Ends
  BY <1>2 DEF Ends, Dies
<1>3. CASE Ticks
  BY <1>3 DEF Ticks, Core, TypeOK
<1>4. ASSUME NEW c \in Conns, Removes(c)
      PROVE  NoSilentGap'
  <2>1. /\ closed' = closed \cup {c}
        /\ crashed' = crashed
        /\ overflow' = overflow
        /\ overflow \subseteq Conns
        /\ \A e \in Conns : e # c => evicting'[e] = evicting[e] /\ stale'[e] = stale[e]
    BY <1>4 DEF Removes, RemoveClient, Core, TypeOK
  <2> QED BY <2>1
<1>5. CASE \E c \in Conns : Accepts(c) \/ Register(c) \/ Subscribes(c)
  <2>1. ASSUME NEW c \in Conns, Accepts(c) \/ Register(c)
        PROVE  UNCHANGED <<evicting, stale, overflow, closed, crashed>>
    BY <2>1 DEF Accepts, Accept, Register
  <2>2. ASSUME NEW c \in Conns, Subscribes(c)
        PROVE  UNCHANGED <<evicting, stale, overflow, closed, crashed>>
    BY <2>2 DEF Subscribes, Subscribe, Unsubscribe
  <2>3. UNCHANGED <<evicting, stale, overflow, closed, crashed>>
    BY <1>5, <2>1, <2>2
  <2> QED BY <2>3
<1>6. CASE \E u \in Users, d \in Devices : ForceRevoke(u, d)
  BY <1>6 DEF ForceRevoke
<1> QED BY <1>1, <1>2, <1>3, <1>4, <1>5, <1>6, StepCases

\* The removal of a connection that missed a frame is always pending or done.
THEOREM GapsAreNoticed == Spec => []NoSilentGap
<1>1. Init => NoSilentGap
  BY DEF Init, NoSilentGap
<1>2. Core /\ NoSilentGap /\ [Next]_vars => NoSilentGap'
  BY GapStep
<1> QED BY <1>1, <1>2, CoreHolds, PTL DEF Spec

-----------------------------------------------------------------------------
(* Valkey and last_seen.                                                   *)

Watched(u, d) == \E c \in Conns : /\ userID[c] = u /\ deviceID[c] = d
                                  /\ stage[c] \in {"accepted", "open"}

LEMMA PresenceStep ==
    ASSUME Core, PresenceBacked, [Next]_vars
    PROVE  PresenceBacked'
<1> USE DEF client, sockets, valkey
<1>0. PresenceBacked <=> (crashed = "no" => \A u \in Users : \A d \in presence[u] : Watched(u, d))
  BY DEF PresenceBacked, Watched
<1>1. CASE Quiet
  BY <1>1 DEF Quiet, PresenceBacked
<1>2. CASE Ends
  BY <1>2 DEF Ends, Dies, PresenceBacked
<1>3. CASE \/ Ticks
           \/ \E c \in Conns : Subscribes(c)
           \/ \E u \in Users, d \in Devices : ForceRevoke(u, d)
  <2>1. UNCHANGED <<userID, deviceID, stage, presence, lastSeen, crashed>>
    BY <1>3 DEF Ticks, Subscribes, Subscribe, Unsubscribe, ForceRevoke
  <2> QED BY <2>1 DEF PresenceBacked
<1>4. ASSUME NEW c \in Conns, Register(c)
      PROVE  PresenceBacked'
  <2>1. /\ stage[c] = "accepted"
        /\ stage'[c] = "open"
        /\ \A e \in Conns : e # c => stage'[e] = stage[e]
        /\ UNCHANGED <<client, valkey, crashed>>
    BY <1>4 DEF Register, Core, TypeOK
  <2> QED BY <2>1 DEF PresenceBacked
<1>5. ASSUME NEW c \in Conns, NEW u \in Users, NEW t \in TokenDevices, NEW ch \in Chats,
             Accept(c, u, t, ch)
      PROVE  PresenceBacked'
  <2> DEFINE d == IF t = NoDevice THEN UnknownDevice[u] ELSE t
  <2>1. /\ stage[c] = "none"
        /\ stage'[c] = "accepted" /\ userID'[c] = u /\ deviceID'[c] = d
        /\ \A e \in Conns : e # c => /\ stage'[e] = stage[e] /\ userID'[e] = userID[e]
                                     /\ deviceID'[e] = deviceID[e]
        /\ presence'[u] = presence[u] \cup {d}
        /\ \A v \in Users : v # u => presence'[v] = presence[v]
        /\ crashed' = crashed
    BY <1>5 DEF Accept, Core, TypeOK
  <2>2. \A v \in Users, x \in Devices : Watched(v, x) => Watched(v, x)'
    BY <2>1 DEF Watched
  <2>3. Watched(u, d)'
    BY <2>1 DEF Watched
  <2>4. \A v \in Users : presence[v] \subseteq Devices
    BY DEF Core, TypeOK
  <2>5. ASSUME crashed' = "no", NEW v \in Users, NEW x \in presence'[v]
        PROVE  Watched(v, x)'
    <3>1. x \in presence[v] \/ (v = u /\ x = d)
      BY <2>1, <2>5
    <3> QED BY <1>0, <2>1, <2>2, <2>3, <2>4, <2>5, <3>1
  <2> QED BY <2>5 DEF PresenceBacked, Watched
<1>6. ASSUME NEW c \in Conns, Removes(c)
      PROVE  PresenceBacked'
  <2>1. /\ userID[c] \in Users
        /\ presence' = [presence EXCEPT ![userID[c]] = presence[userID[c]] \ {deviceID[c]}]
        /\ UNCHANGED <<client, crashed>>
        /\ \A e \in Conns : e # c => stage'[e] = stage[e]
    BY <1>6 DEF Removes, RemoveClient, LeavePresence, Core, TypeOK
  <2>2. ASSUME crashed = "no", NEW v \in Users, NEW x \in presence'[v]
        PROVE  Watched(v, x)'
    <3>1. x \in presence[v] /\ ~(v = userID[c] /\ x = deviceID[c])
      BY <2>1, <2>2 DEF Core, TypeOK
    <3>2. PICK e \in Conns : userID[e] = v /\ deviceID[e] = x /\ stage[e] \in {"accepted", "open"}
      BY <1>0, <2>2, <3>1 DEF Watched
    <3>3. e # c
      BY <3>1, <3>2
    <3> QED BY <2>1, <3>2, <3>3 DEF Watched
  <2> QED BY <2>1, <2>2 DEF PresenceBacked, Watched
<1> QED BY <1>1, <1>2, <1>3, <1>4, <1>5, <1>6, StepCases DEF Accepts

Mine(u)  == {c \in Conns : userID[c] = u /\ stage[c] # "none"}
Over(u)  == Mine(u) # {} /\ \A c \in Mine(u) : stage[c] = "gone"

LEMMA LastSeenStep ==
    ASSUME Core, PresenceBacked, LastSeenRecorded, [Next]_vars
    PROVE  LastSeenRecorded'
<1> USE DEF client, sockets, valkey
<1>0. /\ LastSeenRecorded <=> \A u \in Users : crashed = "no" /\ Over(u) => u \in lastSeen
      /\ LastSeenRecorded' <=> \A u \in Users : crashed' = "no" /\ Over(u)' => u \in lastSeen'
  BY DEF LastSeenRecorded, Over, Mine
<1>1. CASE Quiet
  BY <1>1 DEF Quiet, LastSeenRecorded
<1>2. CASE Ends
  BY <1>2 DEF Ends, Dies, LastSeenRecorded
<1>3. CASE \/ Ticks
           \/ \E c \in Conns : Subscribes(c)
           \/ \E u \in Users, d \in Devices : ForceRevoke(u, d)
  <2>1. UNCHANGED <<userID, deviceID, stage, presence, lastSeen, crashed>>
    BY <1>3 DEF Ticks, Subscribes, Subscribe, Unsubscribe, ForceRevoke
  <2> QED BY <2>1 DEF LastSeenRecorded
<1>4. ASSUME NEW c \in Conns, Register(c)
      PROVE  LastSeenRecorded'
  <2>1. /\ stage[c] = "accepted" /\ stage'[c] = "open"
        /\ \A e \in Conns : e # c => stage'[e] = stage[e]
        /\ UNCHANGED <<client, valkey, crashed>>
    BY <1>4 DEF Register, Core, TypeOK
  <2>2. \A u \in Users : Over(u)' => Over(u)
    BY <2>1 DEF Over, Mine
  <2> QED BY <1>0, <2>1, <2>2
<1>5. ASSUME NEW c \in Conns, NEW u \in Users, NEW t \in TokenDevices, NEW ch \in Chats,
             Accept(c, u, t, ch)
      PROVE  LastSeenRecorded'
  <2>1. /\ stage[c] = "none" /\ stage'[c] = "accepted" /\ userID'[c] = u
        /\ \A e \in Conns : e # c => stage'[e] = stage[e] /\ userID'[e] = userID[e]
        /\ lastSeen' = lastSeen \ {u}
        /\ crashed' = crashed
    BY <1>5 DEF Accept, Core, TypeOK
  <2>2. ~Over(u)'
    BY <2>1 DEF Over, Mine
  <2>3. \A v \in Users : v # u /\ Over(v)' => Over(v)
    BY <2>1 DEF Over, Mine
  <2> QED BY <1>0, <2>1, <2>2, <2>3
<1>6. ASSUME NEW c \in Conns, Removes(c)
      PROVE  LastSeenRecorded'
  <2> DEFINE u == userID[c]
             rest == presence[u] \ {deviceID[c]}
  <2>1. /\ u \in Users
        /\ lastSeen' = IF rest = {} THEN lastSeen \cup {u} ELSE lastSeen
        /\ UNCHANGED <<client, crashed>>
        /\ \A e \in Conns : e # c => stage'[e] = stage[e]
        /\ stage[c] # "none"
        /\ stage' = stage \/ stage'[c] = "gone"
    BY <1>6 DEF Removes, RemoveClient, LeavePresence, Core, TypeOK
  <2>2. \A v \in Users : v # u /\ Over(v)' => Over(v)
    BY <2>1 DEF Over, Mine
  <2>3. ASSUME crashed = "no", Over(u)', rest # {}
        PROVE  Over(u)
    <3>1. PICK d \in presence[u] : d # deviceID[c]
      BY <2>3
    <3>2. PICK e \in Conns : userID[e] = u /\ deviceID[e] = d /\ stage[e] \in {"accepted", "open"}
      BY <2>1, <2>3, <3>1 DEF PresenceBacked
    <3>3. stage'[e] \in {"accepted", "open"} /\ userID'[e] = u
      BY <2>1, <3>1, <3>2
    <3> QED BY <2>3, <3>2, <3>3, <2>1 DEF Over, Mine
  <2> QED BY <1>0, <2>1, <2>2, <2>3
<1> QED BY <1>1, <1>2, <1>3, <1>4, <1>5, <1>6, StepCases DEF Accepts

\* What Valkey and users.last_seen say of a user follows the connections of the user.
THEOREM PresenceIsTracked == Spec => []PresenceTracks
<1>1. Init => PresenceTracks
  BY DEF Init, All, PresenceTracks, PresenceBacked, LastSeenRecorded
<1>2. Core /\ PresenceTracks /\ [Next]_vars => PresenceTracks'
  BY PresenceStep, LastSeenStep DEF PresenceTracks
<1> QED BY <1>1, <1>2, CoreHolds, PTL DEF Spec

-----------------------------------------------------------------------------
(* A connection that began to go does not come back.  With this and        *)
(* NothingLeaks, SilentPeerLeaves needs no more than that the readPump of  *)
(* a dead socket returns at some time.                                     *)

Doomed(c) == stage[c] = "open" /\ link[c] # "live"

\* Until the process dies, who goes has gone.
NoWayBack ==
    [][crashed' = "no" => \A c \in Conns :
          /\ Doomed(c) => Doomed(c)' \/ (stage'[c] = "gone" /\ ~Listed(c)')
          /\ stage[c] = "gone" => stage'[c] = "gone" /\ ~Listed(c)']_vars

\* A socket changes by its own step of its connection only, and then goes on its way.
SocketMoves ==
    /\ stage \in [Conns -> Stages] /\ link \in [Conns -> {"live", "silent", "closed"}]
    /\ \/ UNCHANGED <<stage, link>>
       \/ crashed' # "no"
       \/ \E c \in Conns :
             \/ /\ stage[c] \notin {"open", "gone"} /\ UNCHANGED link
                /\ stage' = [stage EXCEPT ![c] = "accepted"]
             \/ /\ stage[c] = "accepted"
                /\ stage' = [stage EXCEPT ![c] = "open"] /\ link' = [link EXCEPT ![c] = "live"]
             \/ /\ stage[c] = "open"
                /\ stage' = [stage EXCEPT ![c] = "gone"] /\ link' = [link EXCEPT ![c] = "closed"]
             \/ UNCHANGED stage /\ link' = [link EXCEPT ![c] = "silent"]
             \/ UNCHANGED stage /\ link' = [link EXCEPT ![c] = "closed"]

\* What ends the process says so.
LEMMA EndsSaysSo ==
    ASSUME NEW S, SendKills(S) \/ \E c \in Conns : RemoveClientPanics(c)
    PROVE  crashed' # "no"
BY DEF SendKills, RemoveClientPanics, Dies

LEMMA SocketSteps ==
    ASSUME Core, [Next]_vars
    PROVE  SocketMoves
<1> USE DEF sockets
<1>1. stage \in [Conns -> Stages] /\ link \in [Conns -> {"live", "silent", "closed"}]
  BY DEF Core, TypeOK
<1>2. CASE UNCHANGED vars
  BY <1>1, <1>2 DEF vars, SocketMoves
<1>3. ASSUME NEW c \in Conns, ConnStep(c)
      PROVE  SocketMoves
  <2>1. ASSUME NEW u \in Users, NEW t \in TokenDevices, NEW ch \in Chats, Accept(c, u, t, ch)
        PROVE  SocketMoves
    BY <1>1, <2>1 DEF Accept, SocketMoves
  <2>2. CASE Register(c)
    BY <1>1, <2>2 DEF Register, SocketMoves
  <2>3. CASE \E ch \in Chats : Subscribe(c, ch) \/ Unsubscribe(c, ch)
    BY <1>1, <2>3 DEF Subscribe, Unsubscribe, SocketMoves
  <2>4. CASE (\E ch \in Chats : TypingFrame(c, ch)) \/ (\E u \in Users : CallFrame(c, u))
    BY <1>1, <2>4, EndsSaysSo DEF TypingFrame, CallFrame, SocketMoves
  <2>5. CASE ReadPumpExit(c)
    BY <1>1, <2>5, EndsSaysSo DEF ReadPumpExit, SocketMoves
  <2>6. CASE PeerFallsSilent(c) \/ WriteFrame(c) \/ WriterSeesClose(c) \/ WriteFails(c)
    BY <1>1, <2>6 DEF PeerFallsSilent, WriteFrame, WriterSeesClose, WriteFails, SocketMoves
  <2>7. CASE Evict(c) \/ SweepRemoves(c)
    BY <1>1, <2>7, EndsSaysSo DEF Evict, SweepRemoves, SocketMoves
  <2> QED BY <1>3, <2>1, <2>2, <2>3, <2>4, <2>5, <2>6, <2>7 DEF ConnStep
<1>4. CASE \/ \E ch \in Chats, u \in Users \cup {NoUser} : ChatEvent(ch, u)
           \/ \E u \in Users : UserEvent(u)
           \/ \E u \in Users, d \in Devices : ForceRevoke(u, d)
           \/ \E u \in Users : PresenceExpires(u)
  BY <1>1, <1>4 DEF ChatEvent, UserEvent, ForceRevoke, PresenceExpires, SocketMoves
<1>5. CASE PingSweep
  BY <1>1, <1>5, EndsSaysSo DEF PingSweep, SocketMoves
<1> QED BY <1>2, <1>3, <1>4, <1>5 DEF Next

\* What SilentPeerLeaves needs besides fairness, for any connections and users: unless the
\* process dies, a connection whose socket is dead stays so until its readPump returns, is in
\* neither map from then on, and never comes back.
THEOREM DeadSocketsLeave == Spec => NoWayBack
<1>1. ASSUME Core, Core', [Next]_vars, crashed' = "no", NEW c \in Conns
      PROVE  /\ Doomed(c) => Doomed(c)' \/ (stage'[c] = "gone" /\ ~Listed(c)')
             /\ stage[c] = "gone" => stage'[c] = "gone" /\ ~Listed(c)'
  <2>1. /\ Doomed(c) => Doomed(c)' \/ stage'[c] = "gone"
        /\ stage[c] = "gone" => stage'[c] = "gone"
    BY <1>1, SocketSteps DEF SocketMoves, Doomed
  <2>2. stage'[c] = "gone" => ~Listed(c)'
    BY <1>1 DEF Core, NoLeakedClient
  <2> QED BY <2>1, <2>2
<1>2. Core /\ Core' /\ [Next]_vars
        => [crashed' = "no" => \A c \in Conns :
              /\ Doomed(c) => Doomed(c)' \/ (stage'[c] = "gone" /\ ~Listed(c)')
              /\ stage[c] = "gone" => stage'[c] = "gone" /\ ~Listed(c)']_vars
  BY <1>1
<1> QED BY <1>2, CoreHolds, PTL DEF Spec, NoWayBack
=============================================================================
