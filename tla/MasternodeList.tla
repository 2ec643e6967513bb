--------------------------- MODULE MasternodeList ---------------------------
(***************************************************************************)
(* The masternode lists of the network (master/node.cpp, nodeman.cpp) and  *)
(* the masternode's own daemon (master/activenode.cpp), for one collateral.*)
(* max/node.cpp, nodeman.cpp and activenode.cpp are the same text.         *)
(*                                                                         *)
(* The unit of time is MASTERNODE_MIN_MNP_SECONDS, ten minutes; a broadcast*)
(* (mnb) is known by the order of its sigTime, a ping (mnp) by its age.  Of*)
(* the pings only the last one is still under way.  A request for an entry *)
(* (dseg) and the inv that answers it are one step, and so are the getdata *)
(* for a broadcast and the mnb that answers it.                            *)
(***************************************************************************)
EXTENDS Integers

CONSTANTS
    ListNodes,    \* nodes with a masternode list
    Hot, Cold,    \* the masternode's daemon; the node whose wallet starts it
    PingWindow,   \* a ping may be this old when it comes (an hour)
    Expiration,   \* MASTERNODE_EXPIRATION_SECONDS
    Removal,      \* MASTERNODE_REMOVAL_SECONDS
    MaxBroadcasts,
    MaxEvents     \* bound: stops, spends and broadcasts after the first, in all

ASSUME NodesInList == Hot \in ListNodes /\ Cold \in ListNodes /\ Hot # Cold
ASSUME TimesOrdered ==
    /\ PingWindow \in Nat \ {0} /\ Expiration \in Nat /\ Removal \in Nat
    /\ PingWindow <= Expiration /\ Expiration < Removal
ASSUME ListBounds ==
    MaxBroadcasts \in Nat \ {0} /\ MaxEvents \in Nat

VARIABLES
    entry,        \* vMasternodes of each node: the entry of this collateral
    seenMnb,      \* mapSeenMasternodeBroadcast: age of the stored lastPing
    seenMnp,      \* nodes that have the last ping in mapSeenMasternodePing
    pingers,      \* nodes that relayed it
    asked,        \* nodes with the collateral in mWeAskedForMasternodeListEntry
    offered,      \* invs of broadcasts: <<to, from, broadcast>>
    age,          \* age of each broadcast's sigTime, Unsigned before it is made
    pingAge,      \* age of the last ping
    status,       \* CActiveMasternode::status of Hot
    spent,        \* AcceptableInputs refuses the collateral
    events

mnVars == <<entry, seenMnb, seenMnp, pingers, asked, offered, age, pingAge,
            status, spent, events>>

Broadcasts == 1..MaxBroadcasts
Unsigned == -1
Unseen == -1
NoEntry == [sig |-> 0, ping |-> 0, st |-> "none"]
Older(a, limit) == IF a \in 0..limit - 1 THEN a + 1 ELSE a

MasternodeListInit ==
    /\ entry = [n \in ListNodes |-> NoEntry]
    /\ seenMnb = [n \in ListNodes |-> [b \in Broadcasts |-> Unseen]]
    /\ seenMnp = {} /\ pingers = {} /\ asked = {} /\ offered = {}
    /\ age = [b \in Broadcasts |-> Unsigned] /\ pingAge = PingWindow
    /\ status = "INITIAL" /\ spent = FALSE
    /\ events = 0

Listed(n) == entry[n] # NoEntry
IsEnabled(n) == entry[n].st = "ENABLED"
Up(n) == n # Hot \/ status # "OFF"
Event == events < MaxEvents /\ events' = events + 1
Offers(m, b) == {<<n, m, b>> : n \in ListNodes \ {m}}

\* Mutant: an entry that is not ripe yet is not looked at further.
CheckRipeFirst(e, lockMain) ==
    [e EXCEPT !.st =
        CASE e.st = "VIN_SPENT" -> @
          [] age[e.sig] - e.ping < 1 -> "PRE_ENABLED"
          [] e.ping >= Removal -> "REMOVE"
          [] e.ping >= Expiration -> "EXPIRED"
          [] ~lockMain -> @
          [] OTHER -> IF spent THEN "VIN_SPENT" ELSE "ENABLED"]

\* CMasternode::Check on an entry.
Check(e, lockMain) ==
    [e EXCEPT !.st =
        CASE e.st = "VIN_SPENT" -> @
          [] e.ping >= Removal -> "REMOVE"
          [] e.ping >= Expiration -> "EXPIRED"
          [] age[e.sig] - e.ping < 1 -> "PRE_ENABLED"
          [] ~lockMain -> @
          [] OTHER -> IF spent THEN "VIN_SPENT" ELSE "ENABLED"]

-----------------------------------------------------------------------------
(* Time and the masternode's own thread                                    *)

\* SendMasternodePing on the lists e and s that have aged: the daemon's own
\* entry gets the ping whatever its state.
SendMasternodePing(e, s) ==
    /\ status' = "STARTED"
    /\ entry' = [e EXCEPT ![Hot].ping = 0]
    /\ seenMnb' = [s EXCEPT ![Hot][e[Hot].sig] = IF @ = Unseen THEN @ ELSE 0]
    /\ pingAge' = 0 /\ seenMnp' = {Hot} /\ pingers' = {Hot}

\* ManageStatus.  STOPPED is NOT_CAPABLE once activeMasternode.vin is set,
\* WAITING is NOT_CAPABLE before.
ManageStatus(e, s) ==
    IF \/ status = "STARTED" /\ e[Hot] # NoEntry
       \/ status = "INITIAL" /\ e[Hot].st = "ENABLED"
    THEN SendMasternodePing(e, s)
    ELSE /\ status' = CASE status = "STARTED" -> "STOPPED"
                        [] status = "INITIAL" -> "WAITING"
                        [] OTHER -> status
         /\ entry' = e /\ seenMnb' = s
         /\ pingAge' = Older(pingAge, PingWindow) /\ UNCHANGED <<seenMnp, pingers>>

\* Ten minutes: everything ages, requests for an entry may be repeated, and
\* the masternode's thread runs.
TimePasses ==
    LET aged == [n \in ListNodes |->
                    [entry[n] EXCEPT !.ping = IF Listed(n) THEN Older(@, Removal) ELSE @]]
        seen == [n \in ListNodes |->
                    [b \in Broadcasts |-> Older(seenMnb[n][b], 2 * Removal + 1)]]
    IN /\ age' = [b \in Broadcasts |-> Older(age[b], Removal)]
       /\ asked' = {}
       /\ ManageStatus(aged, seen)
       /\ UNCHANGED <<offered, spent, events>>

-----------------------------------------------------------------------------
(* A list looks after itself                                               *)

CheckEntry(n, lockMain) ==
    /\ Up(n) /\ Listed(n)
    /\ entry' = [entry EXCEPT ![n] = Check(@, lockMain)]
    /\ UNCHANGED <<seenMnb, seenMnp, pingers, asked, offered, age, pingAge,
                   status, spent, events>>

\* CheckAndRemove.  With the entry go the broadcasts seen of it.
Gone(e, forced) == e.st \in {"REMOVE", "VIN_SPENT"} \/ (forced /\ e.st = "EXPIRED")
Unexpired(a) == IF a > 2 * Removal THEN Unseen ELSE a

CheckAndRemoved(n, e, forced) ==
    LET gone == e # NoEntry /\ Gone(e, forced)
    IN /\ entry' = [entry EXCEPT ![n] = IF gone THEN NoEntry ELSE e]
       /\ seenMnb' = [seenMnb EXCEPT ![n] =
                        [b \in Broadcasts |-> IF gone THEN Unseen ELSE Unexpired(@[b])]]
       /\ asked' = IF gone THEN asked \ {n} ELSE asked

CheckAndRemove(n, lockMain) ==
    /\ Up(n)
    /\ CheckAndRemoved(n, IF Listed(n) THEN Check(entry[n], lockMain) ELSE NoEntry, FALSE)
    /\ UNCHANGED <<seenMnp, pingers, offered, age, pingAge, status, spent,
                   events>>

-----------------------------------------------------------------------------
(* Broadcasts                                                              *)

\* UpdateFromNewBroadcast: the entry e gets broadcast b, and its ping of age
\* p unless it came too early after the one e has.
Updated(e, b, p) == [e EXCEPT !.sig = b, !.ping = IF @ - p >= 1 THEN p ELSE @]

\* masternode start: UpdateMasternodeList at Cold, then Relay.
StartMasternode(b) ==
    /\ age[b] = Unsigned /\ \A c \in 1..b - 1 : age[c] # Unsigned
    /\ age' = [age EXCEPT ![b] = 0]
    /\ pingAge' = 0 /\ seenMnp' = {Cold} /\ pingers' = {}
    /\ seenMnb' = [seenMnb EXCEPT ![Cold][b] = 0]
    /\ entry' = [entry EXCEPT ![Cold] =
                    IF Listed(Cold) THEN Updated(@, b, 0)
                    ELSE [sig |-> b, ping |-> 0, st |-> "ENABLED"]]
    /\ offered' = offered \cup Offers(Cold, b)
    /\ IF b = 1 THEN UNCHANGED events ELSE Event
    /\ UNCHANGED <<asked, status, spent>>

\* CMasternodeBroadcast::CheckAndUpdate: whether b with a ping of age p is
\* refused, and the entry after it.
Refused(n, b, p) == p >= PingWindow \/ (Listed(n) /\ entry[n].sig >= b)
Taken(n, b, p, soon, lockMain) ==
    IF IsEnabled(n) /\ ~soon
    THEN Check(Updated(entry[n], b, p), lockMain) ELSE entry[n]

\* Whether the last broadcast is less than MASTERNODE_MIN_MNB_SECONDS old.
SoonAfter(n) == IF Listed(n) /\ age[entry[n].sig] = 0 THEN BOOLEAN ELSE {FALSE}

\* CheckInputsAndAdd, after CheckAndUpdate made e of the entry.  An entry
\* that is not enabled is removed before the lock is tried.
CheckInputsAndAdd(n, m, b, p, e, lockMain) ==
    IF (n = Hot /\ status \in {"STARTED", "STOPPED"}) \/ e.st = "ENABLED"
    THEN /\ entry' = [entry EXCEPT ![n] = e]
         /\ seenMnb' = [seenMnb EXCEPT ![n][b] = p]
         /\ offered' = (offered \ {<<n, m, b>>}) \cup
                       (IF e.st = "ENABLED" /\ e # entry[n] THEN Offers(n, b) ELSE {})
         /\ status' = status
    ELSE IF ~lockMain
    THEN /\ entry' = [entry EXCEPT ![n] = NoEntry]
         /\ offered' = offered \ {<<n, m, b>>}
         /\ UNCHANGED <<seenMnb, status>>
    ELSE IF spent
    THEN /\ entry' = [entry EXCEPT ![n] = NoEntry]
         /\ seenMnb' = [seenMnb EXCEPT ![n][b] = p]
         /\ offered' = offered \ {<<n, m, b>>} /\ status' = status
    ELSE /\ entry' = [entry EXCEPT ![n] = [sig |-> b, ping |-> p, st |-> "ENABLED"]]
         /\ seenMnb' = [seenMnb EXCEPT ![n][b] = p]
         /\ offered' = (offered \ {<<n, m, b>>}) \cup Offers(n, b)
         /\ status' = IF n = Hot THEN "STARTED" ELSE status

\* ProcessMessage, mnb: b is marked as seen before it is looked at.
ReceiveMnb(n, m, b, soon, lockMain) ==
    LET p == seenMnb[m][b]
    IN /\ <<n, m, b>> \in offered /\ Up(n) /\ Up(m)
       /\ IF seenMnb[n][b] # Unseen \/ p = Unseen
          THEN /\ offered' = offered \ {<<n, m, b>>}
               /\ UNCHANGED <<entry, seenMnb, status>>
          ELSE IF Refused(n, b, p)
          THEN /\ offered' = offered \ {<<n, m, b>>}
               /\ seenMnb' = [seenMnb EXCEPT ![n][b] = p]
               /\ UNCHANGED <<entry, status>>
          ELSE CheckInputsAndAdd(n, m, b, p, Taken(n, b, p, soon, lockMain), lockMain)
       /\ UNCHANGED <<seenMnp, pingers, asked, age, pingAge, spent, events>>

\* A broadcast, or the inv of it, is lost.
LoseOffer(o) ==
    /\ offered' = offered \ {o}
    /\ UNCHANGED <<entry, seenMnb, seenMnp, pingers, asked, age, pingAge, status,
                   spent, events>>

-----------------------------------------------------------------------------
(* Pings                                                                   *)

\* AskForMN at n, and dseg at m.
AskForMN(n, m) ==
    LET asks == n \notin asked
        answers == asks /\ IsEnabled(m)
    IN /\ asked' = asked \cup {n}
       /\ offered' = IF answers THEN offered \cup {<<n, m, entry[m].sig>>} ELSE offered
       /\ seenMnb' = IF answers
                     THEN [seenMnb EXCEPT ![m][entry[m].sig] =
                              IF @ = Unseen THEN entry[m].ping ELSE @]
                     ELSE seenMnb

\* ProcessMessage, mnp, with CMasternodePing::CheckAndUpdate: a ping is only
\* taken for an entry that is enabled.
ReceiveMnp(n, m, lockMain) ==
    /\ m \in pingers /\ n \notin seenMnp /\ Up(n) /\ Up(m)
    /\ seenMnp' = seenMnp \cup {n}
    /\ IF pingAge >= PingWindow \/ ~Listed(n)
       THEN AskForMN(n, m) /\ UNCHANGED <<entry, pingers>>
       ELSE IF ~IsEnabled(n) \/ entry[n].ping - pingAge < 1
       THEN UNCHANGED <<entry, pingers, asked, offered, seenMnb>>
       ELSE LET e == Check([entry[n] EXCEPT !.ping = pingAge], lockMain)
            IN /\ entry' = [entry EXCEPT ![n] = e]
               /\ seenMnb' = [seenMnb EXCEPT ![n][e.sig] =
                                IF @ = Unseen THEN @ ELSE pingAge]
               /\ pingers' = IF e.st = "ENABLED" THEN pingers \cup {n} ELSE pingers
               /\ UNCHANGED <<asked, offered>>
    /\ UNCHANGED <<age, pingAge, status, spent, events>>

-----------------------------------------------------------------------------
(* Faults: the daemon stops and starts again, the collateral is spent, or  *)
(* seems to be until a block is disconnected                               *)

StopHot ==
    /\ status # "OFF" /\ Event
    /\ status' = "OFF"
    /\ UNCHANGED <<entry, seenMnb, seenMnp, pingers, asked, offered, age, pingAge,
                   spent>>

\* mncache.dat was written, and CheckAndRemove(true) follows; or it was not.
StartHot(cached) ==
    /\ status = "OFF" /\ status' = "INITIAL"
    /\ IF cached
       THEN \E lockMain \in BOOLEAN :
              CheckAndRemoved(Hot, IF Listed(Hot) THEN Check(entry[Hot], lockMain)
                                   ELSE NoEntry, TRUE)
       ELSE /\ entry' = [entry EXCEPT ![Hot] = NoEntry]
            /\ seenMnb' = [seenMnb EXCEPT ![Hot] = [b \in Broadcasts |-> Unseen]]
            /\ asked' = asked \ {Hot}
    /\ seenMnp' = IF cached THEN seenMnp ELSE seenMnp \ {Hot}
    /\ UNCHANGED <<pingers, offered, age, pingAge, spent, events>>

SpendCollateral ==
    /\ Event /\ spent' = ~spent
    /\ UNCHANGED <<entry, seenMnb, seenMnp, pingers, asked, offered, age, pingAge,
                   status>>

MasternodeListNext ==
    \/ TimePasses
    \/ \E n \in ListNodes, lockMain \in BOOLEAN :
          \/ CheckEntry(n, lockMain) \/ CheckAndRemove(n, lockMain)
          \/ \E m \in ListNodes \ {n} :
                \/ ReceiveMnp(n, m, lockMain)
                \/ \E b \in Broadcasts, soon \in SoonAfter(n) :
                      ReceiveMnb(n, m, b, soon, lockMain)
    \/ \E b \in Broadcasts : StartMasternode(b)
    \/ \E o \in offered : LoseOffer(o)
    \/ StopHot \/ \E cached \in BOOLEAN : StartHot(cached)
    \/ SpendCollateral

MasternodeListSpec == MasternodeListInit /\ [][MasternodeListNext]_mnVars

\* Steps for fairness: n runs CheckAndRemove, takes a ping and a broadcast
\* from m, and gets the lock it tries.
Cleans(n) == CheckAndRemove(n, TRUE)
HearsPing(n, m) == ReceiveMnp(n, m, TRUE)
HearsBroadcast(n, m) ==
    \E b \in Broadcasts, soon \in SoonAfter(n) : ReceiveMnb(n, m, b, soon, TRUE)

-----------------------------------------------------------------------------
\* Types; only a broadcast that was made is ever stored.
MasternodeListTypeOK ==
    /\ \A n \in ListNodes :
          \/ entry[n] = NoEntry
          \/ entry[n] \in [sig : Broadcasts, ping : 0..Removal,
                           st : {"PRE_ENABLED", "ENABLED", "EXPIRED", "REMOVE",
                                 "VIN_SPENT"}]
    /\ seenMnb \in [ListNodes -> [Broadcasts -> {Unseen} \cup 0..2 * Removal + 1]]
    /\ seenMnp \subseteq ListNodes /\ pingers \subseteq ListNodes
    /\ asked \subseteq ListNodes
    /\ offered \subseteq ListNodes \X ListNodes \X Broadcasts
    /\ age \in [Broadcasts -> {Unsigned} \cup 0..Removal]
    /\ pingAge \in 0..PingWindow
    /\ status \in {"INITIAL", "WAITING", "STARTED", "STOPPED", "OFF"}
    /\ spent \in BOOLEAN
    /\ events \in 0..MaxEvents

\* A masternode that keeps pinging is in every list again and again, whatever
\* was lost, refused, or remembered as seen; and one whose collateral is spent
\* leaves every list for good.
ListsFollowMasternode ==
    /\ <>[](status = "STARTED" /\ ~spent) => \A n \in ListNodes : []<>IsEnabled(n)
    /\ <>[]spent => <>[](\A n \in ListNodes : Up(n) => ~IsEnabled(n))
=============================================================================
