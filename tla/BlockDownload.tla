--------------------------- MODULE BlockDownload ---------------------------
(***************************************************************************)
(* What the node believes of its peers' chains and which blocks it asked   *)
(* of whom (main.cpp: CNodeState, FindNextBlocksToDownload, SendMessages,  *)
(* and the "inv" and "block" messages).  Everything is guarded by cs_main, *)
(* so one action is one handler.                                           *)
(*                                                                         *)
(* Headers-first synchronisation is switched off in every network of       *)
(* chainparams.cpp: a block enters mapBlockIndex when it arrives, and stays*)
(* there without data when AcceptBlock fails after AcceptBlockHeader.  Work*)
(* is height.  getblocks and getdata are left out: a peer may send any     *)
(* block and announce any block.                                           *)
(***************************************************************************)
EXTENDS Integers, Sequences, SequencesExt, FiniteSets

CONSTANTS
    DlPeers,      \* node ids
    DlBlocks,     \* blocks, Origin the genesis block among them
    Origin,
    Height,       \* height of each block
    Branch,       \* a block and its ancestors
    Nobody, NoBlock,
    MaxInTransit, \* MAX_BLOCKS_IN_TRANSIT_PER_PEER
    Window,       \* BLOCK_DOWNLOAD_WINDOW
    MaxQueued     \* bound on nQueuedValidatedHeaders

ASSUME DownloadLimits == MaxInTransit \in Nat \ {0} /\ Window \in Nat \ {0}
ASSUME QueuedBound == MaxQueued \in Nat \ {0}
ASSUME DownloadTree ==
    /\ IsFiniteSet(DlBlocks) /\ Origin \in DlBlocks /\ Branch[Origin] = {Origin}
    /\ Height \in [DlBlocks -> Nat]
    /\ \A b \in DlBlocks :
          /\ {b, Origin} \subseteq Branch[b] /\ Branch[b] \subseteq DlBlocks
          /\ \A a \in Branch[b] : Height[a] <= Height[b]
          /\ \A h \in 0..Height[b] : \E a \in Branch[b] : Height[a] = h

VARIABLES
    index,        \* mapBlockIndex: absent, header (no data), data, failed
    dlTip,          \* chainActive.Tip()
    peer,         \* mapNodeState; Nobody for a node id not in use
    holder,       \* mapBlocksInFlight: the peer a block was asked of
    nPreferredDownload, nQueuedValidatedHeaders

dlVars == <<index, dlTip, peer, holder, nPreferredDownload, nQueuedValidatedHeaders>>
download == <<peer, holder, nQueuedValidatedHeaders>>

\* CNodeState.  overdue: the oldest request has been in flight for too long;
\* stalling: 0, or since when the peer stalls, 2 being too long.
NewState == [pref |-> FALSE, best |-> NoBlock, unknown |-> NoBlock,
             common |-> NoBlock, flight |-> <<>>, overdue |-> FALSE,
             stalling |-> 0, disconnect |-> FALSE]

PeerStates ==
    [pref : BOOLEAN, best : DlBlocks \cup {NoBlock}, unknown : DlBlocks \cup {NoBlock},
     common : DlBlocks \cup {NoBlock}, flight : Seq(DlBlocks), overdue : BOOLEAN,
     stalling : 0..2, disconnect : BOOLEAN]
ASSUME DownloadNobody ==
    IsFiniteSet(DlPeers) /\ NoBlock \notin DlBlocks /\ Nobody \notin DlPeers \cup PeerStates

BlockDownloadInit ==
    /\ index = [b \in DlBlocks |-> IF b = Origin THEN "data" ELSE "absent"]
    /\ dlTip = Origin
    /\ peer = [p \in DlPeers |-> Nobody]
    /\ holder = [b \in DlBlocks |-> Nobody]
    /\ nPreferredDownload = 0 /\ nQueuedValidatedHeaders = 0

Connected(p) == peer[p] # Nobody
InIndex(b) == index[b] # "absent"
Prev(b) == CHOOSE a \in Branch[b] : Height[a] = Height[b] - 1
HasChainTx(b, idx) == \A a \in Branch[b] : idx[a] = "data"
AtHeight(b, h) == CHOOSE a \in Branch[b] : Height[a] = h
LastCommonAncestor(a, b) ==
    CHOOSE c \in Branch[a] \cap Branch[b] :
        \A d \in Branch[a] \cap Branch[b] : Height[d] <= Height[c]

-----------------------------------------------------------------------------
(* Requests.  d has the fields peer, holder and queued.                     *)

Requests == [peer |-> peer, holder |-> holder, queued |-> nQueuedValidatedHeaders]
SetRequests(d) ==
    peer' = d.peer /\ holder' = d.holder /\ nQueuedValidatedHeaders' = d.queued

\* The entry of the list that mapBlocksInFlight points to is erased.
WithoutBlock(flight, b) == RemoveAt(flight, CHOOSE i \in DOMAIN flight : flight[i] = b)

MarkBlockAsReceived(d, b) ==
    LET p == d.holder[b]
    IN IF p = Nobody THEN d
       ELSE [peer |-> [d.peer EXCEPT ![p].flight = WithoutBlock(@, b), ![p].stalling = 0,
                         ![p].overdue = @ /\ Head(d.peer[p].flight) # b],
             holder |-> [d.holder EXCEPT ![b] = Nobody],
             queued |-> d.queued - 1]

MarkBlockAsInFlight(d, p, b) ==
    LET r == MarkBlockAsReceived(d, b)
    IN [peer |-> [r.peer EXCEPT ![p].flight = Append(@, b)],
        holder |-> [r.holder EXCEPT ![b] = p],
        queued |-> r.queued + 1]

\* ProcessBlockAvailability on the state s of a peer.
ProcessBlockAvailability(s, idx) ==
    IF s.unknown = NoBlock \/ idx[s.unknown] = "absent" THEN s
    ELSE [s EXCEPT !.unknown = NoBlock,
                   !.best = IF @ = NoBlock \/ Height[s.unknown] >= Height[@]
                            THEN s.unknown ELSE @]
UpdateBlockAvailability(s, b) ==
    LET t == ProcessBlockAvailability(s, index)
    IN IF ~InIndex(b) THEN [t EXCEPT !.unknown = b]
       ELSE IF t.best = NoBlock \/ Height[b] >= Height[t.best]
            THEN [t EXCEPT !.best = b] ELSE t

\* One round of FindNextBlocksToDownload's loop, at height h of the peer's
\* chain; end is the window's, count how many blocks may still be asked.
Visit(f, p, b, end, count) ==
    IF f.done \/ index[b] = "failed" THEN [f EXCEPT !.done = TRUE]
    ELSE IF index[b] = "data"
    THEN IF HasChainTx(b, index) THEN [f EXCEPT !.common = b] ELSE f
    ELSE IF holder[b] # Nobody
    THEN IF f.waiting = Nobody THEN [f EXCEPT !.waiting = holder[b]] ELSE f
    ELSE IF Height[b] > end
    THEN [f EXCEPT !.done = TRUE,
                   !.staller = IF f.get = <<>> /\ f.waiting # p THEN f.waiting ELSE @]
    ELSE [f EXCEPT !.get = Append(@, b), !.done = Len(f.get) + 1 = count]

Visits(p, blocks, start, end, count) ==
    LET found[i \in 0..Len(blocks)] ==
            IF i = 0 THEN start ELSE Visit(found[i - 1], p, blocks[i], end, count)
    IN  found

\* FindNextBlocksToDownload for p, whose state s is up to date.
FindNextBlocksToDownload(s, p) ==
    LET guess == IF s.common # NoBlock THEN s.common
                 ELSE IF Height[s.best] <= Height[dlTip] THEN AtHeight(dlTip, Height[s.best])
                 ELSE dlTip
        common == LastCommonAncestor(guess, s.best)
        nothing == [common |-> s.common, get |-> <<>>, waiting |-> Nobody,
                    staller |-> Nobody, done |-> FALSE]
        end == Height[common] + Window
        last == IF Height[s.best] <= end THEN Height[s.best] ELSE end + 1
        walk == [i \in 1..last - Height[common] |-> AtHeight(s.best, Height[common] + i)]
    IN IF s.best = NoBlock THEN nothing
       ELSE IF Height[s.best] < Height[dlTip] THEN nothing
       ELSE Visits(p, walk, [nothing EXCEPT !.common = common], end,
                   MaxInTransit - Len(s.flight))[Len(walk)]

-----------------------------------------------------------------------------
(* SendMessages                                                            *)

FetchesFrom(p) == peer[p].pref \/ nPreferredDownload = 0

\* Mutant: only a peer that stalls is given up.
GiveUpStalling(p) ==
    /\ Connected(p) /\ ~peer[p].disconnect
    /\ peer[p].stalling = 2
    /\ peer' = [peer EXCEPT ![p].disconnect = TRUE]
    /\ UNCHANGED <<index, dlTip, holder, nPreferredDownload, nQueuedValidatedHeaders>>

\* The stalling and the timeout, which disconnect the peer.
GiveUp(p) ==
    /\ Connected(p) /\ ~peer[p].disconnect
    /\ peer[p].stalling = 2 \/ (peer[p].flight # <<>> /\ peer[p].overdue)
    /\ peer' = [peer EXCEPT ![p].disconnect = TRUE]
    /\ UNCHANGED <<index, dlTip, holder, nPreferredDownload, nQueuedValidatedHeaders>>

Requested(d, p, blocks) ==
    LET after[i \in 0..Len(blocks)] ==
            IF i = 0 THEN d ELSE MarkBlockAsInFlight(after[i - 1], p, blocks[i])
    IN  after

\* The getdata for blocks.
RequestBlocks(p) ==
    /\ Connected(p) /\ ~peer[p].disconnect /\ FetchesFrom(p)
    /\ peer[p].stalling # 2 /\ ~peer[p].overdue
    /\ Len(peer[p].flight) < MaxInTransit
    /\ LET s == ProcessBlockAvailability(peer[p], index)
           found == FindNextBlocksToDownload(s, p)
           asking == [Requests EXCEPT !.peer[p] = [s EXCEPT !.common = found.common]]
           d == Requested(asking, p, found.get)[Len(found.get)]
       IN SetRequests(IF d.peer[p].flight = <<>> /\ found.staller # Nobody
                      THEN [d EXCEPT !.peer[found.staller].stalling =
                               IF @ = 0 THEN 1 ELSE @]
                      ELSE d)
    /\ download' # download /\ nQueuedValidatedHeaders' <= MaxQueued
    /\ UNCHANGED <<index, dlTip, nPreferredDownload>>

-----------------------------------------------------------------------------
(* Messages                                                                *)

\* "inv" of a block.
Announce(p, b) ==
    /\ Connected(p)
    /\ peer' = [peer EXCEPT ![p] = UpdateBlockAvailability(@, b)]
    /\ UNCHANGED <<index, dlTip, holder, nPreferredDownload, nQueuedValidatedHeaders>>

\* The best chain after the index became idx.
Tips(idx) ==
    LET linked == {b \in DlBlocks : HasChainTx(b, idx)}
    IN {b \in linked : \A c \in linked : Height[c] <= Height[b]}
NextTip(idx) == IF dlTip \in Tips(idx) THEN dlTip ELSE CHOOSE b \in Tips(idx) : TRUE

\* ProcessNewBlock, by what AcceptBlock and CheckBlock make of the block.
ProcessNewBlock(b, outcome) ==
    /\ SetRequests(MarkBlockAsReceived(Requests, b))
    /\ index' = [index EXCEPT ![b] = outcome]
    /\ dlTip' = NextTip(index')
    /\ UNCHANGED nPreferredDownload

\* "block": one whose parent is unknown is answered by getblocks, one that is
\* in the index is skipped, with or without data.
ReceiveBlock(p, b, outcome) ==
    /\ Connected(p) /\ ~InIndex(b) /\ InIndex(Prev(b))
    /\ index[Prev(b)] = "failed" => outcome = "absent"
    /\ ProcessNewBlock(b, outcome)

\* submitblock: a block comes from the user and is stored after all.
SubmitBlock(b) == index[b] = "header" /\ ProcessNewBlock(b, "data")

-----------------------------------------------------------------------------
(* Connections and time                                                    *)

\* InitializeNode, and UpdatePreferredDownload when its version comes.
Connect(p, pref) ==
    /\ ~Connected(p)
    /\ peer' = [peer EXCEPT ![p] = [NewState EXCEPT !.pref = pref]]
    /\ nPreferredDownload' = nPreferredDownload + (IF pref THEN 1 ELSE 0)
    /\ UNCHANGED <<index, dlTip, holder, nQueuedValidatedHeaders>>

Hangup(p) ==
    /\ Connected(p) /\ ~peer[p].disconnect
    /\ peer' = [peer EXCEPT ![p].disconnect = TRUE]
    /\ UNCHANGED <<index, dlTip, holder, nPreferredDownload, nQueuedValidatedHeaders>>

\* Mutant: the blocks that were in flight stay so.
FinalizeForgetful(p) ==
    /\ Connected(p) /\ peer[p].disconnect
    /\ peer' = [peer EXCEPT ![p] = Nobody]
    /\ nPreferredDownload' = nPreferredDownload - (IF peer[p].pref THEN 1 ELSE 0)
    /\ UNCHANGED <<index, dlTip, holder, nQueuedValidatedHeaders>>

\* Mutant: every peer that goes was a preferred one.
FinalizeAlwaysPreferred(p) ==
    /\ Connected(p) /\ peer[p].disconnect
    /\ holder' = [b \in DlBlocks |-> IF Contains(peer[p].flight, b) THEN Nobody
                                     ELSE holder[b]]
    /\ peer' = [peer EXCEPT ![p] = Nobody]
    /\ nPreferredDownload' = nPreferredDownload - 1
    /\ UNCHANGED <<index, dlTip, nQueuedValidatedHeaders>>

\* FinalizeNode.  nQueuedValidatedHeaders is not touched.
FinalizeNode(p) ==
    /\ Connected(p) /\ peer[p].disconnect
    /\ holder' = [b \in DlBlocks |-> IF Contains(peer[p].flight, b) THEN Nobody
                                     ELSE holder[b]]
    /\ peer' = [peer EXCEPT ![p] = Nobody]
    /\ nPreferredDownload' = nPreferredDownload - (IF peer[p].pref THEN 1 ELSE 0)
    /\ UNCHANGED <<index, dlTip, nQueuedValidatedHeaders>>

Overdue(p) ==
    /\ Connected(p)
    /\ \/ /\ peer[p].flight # <<>> /\ ~peer[p].overdue
          /\ peer' = [peer EXCEPT ![p].overdue = TRUE]
       \/ /\ peer[p].stalling = 1
          /\ peer' = [peer EXCEPT ![p].stalling = 2]
    /\ UNCHANGED <<index, dlTip, holder, nPreferredDownload, nQueuedValidatedHeaders>>

BlockDownloadNext ==
    \/ \E p \in DlPeers :
          \/ GiveUp(p) \/ RequestBlocks(p)
          \/ Hangup(p) \/ FinalizeNode(p) \/ Overdue(p)
          \/ \E pref \in BOOLEAN : Connect(p, pref)
          \/ \E b \in DlBlocks : Announce(p, b)
          \/ \E b \in DlBlocks \ {Origin}, outcome \in {"absent", "header", "data", "failed"} :
                ReceiveBlock(p, b, outcome)
    \/ \E b \in DlBlocks : SubmitBlock(b)

BlockDownloadSpec == BlockDownloadInit /\ [][BlockDownloadNext]_dlVars

-----------------------------------------------------------------------------
\* Types of the variables.
BlockDownloadTypeOK ==
    /\ index \in [DlBlocks -> {"absent", "header", "data", "failed"}]
    /\ dlTip \in DlBlocks
    /\ holder \in [DlBlocks -> DlPeers \cup {Nobody}]
    /\ nPreferredDownload \in Nat
    /\ \A p \in DlPeers : Connected(p) =>
          /\ peer[p].best \in DlBlocks \cup {NoBlock}
          /\ peer[p].unknown \in DlBlocks \cup {NoBlock}
          /\ peer[p].common \in DlBlocks \cup {NoBlock}
          /\ peer[p].flight \in Seq(DlBlocks) /\ Len(peer[p].flight) <= MaxInTransit

\* mapBlocksInFlight and the peers' lists are two views of the same requests:
\* the peer a block is held by is there (State(staller) is not NULL) and has
\* the block in its list once, whatever disconnected, timed out or arrived from
\* elsewhere; and the count of preferred peers, which decides whom to ask, is exact.
RequestsAgree ==
    /\ \A b \in DlBlocks, p \in DlPeers :
          holder[b] = p <=> Connected(p) /\ Contains(peer[p].flight, b)
    /\ \A p \in DlPeers : Connected(p) => IsInjective(peer[p].flight)
    /\ nPreferredDownload = Cardinality({p \in DlPeers : Connected(p) /\ peer[p].pref})

\* No block stays in flight for ever: it arrives, or the peer is given up and
\* the block may be asked of another one.
RequestsEnd ==
    \A b \in DlBlocks \ {Origin} : []<>(holder[b] = Nobody)

\* nQueuedValidatedHeaders is what its comment says, the number of blocks in
\* flight with validated headers.
QueuedCountExact ==
    nQueuedValidatedHeaders =
        Cardinality({b \in DlBlocks : holder[b] # Nobody})
=============================================================================
