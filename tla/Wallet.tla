------------------------------- MODULE Wallet -------------------------------
(***************************************************************************)
(* The wallet's transactions (wallet.cpp) beside the chain and the memory  *)
(* pool of Mempool: what the signals of main.cpp tell it, which coins it   *)
(* offers for spending and counts in its balance, and how wallet.dat is    *)
(* brought up to date with the chain that a restart finds on disk.         *)
(*                                                                         *)
(* cs_main and cs_wallet are held in each action.  wallet.dat is written   *)
(* with mapWallet, so that it needs no variable but its best block.  Keys  *)
(* do not change; amounts, confirmations asked for, coins locked by hand,  *)
(* SwiftTX's say in the depth, and what is only displayed are left out.    *)
(***************************************************************************)
EXTENDS Mempool

CONSTANTS
    Mine,         \* the outpoints that pay to a key of the wallet
    PayTxs,     \* what CreateTransaction may come up with
    TxOrder,      \* the transactions in the order of their hashes
    AutoMint,     \* isZeromintEnabled: UpdateTip calls AutoZeromint
    MaxReloads

NullHash == "nullhash"    \* hashBlock of a transaction that was in no block

ASSUME WalletNumbers == AutoMint \in BOOLEAN /\ MaxReloads \in Nat
\* CreateTransaction spends something and signs it.
ASSUME WalletTransactions ==
    /\ Mine \subseteq Outpoints /\ TxOrder \in Seq(PoolTxs)
    /\ PayTxs \subseteq PoolTxs \ (Minted \cup ZSpends \cup BadScript)
\* No chain has a block twice, nor a transaction without inputs: a coinbase
\* begins with its height, a zerocoin spend has its serial.
Branch(c) ==
    c[1] = FirstBlock /\ \A i \in 2..Len(c) : c[i] # FirstBlock /\ BlockBefore[c[i]] = c[i - 1]
NothingTwice(c) ==
    \A h, k \in 1..Len(c) :
        \/ h = k
        \/ /\ c[h] # c[k]
           /\ \A t \in PoolTxs : Spends[t] = {} =>
                 ~(Contains(Contents[c[h]], t) /\ Contains(Contents[c[k]], t))
ASSUME WalletBlocks ==
    /\ IsFiniteSet(PoolBlocks) /\ NullHash \notin PoolBlocks
    /\ \A n \in 1..Cardinality(PoolBlocks) + 1 : \A c \in [1..n -> PoolBlocks] :
          Branch(c) => n <= Cardinality(PoolBlocks) /\ NothingTwice(c)

VARIABLES
    mapWallet,    \* known transactions: hashBlock, and the cached available
                  \*   credit as the outpoints it counts
    walletBest,   \* the locator in wallet.dat, as the chain it was made of
    flushed,      \* the chain whose coins are on disk
    up,           \* whether the process runs
    reloads

walletVars == <<mapWallet, walletBest, flushed, up, reloads>>

Stale == {<<"stale", 0>>}    \* fAvailableCreditCached is not set

-----------------------------------------------------------------------------
(* What the wallet is told.  w is a mapWallet.                             *)

\* IsMine or IsFromMe, or known already.
Involves(w, t) ==
    t \in DOMAIN w \/ Makes[t] \cap Mine # {}
    \/ \E o \in Spends[t] \cap Mine : o[1] \in DOMAIN w

AddToWallet(w, t, hash) ==
    [u \in DOMAIN w \cup {t} |->
        IF u = t
        THEN [hashBlock |-> IF hash = NullHash /\ t \in DOMAIN w THEN w[t].hashBlock ELSE hash,
              credit |-> Stale]
        ELSE w[u]]

MarkDirty(w, txs) ==
    [u \in DOMAIN w |-> IF u \in txs THEN [w[u] EXCEPT !.credit = Stale] ELSE w[u]]

\* Mutant: the transactions whose outputs are spent keep their cached credit.
SyncAlone(w, t, hash) == IF Involves(w, t) THEN AddToWallet(w, t, hash) ELSE w

SyncTransaction(w, t, hash) ==
    IF Involves(w, t)
    THEN MarkDirty(AddToWallet(w, t, hash), IF t \in ZSpends THEN {} ELSE Parents(t))
    ELSE w
Syncs(w, txs, hash) ==
    LET after[i \in 0..Len(txs)] ==
            IF i = 0 THEN w ELSE SyncTransaction(after[i - 1], txs[i], hash)
    IN  after
SyncAll(w, txs, hash) == Syncs(w, txs, hash)[Len(txs)]

\* Before the start; wallet.dat has been told of the chain so far.
WalletInit ==
    /\ mapWallet = SyncAll(<<>>, Contents[FirstBlock], FirstBlock)
    /\ walletBest = chain /\ flushed = chain
    /\ up = FALSE /\ reloads = 0

-----------------------------------------------------------------------------
(* Depth, and what follows from it                                         *)

\* GetDepthInMainChain: -1 if neither in the chain nor in the pool.
Depth(w, blocks, txs, t) ==
    IF Contains(blocks, w[t].hashBlock)
    THEN Len(blocks) + 1 - (CHOOSE h \in DOMAIN blocks : blocks[h] = w[t].hashBlock)
    ELSE IF t \in txs THEN 0 ELSE -1

\* Mutant: what only a transaction of the pool spends is not spent.
SpentInChain(w, blocks, txs, o) ==
    \E t \in DOMAIN w : o \in Spends[t] /\ Depth(w, blocks, txs, t) > 0

IsSpent(w, blocks, txs, o) ==
    \E t \in DOMAIN w : o \in Spends[t] /\ Depth(w, blocks, txs, t) >= 0

IsTrusted(w, blocks, txs, t) ==
    LET depth == Depth(w, blocks, txs, t)
    IN \/ depth >= 1
       \/ /\ depth = 0
          /\ Spends[t] # {} /\ Spends[t] \subseteq Mine /\ Parents(t) \subseteq DOMAIN w

Immature(w, blocks, txs, t) ==
    t \in Minted /\ Depth(w, blocks, txs, t) < CoinMaturity + 1

\* AvailableCoins, confirmed ones only.
AvailableCoins(w, blocks, txs) ==
    {o \in Mine : /\ o[1] \in DOMAIN w
                  /\ IsTrusted(w, blocks, txs, o[1]) /\ ~Immature(w, blocks, txs, o[1])
                  /\ ~IsSpent(w, blocks, txs, o)}

\* GetBalance: each trusted transaction counts what it has cached, or computes
\* it.  An immature coinbase counts nothing, an immature coinstake does.
Counted(w, blocks, txs) ==
    {t \in DOMAIN w : /\ IsTrusted(w, blocks, txs, t)
                      /\ ~(Spends[t] = {} /\ Immature(w, blocks, txs, t))}
GetBalance(w, blocks, txs) ==
    LET counted == Counted(w, blocks, txs)
    IN [t \in DOMAIN w |->
           IF t \in counted /\ w[t].credit = Stale
           THEN [w[t] EXCEPT !.credit = {o \in Makes[t] \cap Mine : ~IsSpent(w, blocks, txs, o)}]
           ELSE w[t]]

\* CommitTransaction of t: recorded, and then offered to the pool.
CommitTransaction(t, w, blocks, p) ==
    [wallet |-> MarkDirty(AddToWallet(w, t, NullHash), Parents(t)),
     pool |-> IF Verdict(blocks, p, t, {}) = "accepted" THEN AddUnchecked(p, t) ELSE p]

\* CreateTransaction takes coins that are available.
Payable(w, blocks, txs) ==
    {t \in PayTxs \ DOMAIN w : Spends[t] \subseteq AvailableCoins(w, blocks, txs)}

\* AutoZeromint, which UpdateTip calls before the wallet is told of the block:
\* too early, or too little to mint; or MintZerocoin, which reads the balance.
AfterUpdateTip(w, blocks, p) ==
    LET counted == GetBalance(w, blocks, p.pool)
        minted == {[wallet |-> counted, pool |-> p]}
                  \cup {CommitTransaction(t, counted, blocks, p) :
                           t \in Payable(counted, blocks, p.pool)}
    IN {[wallet |-> w, pool |-> p]} \cup (IF AutoMint THEN minted ELSE {})

-----------------------------------------------------------------------------
(* Actions                                                                 *)

SetBoth(w, p) == mapWallet' = w /\ SetPool(p) /\ UNCHANGED <<orphan, byPrev, work>>

\* AcceptToMemoryPool of a transaction from a peer; a refusal changes nothing,
\* nor does, for the wallet, one that does not involve it.
WalletAccepts(t) ==
    /\ ~work.busy /\ Involves(mapWallet, t)
    /\ Verdict(chain, ThePool, t, {}) = "accepted"
    /\ SetPool(AddUnchecked(ThePool, t))
    /\ mapWallet' = SyncTransaction(mapWallet, t, NullHash)
    /\ UNCHANGED <<chain, orphan, byPrev, work, walletBest, flushed, up, reloads>>

Pay(t) ==
    /\ ~work.busy /\ t \in Payable(mapWallet, chain, pool)
    /\ LET r == CommitTransaction(t, mapWallet, chain, ThePool)
       IN SetBoth(r.wallet, r.pool)
    /\ UNCHANGED <<chain, walletBest, flushed, up, reloads>>

ReadBalance ==
    /\ ~work.busy
    /\ mapWallet' = GetBalance(mapWallet, chain, pool)
    /\ UNCHANGED <<poolVars, walletBest, flushed, up, reloads>>

\* The transactions that lose to the block, in any order.
Lost(b) == SetToSeq(pool \ (RemoveForBlock(ThePool, Contents[b]).pool \cup Range(Contents[b])))

\* ConnectTip.  Its own flush, needed or forced, comes before UpdateTip: the
\* locator that a forced one gives the wallet is of the chain without the block.
WalletConnectTip(b) ==
    /\ CanConnect(b)
    /\ chain' = Append(chain, b)
    /\ \E r \in AfterUpdateTip(mapWallet, Append(chain, b), RemoveForBlock(ThePool, Contents[b])) :
          SetBoth(SyncAll(SyncAll(r.wallet, Lost(b), NullHash), Contents[b], b), r.pool)
    /\ \/ UNCHANGED <<flushed, walletBest>>
       \/ flushed' = chain' /\ walletBest' \in {walletBest, chain}
    /\ UNCHANGED <<up, reloads>>

\* DisconnectTip always flushes, with the locator of the chain as it was.
WalletDisconnectTip(policy) ==
    /\ CanDisconnect
    /\ chain' = Front(chain)
    /\ \E r \in AfterUpdateTip(mapWallet, Front(chain), PoolWithoutTip(policy)) :
          SetBoth(SyncAll(r.wallet, Contents[Tip], NullHash), r.pool)
    /\ flushed' = Front(chain) /\ walletBest' = chain
    /\ UNCHANGED <<up, reloads>>

\* FlushStateToDisk, periodic.
WalletFlush ==
    /\ flushed # chain \/ walletBest # chain
    /\ flushed' = chain /\ walletBest' = chain
    /\ UNCHANGED <<poolVars, mapWallet, up, reloads>>

\* A lock takes what it conflicts with out of the pool and tells nobody.
WalletLock(t) == LockTransaction(t) /\ UNCHANGED walletVars

\* The process dies: between calls; in DisconnectTip after its flush; in
\* ConnectTip after its flush, or without one amid the signals, of which the
\* first k have been written.  (What is written after a flush is scanned again.)
ProcessDies(w, disk, best) ==
    /\ reloads < MaxReloads /\ reloads' = reloads + 1 /\ up' = FALSE
    /\ chain' = disk /\ flushed' = disk /\ walletBest' = best
    /\ mapWallet' = MarkDirty(w, DOMAIN w)
    /\ pool' = {} /\ nextTx' = [o \in Outpoints |-> NoTransaction]
    /\ orphan' = [t \in PoolTxs |-> NoTransaction] /\ byPrev' = [t \in PoolTxs |-> {}]
    /\ work' = Idle

DiesBetweenCalls == ProcessDies(mapWallet, flushed, walletBest)
DiesDisconnecting == CanDisconnect /\ ProcessDies(mapWallet, Front(chain), chain)
DiesConnecting(b) ==
    /\ CanConnect(b)
    /\ \/ \E best \in {walletBest, chain} : ProcessDies(mapWallet, Append(chain, b), best)
       \/ \E k \in 1..Len(Contents[b]) :
             ProcessDies(SyncAll(mapWallet, SubSeq(Contents[b], 1, k), b), flushed, walletBest)

\* AppInit2 with disk, best and w in the files: ScanForWalletTransactions from
\* the last block of the chain that the locator has, unless that is the tip,
\* and ReacceptWalletTransactions by hash.
ScanStart(disk, best) ==
    LET fork == Max({h \in DOMAIN disk : disk[h] \in Range(best)})
    IN IF fork = Len(disk) THEN fork + 1 ELSE fork
Rescans(w, disk, from) ==
    LET after[h \in 0..Len(disk)] ==
            IF h < from THEN w ELSE SyncAll(after[h - 1], Contents[disk[h]], disk[h])
    IN  after
Rescanned(w, disk, best) == Rescans(w, disk, ScanStart(disk, best))[Len(disk)]

Reaccept(s, disk, t, policy) ==
    IF /\ t \in DOMAIN s.wallet \ Minted /\ Depth(s.wallet, disk, s.pool.pool, t) < 0
       /\ Verdict(disk, s.pool, t, policy) = "accepted"
    THEN [pool |-> AddUnchecked(s.pool, t), wallet |-> SyncTransaction(s.wallet, t, NullHash)]
    ELSE s
Reaccepts(s, disk, policy) ==
    LET after[i \in 0..Len(TxOrder)] ==
            IF i = 0 THEN s ELSE Reaccept(after[i - 1], disk, TxOrder[i], policy)
    IN  after
Reaccepted(w, disk, policy) ==
    Reaccepts([pool |-> ThePool, wallet |-> w], disk, policy)[Len(TxOrder)]

Restart(policy) ==
    /\ ~up /\ up' = TRUE
    /\ LET r == Reaccepted(Rescanned(mapWallet, chain, walletBest), chain, policy)
       IN SetPool(r.pool) /\ mapWallet' = r.wallet
    /\ walletBest' = IF Tip \in Range(walletBest) THEN walletBest ELSE chain
    /\ UNCHANGED <<chain, orphan, byPrev, work, flushed, reloads>>

WalletNext ==
    \/ /\ up
       /\ \/ \E t \in PoolTxs : WalletAccepts(t) \/ Pay(t) \/ WalletLock(t)
          \/ \E b \in PoolBlocks : WalletConnectTip(b) \/ DiesConnecting(b)
          \/ \E policy \in Policies : WalletDisconnectTip(policy)
          \/ ReadBalance \/ WalletFlush \/ DiesBetweenCalls \/ DiesDisconnecting
    \/ \E policy \in Policies : Restart(policy)

WalletSpec == MempoolInit /\ WalletInit /\ [][WalletNext]_<<poolVars, walletVars>>

-----------------------------------------------------------------------------
\* Types.
WalletTypeOK ==
    /\ DOMAIN mapWallet \subseteq PoolTxs
    /\ \A t \in DOMAIN mapWallet :
          /\ mapWallet[t].hashBlock \in PoolBlocks \cup {NullHash}
          /\ mapWallet[t].credit = Stale \/ mapWallet[t].credit \subseteq Mine
    /\ walletBest \in Seq(PoolBlocks) /\ flushed \in Seq(PoolBlocks)
    /\ up \in BOOLEAN /\ reloads \in 0..MaxReloads

\* The coins there are: of the chain or the pool, and not spent in either.
IsUnspent(o) ==
    /\ Available(chain, o) \/ o[1] \in pool
    /\ nextTx[o] = NoTransaction

\* "Outpoint is spent if any non-conflicted transaction spends it": through
\* reorganisations, locks, crashes and rescans, what the wallet offers, and what
\* it has counted in a balance that still stands, is unspent; and what
\* the chain has of its transactions it has too, with the block they are in.
WalletFollowsChain ==
    /\ up => \A o \in AvailableCoins(mapWallet, chain, pool) : IsUnspent(o)
    /\ up => \A t \in Counted(mapWallet, chain, pool) :
          mapWallet[t].credit # Stale => \A o \in mapWallet[t].credit : IsUnspent(o)
    /\ up => \A h \in DOMAIN chain : \A t \in Range(Contents[chain[h]]) :
          Involves(mapWallet, t) =>
              t \in DOMAIN mapWallet /\ mapWallet[t].hashBlock = chain[h]

\* "This must not fail. The transaction has already been signed and recorded."
\* (CommitTransaction): between calls the pool accepts what is made of the coins
\* that are available.
CommitsSucceed ==
    up /\ ~work.busy =>
        \A t \in Payable(mapWallet, chain, pool) : Verdict(chain, ThePool, t, {}) = "accepted"
=============================================================================
