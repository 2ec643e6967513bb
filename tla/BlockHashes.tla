---------------------------- MODULE BlockHashes ----------------------------
(***************************************************************************)
(* The hashes that masternodes are ranked by (GetBlockHash, master/node.cpp*)
(* and its copy in max/node.cpp): a walk back from the tip, remembered by  *)
(* height.  Votes, locks and payees of a height are those of the best      *)
(* ranked.  Neither chainActive nor the cache is read under a lock.        *)
(***************************************************************************)
EXTENDS Integers, FiniteSets

CONSTANTS
    HashBlocks,     \* the tree of blocks
    HashBranch,     \* of each block: itself and its ancestors
    HashStart,      \* the tip when the node starts
    AskedHeights    \* heights somebody wants a rank for; 0 is the tip's

HeightOf(b) == Cardinality(HashBranch[b]) - 1

ASSUME HashTree ==
    /\ \A b \in HashBlocks :
          /\ b \in HashBranch[b] /\ HashBranch[b] \subseteq HashBlocks
          /\ IsFiniteSet(HashBranch[b])
          /\ \A h \in 0..HeightOf(b) : \E c \in HashBranch[b] : HeightOf(c) = h
    /\ HashStart \in HashBlocks /\ AskedHeights \subseteq Int

VARIABLES
    hashTip,    \* chainActive.Tip()
    hashes      \* mapCacheBlockHashes

hashVars == <<hashTip, hashes>>

TopHeight == HeightOf(hashTip)

HashInit == hashTip = HashStart /\ hashes = <<>>

\* A block is connected or disconnected; neither touches the cache.
TipChanges(b) ==
    /\ \/ hashTip \in HashBranch[b] /\ HeightOf(b) = TopHeight + 1
       \/ b \in HashBranch[hashTip] /\ HeightOf(b) = TopHeight - 1
    /\ hashTip' = b
    /\ UNCHANGED hashes

\* Height 0 stands for the tip's.  For a height above 0 the walk ends one block
\* below it, for one below 0 at the tip; the first block is never an answer.
Asked(h) == IF h = 0 THEN TopHeight ELSE h
WalkEnd(h) == IF Asked(h) > 0 THEN Asked(h) - 1 ELSE TopHeight
Walked(h) == CHOOSE b \in HashBranch[hashTip] : HeightOf(b) = WalkEnd(h)

\* GetBlockHash fails, and a rank is -1, where the walk does.
GetBlockHash(h) ==
    /\ Asked(h) \notin DOMAIN hashes /\ WalkEnd(h) \in 1..TopHeight
    /\ hashes' = [k \in DOMAIN hashes \cup {Asked(h)} |->
                     IF k \in DOMAIN hashes THEN hashes[k] ELSE Walked(h)]
    /\ UNCHANGED hashTip

HashNext ==
    \/ \E b \in HashBlocks : TipChanges(b)
    \/ \E h \in AskedHeights : GetBlockHash(h)

HashSpec == HashInit /\ [][HashNext]_hashVars

\* Types: every hash that is remembered is that of a block.
HashTypeOK ==
    /\ hashTip \in HashBlocks
    /\ DOMAIN hashes \subseteq Int /\ \A k \in DOMAIN hashes : hashes[k] \in HashBlocks

\* A masternode's score is calculated "depending on how close it's hash is to
\* the proof of work for that block" (node.cpp), deterministically: where a
\* height is that of a block or the next, by the chain as it is now.
ScoresFollowChain ==
    \A h \in DOMAIN hashes \cap 2..TopHeight + 1 : hashes[h] = Walked(h)
=============================================================================
