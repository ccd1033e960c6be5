----------------------------- MODULE ThreadProofs -----------------------------
(***************************************************************************)
(* Theorems about Thread, for every set of notes and payees, any number of *)
(* batons, inputs and transactions.                                        *)
(***************************************************************************)
EXTENDS Thread, FiniteSetTheorems, SequenceTheorems, TLAPS

(***************************************************************************)
(* The invariant: what is on the chain was put there by R.  Every coin of  *)
(* the category is a baton or the NFT of a transcript some tx0 verified;   *)
(* what was paid was verified, and its money went where a note's owner     *)
(* wanted it.                                                              *)
(***************************************************************************)
TranscriptType == [nf : Nullifier, root : Root, ctx : Payee, bad : SUBSET Part]

Shape ==
    /\ d \in DState /\ w \in WState
    /\ Len(d.leaves) = BATCH * w.epoch
    /\ verified \in Seq(TranscriptType)
    /\ paid \in Seq([t : TranscriptType, to : Payee])
    /\ payouts \in Seq(Nullifier) /\ Len(payouts) = Len(paid)
    /\ IsFiniteSet(utxos)

IsVerified(t) == \E i \in DOMAIN verified : verified[i] = t

CoinsOfR ==
    /\ \A i \in DOMAIN verified : 0 \notin verified[i].bad
    /\ \A c \in utxos :
          /\ c.out.lock = "R"
          /\ IsBaton(c.out.token) \/ \E t \in TranscriptType : IsVerified(t) /\ c.out.token = ThreadNft(t)

PaymentsOfOwners ==
    \A i \in DOMAIN paid :
        /\ paid[i].t.bad = {} /\ IsVerified(paid[i].t)
        /\ \E n \in Note \cap Range(d.leaves) : NfOf[n] = payouts[i] /\ PayTo[n] = paid[i].to

ThreadInv == Shape /\ CoinsOfR /\ PaymentsOfOwners

LEMMA InitThreadInv == Init => ThreadInv
  <1> SUFFICES ASSUME Init PROVE ThreadInv
    OBVIOUS
  <1>1. d = EmptyD /\ w = EmptyW /\ payouts = <<>> /\ verified = <<>> /\ paid = <<>>
    BY DEF Init, ThePool!Init, ThePool!EmptyD, ThePool!EmptyW, EmptyD, EmptyW,
           ThePool!Slot, ThePool!Z, Slot, Z
  <1>2. d \in DState /\ w \in WState /\ Len(d.leaves) = BATCH * w.epoch
    BY <1>1, SizeAssumption DEF EmptyD, EmptyW, DState, WState, Root, Z
  <1>3. IsFiniteSet(utxos)
    <2> DEFINE coin == [j \in 1 .. NBATON |-> Coin(<<-1, j>>, Output("R", Baton))]
    <2>1. coin \in Surjection(1 .. NBATON, utxos)
      BY DEF Init, Surjection
    <2>2. IsFiniteSet(1 .. NBATON)
      BY FS_Interval, ThreadAssumption
    <2> QED
      BY <2>1, <2>2, FS_Surjection
  <1>4. \A c \in utxos : c.out = Output("R", Baton)
    BY DEF Init, Coin
  <1>5. Shape
    BY <1>1, <1>2, <1>3 DEF Shape
  <1>6. CoinsOfR
    BY <1>1, <1>4 DEF CoinsOfR, Output, IsBaton, Baton, Nft
  <1>7. PaymentsOfOwners
    BY <1>1 DEF PaymentsOfOwners
  <1> QED
    BY <1>5, <1>6, <1>7 DEF ThreadInv

(***************************************************************************)
(* A verified transcript with no bad part is about a note in the tree.     *)
(***************************************************************************)
LEMMA ProductIsNat ==
  ASSUME NEW x \in Nat, NEW y \in Nat
  PROVE  x * y \in Nat
  OBVIOUS

LEMMA Distributes ==
  ASSUME NEW b \in Nat, NEW e \in Nat, NEW k \in Int
  PROVE  b * k = b * e + b * (k - e)
  OBVIOUS

LEMMA OneMore ==
  ASSUME NEW b \in Nat, NEW e \in Nat
  PROVE  b * (e + 1) = b * e + b
  OBVIOUS

LEMMA TreeGrows ==
  ASSUME NEW s \in Seq(Leaf), NEW q \in Seq(Leaf)
  PROVE  /\ Len(s \o q) = Len(s) + Len(q)
         /\ Range(s) \subseteq Range(s \o q)
  <1>1. /\ DOMAIN s = 1 .. Len(s) /\ Len(s) \in Nat /\ Len(q) \in Nat
        /\ s \o q \in Seq(Leaf) /\ Len(s \o q) = Len(s) + Len(q)
        /\ \A i \in 1 .. Len(s) : (s \o q)[i] = s[i]
    BY ConcatProperties, LenProperties
  <1>2. DOMAIN (s \o q) = 1 .. Len(s) + Len(q)
    BY <1>1, LenProperties
  <1> QED
    BY <1>1, <1>2 DEF Range

LEMMA RootsAreTheTrees ==
  ASSUME Shape, NEW root \in Roots
  PROVE  root \in Root /\ Range(root) \subseteq Range(d.leaves)
  <1>1. PICK e \in 1 .. w.epoch : root = SubSeq(d.leaves, 1, BATCH * e)
    BY DEF Roots
  <1>2. d.leaves \in Seq(Leaf) /\ w.epoch \in Nat /\ Len(d.leaves) = BATCH * w.epoch
    BY DEF Shape, DState, WState
  <1>3. BATCH * e \in Nat /\ BATCH * e <= BATCH * w.epoch
    <2>1. BATCH \in Nat /\ e \in Nat /\ w.epoch - e \in Nat
      BY <1>2, SizeAssumption
    <2>2. BATCH * (w.epoch - e) \in Nat /\ BATCH * e \in Nat
      BY <2>1, ProductIsNat
    <2>3. BATCH * w.epoch = BATCH * e + BATCH * (w.epoch - e)
      BY <1>2, <2>1, Distributes
    <2> QED
      BY <2>2, <2>3
  <1>4. /\ SubSeq(d.leaves, 1, BATCH * e) \in Seq(Leaf)
        /\ Len(SubSeq(d.leaves, 1, BATCH * e)) = BATCH * e
        /\ \A i \in 1 .. BATCH * e : SubSeq(d.leaves, 1, BATCH * e)[i] = d.leaves[i]
    BY <1>2, <1>3, SubSeqProperties
  <1>5. DOMAIN root = 1 .. BATCH * e /\ DOMAIN d.leaves = 1 .. BATCH * w.epoch
    BY <1>1, <1>2, <1>4, LenProperties
  <1> QED
    BY <1>1, <1>2, <1>3, <1>4, <1>5 DEF Range, Root

LEMMA TranscriptsAreTyped ==
  ASSUME Shape, NEW t \in Transcripts
  PROVE  t \in TranscriptType /\ t.root \in Roots /\ Sound(t)
  BY RootsAreTheTrees DEF Transcripts, TranscriptType

\* What tx0 does to the coins: it takes a baton and makes two coins.
LEMMA Tx0Coins ==
  ASSUME Shape, CoinsOfR, NEW t \in Transcripts, Tx0(t)
  PROVE  /\ 0 \notin t.bad /\ verified' = Append(verified, t)
         /\ UNCHANGED <<d, w, dValue, wValue, payouts, paid>>
         /\ \E c, baton, thread :
               /\ c \in utxos /\ IsBaton(c.out.token)
               /\ baton.out.lock = "R" /\ IsBaton(baton.out.token) /\ thread.out = Output("R", ThreadNft(t))
               /\ baton \in utxos' /\ thread \in utxos'
               /\ utxos' \subseteq (utxos \ {c}) \cup {baton, thread}
  <1>1. PICK outs \in [0 .. 2 -> Outputs(t)], ins \in Inputs(t) :
           MintsThread(t, outs) /\ SpendsBaton(ins) /\ Replace(ins, outs)
    BY DEF Tx0
  <1> DEFINE n == Len(verified) + Len(paid)
  <1>2. ins[0] \in utxos /\ IsBaton(ins[0].out.token) /\ ins[0] \in Range(ins)
    <2>1. ins \in [0 .. NCARRIER -> utxos \cup Outside(t)] /\ 0 \in 0 .. NCARRIER
      BY ThreadAssumption DEF Inputs
    <2>2. IsBaton(ins[0].out.token)
      BY <1>1 DEF SpendsBaton
    <2>3. ins[0] \notin Outside(t)
      BY <2>2 DEF Outside, Coin, Output, NoToken, IsBaton, Nft
    <2> QED
      BY <2>1, <2>2, <2>3 DEF Range
  <1>3. /\ outs[0].lock = "R" /\ IsBaton(outs[0].token)
        /\ outs[1] = Output("R", ThreadNft(t)) /\ outs[2].token = NoToken
    BY <1>1 DEF MintsThread
  <1>4. {k \in DOMAIN outs : Carries(outs[k])} = {0, 1}
    BY <1>1, <1>3 DEF Carries, Output, IsBaton, ThreadNft, NoToken, Nft
  <1>5. utxos' = {c \in utxos : c \notin Range(ins)} \cup {Coin(<<n, 0>>, outs[0]), Coin(<<n, 1>>, outs[1])}
    BY <1>1, <1>4 DEF Replace
  <1>6. Coin(<<n, 0>>, outs[0]).out = outs[0] /\ Coin(<<n, 1>>, outs[1]).out = outs[1]
    BY DEF Coin
  <1> DEFINE baton == Coin(<<n, 0>>, outs[0])
             thread == Coin(<<n, 1>>, outs[1])
  <1>7. /\ baton.out.lock = "R" /\ IsBaton(baton.out.token) /\ thread.out = Output("R", ThreadNft(t))
        /\ baton \in utxos' /\ thread \in utxos'
        /\ utxos' \subseteq (utxos \ {ins[0]}) \cup {baton, thread}
    BY <1>2, <1>3, <1>5, <1>6
  <1>8. /\ 0 \notin t.bad /\ verified' = Append(verified, t)
        /\ UNCHANGED <<d, w, dValue, wValue, payouts, paid>>
    BY DEF Tx0, PartPasses, poolVars
  <1> HIDE DEF baton, thread
  <1> QED
    BY <1>2, <1>7, <1>8

\* What tx1 does to the coins: it takes the NFT of its transcript, which some
\* tx0 verified, and makes none.
LEMMA Tx1Coins ==
  ASSUME Shape, CoinsOfR, NEW t \in Transcripts, NEW payee \in Payee, Tx1(t, payee)
  PROVE  /\ IsVerified(t) /\ t.bad = {}
         /\ \E c \in utxos : c.out.token = ThreadNft(t) /\ utxos' \subseteq utxos \ {c}
         /\ \A c \in utxos : c.out.token.cap = "minting" => c \in utxos'
  <1>1. PICK ins \in Inputs(t), outs \in [1 .. 1 -> Outputs(t)] :
           SpendsThread(ins, t) /\ NoTokenOut(outs) /\ Replace(ins, outs)
    BY DEF Tx1
  <1>2. ins[0] \in utxos /\ ins[0].out.token = ThreadNft(t) /\ ins[0] \in Range(ins)
    <2>1. ins \in [0 .. NCARRIER -> utxos \cup Outside(t)] /\ 0 \in 0 .. NCARRIER
      BY ThreadAssumption DEF Inputs
    <2>2. ins[0].out.token = ThreadNft(t)
      BY <1>1 DEF SpendsThread
    <2>3. ins[0] \notin Outside(t)
      BY <2>2 DEF Outside, Coin, Output, NoToken, ThreadNft, Nft
    <2> QED
      BY <2>1, <2>2, <2>3 DEF Range
  <1>3. {k \in DOMAIN outs : Carries(outs[k])} = {}
    BY <1>1 DEF NoTokenOut, Carries, NoToken, Nft
  <1>4. utxos' = {c \in utxos : c \notin Range(ins)}
    BY <1>1, <1>3 DEF Replace
  <1>5. IsVerified(t) /\ 0 \notin t.bad
    <2>1. ~ IsBaton(ins[0].out.token)
      BY <1>2 DEF ThreadNft, IsBaton, Nft
    <2>2. PICK v \in TranscriptType : IsVerified(v) /\ ins[0].out.token = ThreadNft(v)
      BY <1>2, <2>1 DEF CoinsOfR
    <2>3. v = t
      BY <1>2, <2>2 DEF ThreadNft, Nft, Commit
    <2> QED
      BY <2>2, <2>3 DEF CoinsOfR, IsVerified
  <1>6. t.bad = {}
    BY <1>5, TranscriptsAreTyped DEF Tx1, PartPasses, TranscriptType, Part
  <1>7. ASSUME NEW c \in utxos, c.out.token.cap = "minting"
        PROVE  c \notin Range(ins)
    <2>1. SUFFICES ASSUME NEW i \in DOMAIN ins, ins[i] = c PROVE FALSE
      BY DEF Range
    <2>2. CASE i = 0
      BY <1>2, <1>7, <2>1, <2>2 DEF ThreadNft, Nft
    <2>3. CASE i # 0
      <3>1. ins[i].out.token = NoToken
        BY <1>1, <2>1, <2>3 DEF SpendsThread
      <3> QED
        BY <1>7, <2>1, <3>1 DEF NoToken, Nft
    <2> QED
      BY <2>2, <2>3
  <1> QED
    BY <1>2, <1>4, <1>5, <1>6, <1>7

(***************************************************************************)
(* The invariant is kept.                                                  *)
(***************************************************************************)
LEMMA DepositOrFlushKeeps ==
  ASSUME ThreadInv, DepositOrFlush
  PROVE  ThreadInv'
  <1>1. d.leaves \in Seq(Leaf) /\ d.pending \in Seq(Leaf) /\ w \in WState
    BY DEF ThreadInv, Shape, DState
  <1>2. /\ d' \in DState /\ w' \in WState
        /\ Len(d'.leaves) = BATCH * w'.epoch
        /\ Range(d.leaves) \subseteq Range(d'.leaves)
    <2>1. ASSUME NEW C \in Leaf, ThePool!Deposit(C)
          PROVE  d' \in DState /\ d'.leaves = d.leaves /\ w' = w
      <3>1. d' = [pending |-> Append(d.pending, C), leaves |-> d.leaves] /\ w' = w
        BY <2>1 DEF ThePool!Deposit, ThePool!DepositD, ThreadInv, Shape, DState
      <3>2. Append(d.pending, C) \in Seq(Leaf)
        BY <1>1, AppendProperties
      <3> QED
        BY <1>1, <3>1, <3>2 DEF DState
    <2>2. ASSUME ThePool!Flush
          PROVE  /\ d' \in DState /\ d'.leaves = d.leaves \o d.pending /\ Len(d.pending) = BATCH
                 /\ w' \in WState /\ w'.epoch = w.epoch + 1
      <3>1. d' = [pending |-> <<>>, leaves |-> d.leaves \o d.pending] /\ Len(d.pending) = BATCH
        BY <2>2 DEF ThePool!Flush, ThePool!FlushD, ThePool!FlushAllowed
      <3>2. d.leaves \o d.pending \in Seq(Leaf)
        BY <1>1, ConcatProperties
      <3>3. w' = [keys |-> w.keys, epoch |-> w.epoch + 1,
                  slots |-> [w.slots EXCEPT ![w.epoch % RING] = d.leaves \o d.pending]]
        BY <1>1, <2>2, <3>1 DEF ThePool!Flush, ThePool!FlushW, ThePool!FlushD, WState
      <3>4. [w.slots EXCEPT ![w.epoch % RING] = d.leaves \o d.pending] \in [Slot -> Root]
        BY <1>1, <3>2 DEF WState, Root
      <3>5. w.keys \in SUBSET Key /\ w.epoch + 1 \in Nat
        BY <1>1 DEF WState
      <3>6. d' \in DState
        BY <3>1, <3>2 DEF DState
      <3>7. w' \in WState
        BY <3>3, <3>4, <3>5 DEF WState
      <3> QED
        BY <3>1, <3>3, <3>6, <3>7
    <2>3. CASE \E C \in Leaf : ThePool!Deposit(C)
      BY <2>1, <2>3 DEF ThreadInv, Shape
    <2>4. CASE ThePool!Flush
      <3>1. /\ Len(d.leaves \o d.pending) = Len(d.leaves) + Len(d.pending)
            /\ Range(d.leaves) \subseteq Range(d.leaves \o d.pending)
        BY <1>1, TreeGrows
      <3>2. BATCH * (w.epoch + 1) = BATCH * w.epoch + BATCH
        <4>1. w.epoch \in Nat /\ BATCH \in Nat
          BY <1>1, SizeAssumption DEF WState
        <4> QED
          BY <4>1, OneMore
      <3>3. Len(d.leaves) = BATCH * w.epoch
        BY DEF ThreadInv, Shape
      <3> QED
        BY <2>2, <2>4, <3>1, <3>2, <3>3
    <2> QED
      BY <2>3, <2>4 DEF DepositOrFlush
  <1>3. UNCHANGED <<utxos, verified, paid, payouts>>
    BY DEF DepositOrFlush, ThePool!Deposit, ThePool!Flush
  <1>4. Shape'
    BY <1>2, <1>3 DEF ThreadInv, Shape
  <1>5. CoinsOfR'
    BY <1>3 DEF ThreadInv, CoinsOfR, IsVerified
  <1>6. PaymentsOfOwners'
    BY <1>2, <1>3 DEF ThreadInv, PaymentsOfOwners, IsVerified
  <1> QED
    BY <1>4, <1>5, <1>6 DEF ThreadInv

\* Appending to the history keeps what is in it.
LEMMA VerifiedGrows ==
  ASSUME Shape, NEW t \in TranscriptType, verified' = Append(verified, t)
  PROVE  /\ \A v : IsVerified(v) => IsVerified(v)'
         /\ IsVerified(t)'
         /\ DOMAIN verified' = 1 .. Len(verified) + 1 /\ DOMAIN verified = 1 .. Len(verified)
         /\ Len(verified) \in Nat
         /\ \A i \in DOMAIN verified : verified'[i] = verified[i]
         /\ verified'[Len(verified) + 1] = t
         /\ verified' \in Seq(TranscriptType)
  <1>1. /\ Append(verified, t) \in Seq(TranscriptType)
        /\ Len(Append(verified, t)) = Len(verified) + 1
        /\ \A i \in 1 .. Len(verified) : Append(verified, t)[i] = verified[i]
        /\ Append(verified, t)[Len(verified) + 1] = t
    BY AppendProperties DEF Shape
  <1>2. Len(verified) \in Nat /\ DOMAIN verified = 1 .. Len(verified)
    BY LenProperties DEF Shape
  <1>3. DOMAIN verified' = 1 .. Len(verified) + 1
    BY <1>1, LenProperties
  <1> QED
    BY <1>1, <1>2, <1>3 DEF IsVerified

LEMMA Tx0Keeps ==
  ASSUME ThreadInv, NEW t \in Transcripts, Tx0(t)
  PROVE  ThreadInv'
  <1>1. /\ 0 \notin t.bad /\ verified' = Append(verified, t)
        /\ UNCHANGED <<d, w, payouts, paid>>
    BY Tx0Coins DEF ThreadInv
  <1>2. PICK c, baton, thread :
           /\ c \in utxos
           /\ baton.out.lock = "R" /\ IsBaton(baton.out.token) /\ thread.out = Output("R", ThreadNft(t))
           /\ utxos' \subseteq (utxos \ {c}) \cup {baton, thread}
    BY Tx0Coins DEF ThreadInv
  <1>3. t \in TranscriptType
    BY TranscriptsAreTyped DEF ThreadInv
  <1>4. IsFiniteSet(utxos')
    <2>1. IsFiniteSet((utxos \ {c}) \cup {baton, thread})
      <3>1. IsFiniteSet(utxos)
        BY DEF ThreadInv, Shape
      <3>2. IsFiniteSet(utxos \cup {baton})
        BY <3>1, FS_AddElement
      <3>3. IsFiniteSet((utxos \cup {baton}) \cup {thread})
        BY <3>2, FS_AddElement
      <3>4. (utxos \ {c}) \cup {baton, thread} \subseteq (utxos \cup {baton}) \cup {thread}
        OBVIOUS
      <3> QED
        BY <3>3, <3>4, FS_Subset
    <2> QED
      BY <1>2, <2>1, FS_Subset
  <1>5. Shape'
    BY <1>1, <1>3, <1>4, VerifiedGrows DEF ThreadInv, Shape
  <1>6. /\ \A v : IsVerified(v) => IsVerified(v)'
        /\ IsVerified(t)'
        /\ \A i \in DOMAIN verified' : verified'[i] = t \/ (i \in DOMAIN verified /\ verified'[i] = verified[i])
    BY <1>1, <1>3, VerifiedGrows DEF ThreadInv
  <1>7. CoinsOfR'
    <2>1. \A i \in DOMAIN verified' : 0 \notin verified'[i].bad
      BY <1>1, <1>6 DEF ThreadInv, CoinsOfR
    <2>2. ASSUME NEW x \in utxos'
          PROVE  /\ x.out.lock = "R"
                 /\ \/ IsBaton(x.out.token)
                    \/ \E v \in TranscriptType : IsVerified(v)' /\ x.out.token = ThreadNft(v)
      <3>1. CASE x = baton
        BY <1>2, <3>1 DEF Output
      <3>2. CASE x = thread
        BY <1>2, <1>3, <1>6, <3>2 DEF Output
      <3>3. CASE x \in utxos
        BY <1>6, <3>3 DEF ThreadInv, CoinsOfR
      <3> QED
        BY <1>2, <3>1, <3>2, <3>3
    <2> QED
      BY <2>1, <2>2 DEF CoinsOfR
  <1>8. PaymentsOfOwners'
    BY <1>1, <1>6 DEF ThreadInv, PaymentsOfOwners
  <1> QED
    BY <1>5, <1>7, <1>8 DEF ThreadInv

LEMMA Tx1Keeps ==
  ASSUME ThreadInv, NEW t \in Transcripts, NEW payee \in Payee, Tx1(t, payee)
  PROVE  ThreadInv'
  <1>1. IsVerified(t) /\ t.bad = {} /\ utxos' \subseteq utxos
    BY Tx1Coins DEF ThreadInv
  <1>2. t \in TranscriptType /\ t.root \in Roots /\ Sound(t) /\ t.ctx = payee
    BY TranscriptsAreTyped DEF ThreadInv, Tx1, CtxOf
  <1>3. PICK n \in Note \cap Range(d.leaves) : NfOf[n] = t.nf /\ PayTo[n] = payee
    BY <1>1, <1>2, RootsAreTheTrees DEF Sound, ThreadInv
  <1>4. /\ UNCHANGED <<d, dValue, verified>>
        /\ payouts' = Append(payouts, t.nf)
        /\ paid' = Append(paid, [t |-> t, to |-> payee])
    BY DEF Tx1
  <1> DEFINE entry == [t |-> t, to |-> payee]
             Entry == [t : TranscriptType, to : Payee]
  <1>5. /\ payouts \in Seq(Nullifier) /\ paid \in Seq(Entry)
        /\ Len(payouts) = Len(paid) /\ t.nf \in Nullifier /\ entry \in Entry
    BY <1>2 DEF ThreadInv, Shape, TranscriptType
  <1>6. /\ payouts' \in Seq(Nullifier) /\ Len(payouts') = Len(payouts) + 1
        /\ \A i \in 1 .. Len(payouts) : payouts'[i] = payouts[i]
        /\ payouts'[Len(payouts) + 1] = t.nf
    BY <1>4, <1>5, AppendProperties
  <1>7. /\ paid' \in Seq(Entry) /\ Len(paid') = Len(paid) + 1
        /\ \A i \in 1 .. Len(paid) : paid'[i] = paid[i]
        /\ paid'[Len(paid) + 1] = entry
    BY <1>4, <1>5, AppendProperties
  <1>8. Shape'
    <2>1. IsFiniteSet(utxos')
      BY <1>1, FS_Subset DEF ThreadInv, Shape
    <2>2. w' \in WState /\ w'.epoch = w.epoch
      <3>1. w' = [w EXCEPT !.keys = @ \cup {KeyOf[t.nf]}]
        BY DEF Tx1
      <3>2. KeyOf[t.nf] \in Key
        BY <1>5, LeafAssumption
      <3> QED
        BY <3>1, <3>2 DEF ThreadInv, Shape, WState
    <2> QED
      BY <1>4, <1>5, <1>6, <1>7, <2>1, <2>2 DEF ThreadInv, Shape
  <1>9. CoinsOfR'
    BY <1>1, <1>4 DEF ThreadInv, CoinsOfR, IsVerified
  <1>10. PaymentsOfOwners'
    <2> SUFFICES ASSUME NEW i \in DOMAIN paid'
                 PROVE  /\ paid'[i].t.bad = {} /\ IsVerified(paid'[i].t)
                        /\ \E m \in Note \cap Range(d.leaves) :
                              NfOf[m] = payouts'[i] /\ PayTo[m] = paid'[i].to
      BY <1>4 DEF PaymentsOfOwners, IsVerified
    <2>1. i \in 1 .. Len(paid) + 1 /\ Len(paid) \in Nat /\ DOMAIN paid = 1 .. Len(paid)
      BY <1>5, <1>7, LenProperties
    <2>2. CASE i = Len(paid) + 1
      <3>1. paid'[i].t = t /\ paid'[i].to = payee /\ payouts'[i] = t.nf
        BY <1>5, <1>6, <1>7, <2>2
      <3> QED
        BY <1>1, <1>3, <3>1
    <2>3. CASE i \in 1 .. Len(paid)
      <3>1. paid'[i] = paid[i] /\ payouts'[i] = payouts[i]
        BY <1>5, <1>6, <1>7, <2>3
      <3> QED
        BY <2>1, <2>3, <3>1 DEF ThreadInv, PaymentsOfOwners
    <2> QED
      BY <2>1, <2>2, <2>3
  <1> QED
    BY <1>8, <1>9, <1>10 DEF ThreadInv

LEMMA StepKeeps == ThreadInv /\ [Next]_vars => ThreadInv'
  <1> SUFFICES ASSUME ThreadInv, [Next]_vars PROVE ThreadInv'
    OBVIOUS
  <1>1. CASE DepositOrFlush
    BY <1>1, DepositOrFlushKeeps
  <1>2. CASE \E t \in Transcripts : Tx0(t)
    BY <1>2, Tx0Keeps
  <1>3. CASE \E t \in Transcripts, payee \in Payee : Tx1(t, payee)
    BY <1>3, Tx1Keeps
  <1>4. CASE UNCHANGED vars
    BY <1>4 DEF vars, ThreadInv, Shape, CoinsOfR, PaymentsOfOwners, IsVerified
  <1> QED
    BY <1>1, <1>2, <1>3, <1>4 DEF Next

LEMMA Holds == Spec => []ThreadInv
  <1> QED
    BY InitThreadInv, StepKeeps, PTL DEF Spec

\* Soundness of the split: whoever is paid gave a transcript no part of which
\* is bad, its first part checked by a tx0 before.
THEOREM PaidVerified == Spec => []PaidIsVerified
  <1>1. ThreadInv => PaidIsVerified
    BY DEF ThreadInv, PaymentsOfOwners, PaidIsVerified, IsVerified, Range
  <1> QED
    BY <1>1, Holds, PTL

\* No transaction of anybody else's diverts a payment from the outputs its
\* owner proved for, and none is made without such an owner.
THEOREM PaidIntended == Spec => []PaidAsIntended
  <1>1. ThreadInv => PaidAsIntended
    BY DEF ThreadInv, PaymentsOfOwners, PaidAsIntended
  <1> QED
    BY <1>1, Holds, PTL

(***************************************************************************)
(* Batons.                                                                 *)
(***************************************************************************)
LEMMA InitBatons == Init => BatonsKept
  <1> SUFFICES ASSUME Init PROVE BatonsKept
    OBVIOUS
  <1> DEFINE coin == [j \in 1 .. NBATON |-> Coin(<<-1, j>>, Output("R", Baton))]
  <1>1. \A c \in utxos : c.out = Output("R", Baton)
    BY DEF Init, Coin
  <1>2. Batons = utxos
    BY <1>1 DEF Batons, Output, Baton, Nft
  <1>3. coin \in Surjection(1 .. NBATON, utxos)
    BY DEF Init, Surjection
  <1>4. IsFiniteSet(1 .. NBATON) /\ Cardinality(1 .. NBATON) = NBATON /\ 1 \in 1 .. NBATON
    BY FS_Interval, ThreadAssumption
  <1>5. IsFiniteSet(utxos) /\ Cardinality(utxos) <= NBATON
    BY <1>3, <1>4, FS_Surjection
  <1>6. coin[1] \in utxos
    BY <1>4 DEF Init
  <1>7. Cardinality(utxos) \in Nat /\ Cardinality(utxos) # 0
    BY <1>5, <1>6, FS_EmptySet, FS_CardinalityType
  <1>8. Cardinality(Batons) \in 1 .. NBATON
    BY <1>2, <1>5, <1>7, ThreadAssumption
  <1> QED
    BY <1>1, <1>8 DEF BatonsKept, Output

\* Adding one, and taking one away and putting at most one in its place.
LEMMA OneAdded ==
  ASSUME NEW S, IsFiniteSet(S), NEW b
  PROVE  /\ IsFiniteSet(S \cup {b})
         /\ Cardinality(S \cup {b}) \in Nat
         /\ Cardinality(S \cup {b}) <= Cardinality(S) + 1
  <1>1. Cardinality(S) \in Nat
    BY FS_CardinalityType
  <1>2. /\ IsFiniteSet(S \cup {b})
        /\ Cardinality(S \cup {b}) = IF b \in S THEN Cardinality(S) ELSE Cardinality(S) + 1
    BY FS_AddElement
  <1> QED
    BY <1>1, <1>2

LEMMA Replaced ==
  ASSUME NEW S, IsFiniteSet(S), NEW c \in S, NEW b, NEW T, T \subseteq (S \ {c}) \cup {b}
  PROVE  IsFiniteSet(T) /\ Cardinality(T) <= Cardinality(S)
  <1>1. IsFiniteSet(S \ {c}) /\ Cardinality(S \ {c}) = Cardinality(S) - 1 /\ Cardinality(S) \in Nat
    BY FS_RemoveElement, FS_CardinalityType
  <1>2. /\ IsFiniteSet((S \ {c}) \cup {b})
        /\ Cardinality((S \ {c}) \cup {b}) <= Cardinality(S \ {c}) + 1
        /\ Cardinality((S \ {c}) \cup {b}) \in Nat
    BY <1>1, OneAdded
  <1>3. /\ IsFiniteSet(T) /\ Cardinality(T) \in Nat
        /\ Cardinality(T) <= Cardinality((S \ {c}) \cup {b})
    BY <1>2, FS_Subset, FS_CardinalityType
  <1> QED
    BY <1>1, <1>2, <1>3

LEMMA StepBatons == ThreadInv /\ BatonsKept /\ [Next]_vars => BatonsKept'
  <1> SUFFICES ASSUME ThreadInv, BatonsKept, [Next]_vars PROVE BatonsKept'
    OBVIOUS
  <1>1. \A c \in utxos' : c.out.lock = "R"
    BY StepKeeps DEF ThreadInv, CoinsOfR
  <1>2. IsFiniteSet(Batons) /\ Cardinality(Batons) \in 1 .. NBATON
    BY FS_Subset DEF Batons, BatonsKept, ThreadInv, Shape
  <1>3. Cardinality(Batons') \in 1 .. NBATON
    <2>1. ASSUME NEW t \in Transcripts, Tx0(t)
          PROVE  Cardinality(Batons') \in 1 .. NBATON
      <3>1. PICK c, baton, thread :
               /\ c \in utxos
               /\ IsBaton(c.out.token)
               /\ baton.out.lock = "R" /\ IsBaton(baton.out.token) /\ thread.out = Output("R", ThreadNft(t))
               /\ baton \in utxos' /\ utxos' \subseteq (utxos \ {c}) \cup {baton, thread}
        BY <2>1, Tx0Coins DEF ThreadInv
      <3>2. c \in Batons /\ baton \in Batons' /\ thread \notin Batons'
        BY <3>1 DEF Batons, Output, IsBaton, ThreadNft, Nft
      <3>3. Batons' \subseteq (Batons \ {c}) \cup {baton}
        BY <3>1, <3>2 DEF Batons
      <3>4. IsFiniteSet(Batons') /\ Cardinality(Batons') <= Cardinality(Batons)
        BY <1>2, <3>2, <3>3, Replaced
      <3>5. Cardinality(Batons') \in Nat /\ Cardinality(Batons') # 0
        BY <3>2, <3>4, FS_EmptySet, FS_CardinalityType
      <3> QED
        BY <1>2, <3>4, <3>5, ThreadAssumption
    <2>2. ASSUME NEW t \in Transcripts, NEW payee \in Payee, Tx1(t, payee)
          PROVE  Batons' = Batons
      BY <2>2, Tx1Coins DEF ThreadInv, Batons
    <2>3. ASSUME utxos' = utxos
          PROVE  Batons' = Batons
      BY <2>3 DEF Batons
    <2> QED
      BY <1>2, <2>1, <2>2, <2>3 DEF Next, DepositOrFlush, vars
  <1> QED
    BY <1>1, <1>3 DEF BatonsKept

\* The category never leaves R, and some baton is always there to start the
\* next withdrawal with.
THEOREM BatonsAreKept == Spec => []BatonsKept
  <1> QED
    BY InitBatons, StepBatons, Holds, PTL DEF Spec

(***************************************************************************)
(* One payment for each verification.                                      *)
(***************************************************************************)
ThreadsOf(t)  == {c \in Threads : ThreadOf(c) = t}
PaidWith(t)   == {i \in DOMAIN paid : paid[i].t = t}
VerifiedAs(t) == {i \in DOMAIN verified : verified[i] = t}
Counted == \A t : Cardinality(ThreadsOf(t)) + Cardinality(PaidWith(t)) <= Cardinality(VerifiedAs(t))

LEMMA FiniteHistories ==
  ASSUME Shape
  PROVE  \A t : /\ IsFiniteSet(ThreadsOf(t)) /\ Cardinality(ThreadsOf(t)) \in Nat
                /\ IsFiniteSet(PaidWith(t)) /\ Cardinality(PaidWith(t)) \in Nat
                /\ IsFiniteSet(VerifiedAs(t)) /\ Cardinality(VerifiedAs(t)) \in Nat
  <1> TAKE t
  <1>1. DOMAIN paid = 1 .. Len(paid) /\ DOMAIN verified = 1 .. Len(verified)
        /\ Len(paid) \in Nat /\ Len(verified) \in Nat
    BY LenProperties DEF Shape
  <1>2. IsFiniteSet(DOMAIN paid) /\ IsFiniteSet(DOMAIN verified) /\ IsFiniteSet(utxos)
    BY <1>1, FS_Interval DEF Shape
  <1>3. /\ ThreadsOf(t) \subseteq utxos /\ PaidWith(t) \subseteq DOMAIN paid
        /\ VerifiedAs(t) \subseteq DOMAIN verified
    BY DEF ThreadsOf, Threads, PaidWith, VerifiedAs
  <1>4. IsFiniteSet(ThreadsOf(t)) /\ IsFiniteSet(PaidWith(t)) /\ IsFiniteSet(VerifiedAs(t))
    BY <1>2, <1>3, FS_Subset
  <1> QED
    BY <1>4, FS_CardinalityType

LEMMA InitCounted == Init => Counted
  <1> SUFFICES ASSUME Init, NEW t
               PROVE  Cardinality(ThreadsOf(t)) + Cardinality(PaidWith(t)) <= Cardinality(VerifiedAs(t))
    BY DEF Counted
  <1>1. \A c \in utxos : c.out = Output("R", Baton)
    BY DEF Init, Coin
  <1>2. ThreadsOf(t) = {}
    BY <1>1 DEF ThreadsOf, Threads, Batons, Output, Baton, Nft
  <1>3. PaidWith(t) = {} /\ VerifiedAs(t) = {}
    BY DEF Init, PaidWith, VerifiedAs
  <1> QED
    BY <1>2, <1>3, FS_EmptySet

LEMMA Tx0Counted ==
  ASSUME ThreadInv, Counted, NEW t \in Transcripts, Tx0(t)
  PROVE  Counted'
  <1> SUFFICES ASSUME NEW v
               PROVE  Cardinality(ThreadsOf(v)') + Cardinality(PaidWith(v)') <= Cardinality(VerifiedAs(v)')
    BY DEF Counted
  <1>1. PICK c, baton, thread :
           /\ c \in utxos
           /\ baton.out.lock = "R" /\ IsBaton(baton.out.token) /\ thread.out = Output("R", ThreadNft(t))
           /\ utxos' \subseteq (utxos \ {c}) \cup {baton, thread}
    BY Tx0Coins DEF ThreadInv
  <1>2. PaidWith(v)' = PaidWith(v)
    BY Tx0Coins DEF ThreadInv, PaidWith
  <1>3. verified' = Append(verified, t) /\ t \in TranscriptType
    BY Tx0Coins, TranscriptsAreTyped DEF ThreadInv
  <1>4. baton \in Batons' \/ baton \notin utxos'
    BY <1>1 DEF Batons, IsBaton
  <1>5. ThreadsOf(v)' \subseteq ThreadsOf(v) \cup {thread}
    BY <1>1, <1>4 DEF ThreadsOf, Threads, Batons
  <1>6. ThreadOf(thread) = t
    BY <1>1 DEF ThreadOf, Output, ThreadNft, Nft, Commit
  <1>7. /\ IsFiniteSet(ThreadsOf(v)) /\ Cardinality(ThreadsOf(v)) \in Nat
        /\ Cardinality(PaidWith(v)) \in Nat
        /\ IsFiniteSet(VerifiedAs(v)) /\ Cardinality(VerifiedAs(v)) \in Nat
        /\ Cardinality(ThreadsOf(v)) + Cardinality(PaidWith(v)) <= Cardinality(VerifiedAs(v))
    BY FiniteHistories DEF ThreadInv, Counted
  <1>8. /\ DOMAIN verified' = 1 .. Len(verified) + 1 /\ DOMAIN verified = 1 .. Len(verified)
        /\ Len(verified) \in Nat
        /\ \A i \in DOMAIN verified : verified'[i] = verified[i]
        /\ verified'[Len(verified) + 1] = t
    BY <1>3, VerifiedGrows DEF ThreadInv
  <1>9. CASE v = t
    <2>1. VerifiedAs(v)' = VerifiedAs(v) \cup {Len(verified) + 1}
      BY <1>8, <1>9 DEF VerifiedAs
    <2>2. Len(verified) + 1 \notin VerifiedAs(v)
      BY <1>8 DEF VerifiedAs
    <2>3. Cardinality(VerifiedAs(v)') = Cardinality(VerifiedAs(v)) + 1
      BY <1>7, <2>1, <2>2, FS_AddElement
    <2>4. /\ IsFiniteSet(ThreadsOf(v) \cup {thread})
          /\ Cardinality(ThreadsOf(v) \cup {thread}) <= Cardinality(ThreadsOf(v)) + 1
          /\ Cardinality(ThreadsOf(v) \cup {thread}) \in Nat
      BY <1>7, OneAdded
    <2>5. /\ Cardinality(ThreadsOf(v)') <= Cardinality(ThreadsOf(v) \cup {thread})
          /\ Cardinality(ThreadsOf(v)') \in Nat
      BY <1>5, <2>4, FS_Subset, FS_CardinalityType
    <2> QED
      BY <1>2, <1>7, <2>3, <2>4, <2>5
  <1>10. CASE v # t
    <2>1. VerifiedAs(v)' = VerifiedAs(v)
      BY <1>8, <1>10 DEF VerifiedAs
    <2>2. thread \notin ThreadsOf(v)'
      BY <1>6, <1>10 DEF ThreadsOf, ThreadOf
    <2>3. ThreadsOf(v)' \subseteq ThreadsOf(v)
      BY <1>5, <2>2
    <2>4. Cardinality(ThreadsOf(v)') <= Cardinality(ThreadsOf(v)) /\ Cardinality(ThreadsOf(v)') \in Nat
      BY <1>7, <2>3, FS_Subset, FS_CardinalityType
    <2> QED
      BY <1>2, <1>7, <2>1, <2>4
  <1> QED
    BY <1>9, <1>10

LEMMA Tx1Counted ==
  ASSUME ThreadInv, Counted, NEW t \in Transcripts, NEW payee \in Payee, Tx1(t, payee)
  PROVE  Counted'
  <1> SUFFICES ASSUME NEW v
               PROVE  Cardinality(ThreadsOf(v)') + Cardinality(PaidWith(v)') <= Cardinality(VerifiedAs(v)')
    BY DEF Counted
  <1>1. PICK c \in utxos : c.out.token = ThreadNft(t) /\ utxos' \subseteq utxos \ {c}
    BY Tx1Coins DEF ThreadInv
  <1>2. VerifiedAs(v)' = VerifiedAs(v)
    BY DEF Tx1, VerifiedAs
  <1>3. c \in ThreadsOf(t)
    BY <1>1 DEF ThreadsOf, Threads, Batons, ThreadOf, ThreadNft, Nft, Commit
  <1>4. ThreadsOf(v)' \subseteq ThreadsOf(v) \ {c}
    BY <1>1 DEF ThreadsOf, Threads, Batons
  <1>5. /\ IsFiniteSet(ThreadsOf(v)) /\ Cardinality(ThreadsOf(v)) \in Nat
        /\ IsFiniteSet(PaidWith(v)) /\ Cardinality(PaidWith(v)) \in Nat
        /\ Cardinality(VerifiedAs(v)) \in Nat
        /\ Cardinality(ThreadsOf(v)) + Cardinality(PaidWith(v)) <= Cardinality(VerifiedAs(v))
    BY FiniteHistories DEF ThreadInv, Counted
  <1>6. /\ DOMAIN paid' = 1 .. Len(paid) + 1 /\ DOMAIN paid = 1 .. Len(paid) /\ Len(paid) \in Nat
        /\ \A i \in DOMAIN paid : paid'[i] = paid[i]
        /\ paid'[Len(paid) + 1].t = t
    <2> DEFINE entry == [t |-> t, to |-> payee]
               Entry == [t : TranscriptType, to : Payee]
    <2>1. paid \in Seq(Entry) /\ entry \in Entry /\ paid' = Append(paid, entry)
      BY TranscriptsAreTyped DEF ThreadInv, Shape, Tx1
    <2>2. /\ Append(paid, entry) \in Seq(Entry) /\ Len(Append(paid, entry)) = Len(paid) + 1
          /\ \A i \in 1 .. Len(paid) : Append(paid, entry)[i] = paid[i]
          /\ Append(paid, entry)[Len(paid) + 1] = entry
      BY <2>1, AppendProperties
    <2> QED
      BY <2>1, <2>2, LenProperties
  <1>7. CASE v = t
    <2>1. PaidWith(v)' = PaidWith(v) \cup {Len(paid) + 1} /\ Len(paid) + 1 \notin PaidWith(v)
      BY <1>6, <1>7 DEF PaidWith
    <2>2. Cardinality(PaidWith(v)') = Cardinality(PaidWith(v)) + 1
      BY <1>5, <2>1, FS_AddElement
    <2>3. IsFiniteSet(ThreadsOf(v) \ {c}) /\ Cardinality(ThreadsOf(v) \ {c}) = Cardinality(ThreadsOf(v)) - 1
      BY <1>3, <1>5, <1>7, FS_RemoveElement
    <2>4. /\ Cardinality(ThreadsOf(v)') <= Cardinality(ThreadsOf(v) \ {c})
          /\ Cardinality(ThreadsOf(v)') \in Nat
      BY <1>4, <2>3, FS_Subset, FS_CardinalityType
    <2> QED
      BY <1>2, <1>5, <2>2, <2>3, <2>4
  <1>8. CASE v # t
    <2>1. PaidWith(v)' = PaidWith(v)
      BY <1>6, <1>8 DEF PaidWith
    <2>2. ThreadsOf(v)' \subseteq ThreadsOf(v)
      BY <1>4
    <2>3. Cardinality(ThreadsOf(v)') <= Cardinality(ThreadsOf(v)) /\ Cardinality(ThreadsOf(v)') \in Nat
      BY <1>5, <2>2, FS_Subset, FS_CardinalityType
    <2> QED
      BY <1>2, <1>5, <2>1, <2>3
  <1> QED
    BY <1>7, <1>8

LEMMA StepCounted == ThreadInv /\ Counted /\ [Next]_vars => Counted'
  <1> SUFFICES ASSUME ThreadInv, Counted, [Next]_vars PROVE Counted'
    OBVIOUS
  <1>1. CASE UNCHANGED <<utxos, verified, paid>>
    <2>1. \A t : ThreadsOf(t)' = ThreadsOf(t) /\ PaidWith(t)' = PaidWith(t) /\ VerifiedAs(t)' = VerifiedAs(t)
      BY <1>1 DEF ThreadsOf, Threads, Batons, PaidWith, VerifiedAs
    <2> QED
      BY <2>1 DEF Counted
  <1>2. CASE \E t \in Transcripts : Tx0(t)
    BY <1>2, Tx0Counted
  <1>3. CASE \E t \in Transcripts, payee \in Payee : Tx1(t, payee)
    BY <1>3, Tx1Counted
  <1> QED
    BY <1>1, <1>2, <1>3 DEF Next, DepositOrFlush, vars

\* A verification is good for one payment, whoever reorders, repeats or mixes
\* the transactions.
THEOREM OnePaymentPerVerification == Spec => []OneTx1PerTx0
  <1>1. Counted => OneTx1PerTx0
    BY DEF Counted, OneTx1PerTx0, ThreadsOf, PaidWith, VerifiedAs
  <1> QED
    BY <1>1, InitCounted, StepCounted, Holds, PTL DEF Spec

(***************************************************************************)
(* To the pool the two transactions are one withdrawal.                    *)
(***************************************************************************)
LEMMA Tx1Withdraws ==
  ASSUME ThreadInv, NEW t \in Transcripts, NEW payee \in Payee, Tx1(t, payee)
  PROVE  \E n \in Note, s \in ThePool!Slot : ThePool!Withdraw(n, s)
  <1>1. t.bad = {} /\ Sound(t)
    BY Tx1Coins, TranscriptsAreTyped DEF ThreadInv
  <1>2. PICK n \in Note \cap Range(t.root) : NfOf[n] = t.nf
    BY <1>1 DEF Sound
  <1>3. PICK s \in Slot : WAllows(t, s)
    BY DEF Tx1
  <1>4. ThePool!WithdrawAllowed(w, n, s) /\ wValue >= DELTA
    BY <1>2, <1>3 DEF WAllows, ThePool!WithdrawAllowed, ThePool!Z, Z,
           ThePool!Range, Range
  <1>5. /\ w' = ThePool!WithdrawW(w, n) /\ wValue' = wValue - DELTA
        /\ payouts' = Append(payouts, NfOf[n]) /\ UNCHANGED <<d, dValue>>
    BY <1>2 DEF Tx1, ThePool!WithdrawW
  <1>6. s \in ThePool!Slot
    BY DEF ThePool!Slot, Slot
  <1> QED
    BY <1>2, <1>4, <1>5, <1>6 DEF ThePool!Withdraw

\* Every theorem about Pool holds of the chain with its two transactions per
\* withdrawal: they implement Pool.
THEOREM ThreadImplementsPool == Spec => ImplementsPool
  <1>1. Init => ThePool!Init
    BY DEF Init
  <1>2. ASSUME ThreadInv, [Next]_vars
        PROVE  [ThePool!Next]_ThePool!vars
    <2>1. CASE DepositOrFlush
      BY <2>1 DEF DepositOrFlush, ThePool!Next
    <2>2. CASE \E t \in Transcripts : Tx0(t)
      BY <2>2 DEF Tx0, poolVars, ThePool!vars
    <2>3. CASE \E t \in Transcripts, payee \in Payee : Tx1(t, payee)
      BY <1>2, <2>3, Tx1Withdraws DEF ThePool!Next
    <2>4. CASE UNCHANGED vars
      BY <2>4 DEF vars, ThePool!vars
    <2> QED
      BY <1>2, <2>1, <2>2, <2>3, <2>4 DEF Next
  <1> QED
    BY <1>1, <1>2, Holds, PTL DEF Spec, ImplementsPool, ThePool!Spec
===============================================================================
