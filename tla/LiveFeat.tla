------------------------------ MODULE LiveFeat ------------------------------
(***************************************************************************)
(* Dynamic features from a stream of cepstra: feat_s2mfc2feat_live() of    *)
(* sphinxbase's feat.c.  A feature frame is computed from the cepstra of   *)
(* Win frames on each side of it, so the stream goes through a circular    *)
(* buffer, the first frame is repeated before the utterance and the last   *)
(* one after it.  The arithmetic of a feature is left out: a feature is    *)
(* the sequence of the 2 * Win + 1 cepstra it is computed from.            *)
(*                                                                         *)
(* fcb is the record of what feat_t keeps between calls.  The operators    *)
(* return a new one, because acmod_process_cep() calls them twice in a     *)
(* step.                                                                   *)
(***************************************************************************)
EXTENDS Integers, Sequences

CONSTANTS
    Win,        \* feat_window_size()
    BlockSize,  \* LIVEBUFBLOCKSIZE
    NoCep       \* what the buffer holds before anything was written

ASSUME WinAssumption == Win \in Nat \ {0}
\* 256 slots, and windows of at most 4 cepstra for the features that have a name.
\* With too few slots LiveBlock could overwrite the cepstra a feature looks back to:
\* it leaves only Win of them.
ASSUME BlockSizeAssumption == BlockSize \in Nat /\ BlockSize > 5 * Win

FcbInit == [cepbuf |-> [p \in 0 .. BlockSize - 1 |-> NoCep], bufpos |-> 0, curpos |-> 0]

\* Copies of one cepstrum.
Copies(cep, n) == [i \in 1 .. n |-> cep]

\* Cepstra copied in at bufpos, around the end of the buffer.
CopyIn(fcb, ceps) ==
    LET offset(p) == (p - fcb.bufpos) % BlockSize
    IN  [fcb EXCEPT
            !.cepbuf = [p \in DOMAIN fcb.cepbuf |->
                          IF offset(p) < Len(ceps) THEN ceps[offset(p) + 1] ELSE fcb.cepbuf[p]],
            !.bufpos = (fcb.bufpos + Len(ceps)) % BlockSize]

\* The feature of the cepstrum at position p of the buffer.
FeatureAt(fcb, p) == [j \in 1 .. 2 * Win + 1 |-> fcb.cepbuf[(p + j - Win - 1) % BlockSize]]

\* feat_s2mfc2feat_block_utt(): a whole utterance.  The padding is kept in the
\* first rows of the live buffer.
BlockFeature(ceps, i) ==
    [j \in 1 .. 2 * Win + 1 |->
        LET k == i + j - Win - 1
        IN  ceps[IF k < 1 THEN 1 ELSE IF k > Len(ceps) THEN Len(ceps) ELSE k]]

BlockUtt(fcb, ceps) ==
    [fcb   |-> [fcb EXCEPT !.cepbuf =
                  [p \in DOMAIN fcb.cepbuf |-> IF p < Win THEN ceps[1]
                                               ELSE IF p < 2 * Win THEN ceps[Len(ceps)]
                                               ELSE fcb.cepbuf[p]]],
     used  |-> Len(ceps),
     feats |-> [i \in 1 .. Len(ceps) |-> BlockFeature(ceps, i)]]

\* How many cepstra are in the buffer when a call starts: an utterance begins
\* with an empty one.
Buffered(fcb, begin) == IF begin THEN 0 ELSE (fcb.bufpos - fcb.curpos) % BlockSize

\* With the copies that are going to be added.
WithPadding(nbuf, ncep, begin, end) ==
    nbuf + (IF begin /\ ncep > 0 THEN Win ELSE 0) + (IF end THEN Win ELSE 0)

\* The first frame is repeated before the utterance, if there is a first frame.
Begun(fcb, ceps, begin) ==
    LET empty == IF begin THEN [fcb EXCEPT !.bufpos = fcb.curpos] ELSE fcb
        padded == CopyIn(empty, Copies(ceps[1], Win))
    IN  IF begin /\ ceps # <<>> THEN [padded EXCEPT !.curpos = padded.bufpos] ELSE empty

\* The last frame is repeated after the utterance, even without input.
Ended(fcb, end) ==
    IF end THEN CopyIn(fcb, Copies(fcb.cepbuf[(fcb.bufpos - 1) % BlockSize], Win)) ELSE fcb

\* The part of feat_s2mfc2feat_live() after the special case: as much as fits is
\* copied in, and all but the trailing window comes out.  When not all fits, the end of
\* the utterance is not processed, although it has been counted.
LiveBlock(fcb, ceps, begin, end) ==
    LET nbuf == WithPadding(Buffered(fcb, begin), Len(ceps), begin, end)
        fits == nbuf + Len(ceps) <= BlockSize
        ncep == IF fits THEN Len(ceps) ELSE BlockSize - nbuf - Win
        taken == SubSeq(ceps, 1, ncep)
        full == Ended(CopyIn(Begun(fcb, taken, begin), taken), end /\ fits)
        nfeat == nbuf + ncep - Win - (IF begin /\ ncep > 0 THEN Win ELSE 0)
    IN  [fcb   |-> IF nfeat > 0 THEN [full EXCEPT !.curpos = (@ + nfeat) % BlockSize] ELSE full,
         used  |-> ncep,
         feats |-> [i \in 1 .. nfeat |-> FeatureAt(full, full.curpos + i - 1)]]

\* feat_s2mfc2feat_live(): the new buffer, the cepstra used and the features.
Live(fcb, ceps, begin, end) ==
    IF begin /\ end /\ ceps # <<>> THEN BlockUtt(fcb, ceps) ELSE LiveBlock(fcb, ceps, begin, end)
=============================================================================
