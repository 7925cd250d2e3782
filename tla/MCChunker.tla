----------------------------- MODULE MCChunker -----------------------------
(* TLC instance of Chunker: the real sizes; texts around one and two windows, *)
(* with up to three sentence ends at the edges of windows, tails and overlap. *)
EXTENDS Chunker

Totals == {0, 1, 511, 512, 513, 960, 961, 1100}
TokenEnds == {1, 435, 437, 447, 448, 449, 500, 511, 512, 513, 883, 885, 896, 897, 960, 961}
UpToThree == {S \in SUBSET TokenEnds : Cardinality(S) <= 3}

TextsOf(total, width) ==
  {[total |-> total, width |-> width, ends |-> {e * width : e \in S}] :
     S \in {T \in UpToThree : \A e \in T : e <= total /\ e * width >= 2}}
TheTexts == UNION {TextsOf(total, width) : total \in Totals, width \in {1, 4}}

TheSettings == {[chunk_size |-> 512, overlap |-> o] : o \in {64, 128, 512}}

ASSUME TailsAreShort == ShortTails
=============================================================================
