----------------------------- MODULE Tokenizer ------------------------------
(***************************************************************************)
(* pkg/tokenizer: text to token ids and back.                               *)
(*                                                                         *)
(* A text is a sequence of characters, a token one of the vocabulary, which *)
(* is a sequence of texts; ids count from 1.  A tokenizer is a record       *)
(*   tokens      the vocabulary                                             *)
(*   merges      pairs of texts, best first                                 *)
(*   byteEncode  tokens are written in the alphabet of byteToUnicode        *)
(* "S" is the character the alphabet has for a space, "_" the space of      *)
(* SentencePiece; every other character stands for itself.                  *)
(***************************************************************************)
EXTENDS Integers, Sequences, SequencesExt

Failed == <<0>>        \* an unknown token
Newline == "n"
Letters == {"a", "b", "s", "r", "e"}
Digits == {"1"}
Spaces == {" ", Newline}

(***************************************************************************)
(* Pieces (pretokenize.go)                                                  *)
(***************************************************************************)
At(text, i) == IF i \in DOMAIN text THEN text[i] ELSE "end"
Is(text, i, class) == At(text, i) \in class
Mark(text, i) == At(text, i) \notin Letters \cup Digits \cup Spaces \cup {"end"}

\* The first place from i on whose character is not in the class.
After(text, i, class) ==
  CHOOSE j \in i..(Len(text) + 1) : ~Is(text, j, class) /\ \A k \in i..(j - 1) : Is(text, k, class)
AfterMarks(text, i) ==
  CHOOSE j \in i..(Len(text) + 1) : ~Mark(text, j) /\ \A k \in i..(j - 1) : Mark(text, k)

Contraction(text, i) ==
  IF At(text, i) # "'" THEN 0
  ELSE IF At(text, i + 1) = "s" THEN 2
  ELSE IF At(text, i + 1) = "r" /\ At(text, i + 2) = "e" THEN 3
  ELSE 0

\* Mutant: a run of white space is one piece.
AfterSpacesAll(text, i) == After(text, i, Spaces)

\* A run of white space ends behind its last newline, else before the space that
\* belongs to what follows it.
AfterSpaces(text, i) ==
  LET run == After(text, i, Spaces)
      breaks == {j \in i..(run - 1) : text[j] = Newline}
  IN  IF breaks # {} THEN Max(breaks) + 1
      ELSE IF run - i > 1 /\ run <= Len(text) THEN run - 1
      ELSE IF run > i THEN run
      ELSE i + 1

\* Where the piece that starts at i ends (pretokenizeQwen2).
PieceEnd(text, i) ==
  LET lead == IF At(text, i) = " " THEN i + 1 ELSE i
  IN  IF Contraction(text, i) > 0 THEN i + Contraction(text, i)
      ELSE IF ~Is(text, i, Digits \cup {Newline}) /\ (Is(text, i, Letters) \/ Is(text, i + 1, Letters))
        THEN After(text, i + 1, Letters)
      ELSE IF Is(text, i, Digits) THEN i + 1
      ELSE IF ~Is(text, lead, Letters \cup Digits \cup Spaces)
        THEN After(text, AfterMarks(text, lead), {Newline})
      ELSE AfterSpaces(text, i)

Pieces(text) ==
  LET walk == FoldLeft(LAMBDA w, i : IF i < w.next THEN w
                         ELSE [next |-> PieceEnd(text, i),
                               out |-> Append(w.out, SubSeq(text, i, PieceEnd(text, i) - 1))],
                       [next |-> 1, out |-> <<>>], [i \in 1..Len(text) |-> i])
  IN  walk.out

(***************************************************************************)
(* The byte alphabet (bytes.go)                                             *)
(***************************************************************************)
ByteEncode(text) == [i \in DOMAIN text |-> IF text[i] = " " THEN "S" ELSE text[i]]
\* What is not in the alphabet is dropped.
ByteDecode(text) ==
  LET known == SelectSeq(text, LAMBDA c : c # " ") IN [i \in DOMAIN known |-> IF known[i] = "S" THEN " " ELSE known[i]]

(***************************************************************************)
(* Byte-pair encoding (bpe)                                                 *)
(***************************************************************************)
Ranks(merges, symbols, i) == {r \in DOMAIN merges : merges[r] = <<symbols[i], symbols[i + 1]>>}
\* A pair that is listed twice has its last rank.
Rank(merges, symbols, i) == Max(Ranks(merges, symbols, i))
Mergeable(merges, symbols) == {i \in 1..(Len(symbols) - 1) : Ranks(merges, symbols, i) # {}}

MergeAt(symbols, i) ==
  SubSeq(symbols, 1, i - 1) \o <<symbols[i] \o symbols[i + 1]>> \o SubSeq(symbols, i + 2, Len(symbols))

\* The pair of the lowest rank, of equal ranks the first.
BestPair(merges, symbols) ==
  CHOOSE i \in Mergeable(merges, symbols) : \A j \in Mergeable(merges, symbols) :
     \/ Rank(merges, symbols, i) < Rank(merges, symbols, j)
     \/ Rank(merges, symbols, i) = Rank(merges, symbols, j) /\ i <= j

BPE(merges, text) ==
  FoldLeft(LAMBDA symbols, n : IF Mergeable(merges, symbols) = {} THEN symbols
                               ELSE MergeAt(symbols, BestPair(merges, symbols)),
           [i \in DOMAIN text |-> <<text[i]>>], text)

(***************************************************************************)
(* Special tokens (special.go)                                              *)
(***************************************************************************)
Holds(vocabulary, token) == Contains(vocabulary, token)
Id(vocabulary, token) == Max({i \in DOMAIN vocabulary : vocabulary[i] = token})

\* [INST] and [/INST], the word as one character.
Instructs == {<<"[", "I", "]">>, <<"[", "/", "I", "]">>}

\* Every token of the vocabulary that begins with "<"; without merges, those two as well.
Specials(tk) ==
  {t \in ToSet(tk.tokens) : Len(t) >= 2 /\ t[1] = "<"} \cup
  (IF tk.merges = <<>> THEN Instructs \cap ToSet(tk.tokens) ELSE {})
StartsAt(text, i, token) == IsPrefix(token, SubSeq(text, i, Len(text)))

SpecialAt(special, text, i) ==
  LET here == {t \in special : StartsAt(text, i, t)}
  IN  IF here = {} THEN <<>> ELSE CHOOSE t \in here : \A u \in here : Len(t) >= Len(u)

Segments(special, text) ==
  LET Next(i) == Min({j \in i..(Len(text) + 1) : j = Len(text) + 1 \/ SpecialAt(special, text, j) # <<>>})
      walk == FoldLeft(LAMBDA w, i :
                IF i < w.next THEN w
                ELSE IF SpecialAt(special, text, i) # <<>>
                THEN [next |-> i + Len(SpecialAt(special, text, i)),
                      out |-> Append(w.out, [text |-> SpecialAt(special, text, i), special |-> TRUE])]
                ELSE [next |-> Next(i), out |-> Append(w.out, [text |-> SubSeq(text, i, Next(i) - 1), special |-> FALSE])],
              [next |-> 1, out |-> <<>>], [i \in 1..Len(text) |-> i])
  IN  walk.out

(***************************************************************************)
(* SentencePiece without merges (spm.go)                                    *)
(***************************************************************************)
\* A candidate of length l at i, plain before marked; candidates do not end in a space.
GreedyMatch(vocabulary, text, i, wordStart, l) ==
  LET cand == SubSeq(text, i, i + l - 1)
  IN  IF text[i + l - 1] = " " THEN <<>>
      ELSE IF Holds(vocabulary, cand) THEN cand
      ELSE IF wordStart /\ Holds(vocabulary, <<"_">> \o cand) THEN <<"_">> \o cand
      ELSE <<>>

\* No match is longer; the code counts bytes.
MaxMatch == 48

GreedyVocab(vocabulary, text) ==
  LET Lengths(i, start) == {l \in 1..Min({Len(text) - i + 1, MaxMatch}) : GreedyMatch(vocabulary, text, i, start, l) # <<>>}
      Step(w, i) ==
        IF w.out = Failed \/ i < w.next THEN w
        ELSE IF text[i] = " " THEN [w EXCEPT !.next = i + 1, !.start = TRUE]
        ELSE IF Lengths(i, w.start) = {} THEN [w EXCEPT !.out = Failed]
        ELSE [next |-> i + Max(Lengths(i, w.start)), start |-> FALSE,
              out |-> Append(w.out, Id(vocabulary, GreedyMatch(vocabulary, text, i, w.start, Max(Lengths(i, w.start)))))]
  IN  FoldLeft(Step, [next |-> 1, start |-> TRUE, out |-> <<>>], [i \in 1..Len(text) |-> i]).out

(***************************************************************************)
(* Encode and Decode (tokenizer.go)                                         *)
(***************************************************************************)
EncodeSegment(tk, text) ==
  IF tk.merges = <<>> /\ ~tk.byteEncode THEN GreedyVocab(tk.tokens, text)
  ELSE LET symbols == FlattenSeq([i \in DOMAIN Pieces(text) |->
                        BPE(tk.merges, IF tk.byteEncode THEN ByteEncode(Pieces(text)[i]) ELSE Pieces(text)[i])])
       IN  IF \A i \in DOMAIN symbols : Holds(tk.tokens, symbols[i])
           THEN [i \in DOMAIN symbols |-> Id(tk.tokens, symbols[i])] ELSE Failed

Encode(tk, text) ==
  FoldLeft(LAMBDA out, seg :
             IF out = Failed THEN Failed
             ELSE IF seg.special THEN Append(out, Id(tk.tokens, seg.text))
             ELSE IF EncodeSegment(tk, seg.text) = Failed THEN Failed
             ELSE out \o EncodeSegment(tk, seg.text),
           <<>>, Segments(Specials(tk), text))

DecodeToken(tk, token) ==
  IF tk.byteEncode THEN ByteDecode(token)
  ELSE [i \in DOMAIN token |-> IF token[i] \in {"S", "_"} THEN " " ELSE token[i]]

\* The space before the first word of SentencePiece is dropped.
Decode(tk, ids) ==
  LET text == FlattenSeq([i \in DOMAIN ids |-> DecodeToken(tk, tk.tokens[ids[i]])])
      strip == /\ ids # <<>> /\ ~tk.byteEncode
               /\ tk.tokens[ids[1]] # <<>> /\ tk.tokens[ids[1]][1] = "_"
  IN  IF strip THEN Tail(text) ELSE text

\* What is written while tokens are decoded one at a time (GenerateStream, OnToken).
Streamed(tk, ids) == FlattenSeq([i \in DOMAIN ids |-> Decode(tk, <<ids[i]>>)])
=============================================================================
