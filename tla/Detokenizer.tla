---------------------------- MODULE Detokenizer ----------------------------
(***************************************************************************)
(* The incremental detokenizer, tokenizer/detokenize.py: tokens of many    *)
(* requests come in batches, text goes out.  A token may end inside a      *)
(* character, whose bytes then decode to a replacement character; such     *)
(* text is held back until it is known.                                    *)
(*                                                                         *)
(* A token is a sequence of bytes << c, part >>: part 0 is a character of  *)
(* one byte, parts 1 and 2 are the two bytes of another.                   *)
(***************************************************************************)
EXTENDS Naturals, SequencesExt, TLC

CONSTANTS Uids, Tokens, Eos,    \* Eos: the token that ends a request, not printed
          Chinese,              \* the characters _is_chinese_char accepts
          DropsFirstSpace,      \* does decode strip the blank before the first word?
          MaxTokens             \* bound: the tokens of a request

DetokenizerAssumption ==
  Eos \in Tokens /\ DropsFirstSpace \in BOOLEAN /\ MaxTokens \in Nat

Space == "space"
Bad == "replacement"

VARIABLES decode_map,           \* uid -> DecodeStatus, a partial function
          told,                 \* history: what the frontend was sent of each uid
          ids,                  \* history: the printed tokens of each uid
          done                  \* the uids whose final message has come

vars == << decode_map, told, ids, done >>

-----------------------------------------------------------------------------
\* External: tokenizer.batch_decode
Decode(tokens) ==
  LET bytes == FlattenSeq(tokens)
      Whole(i) == bytes[i][2] = 1 /\ i < Len(bytes) /\ bytes[i + 1] = << bytes[i][1], 2 >>
      Second(i) == i > 1 /\ Whole(i - 1)
      glyph == [i \in DOMAIN bytes |->
                  IF Second(i) THEN "none"
                  ELSE IF bytes[i][2] = 0 \/ Whole(i) THEN bytes[i][1] ELSE Bad]
      text == SelectSeq(glyph, LAMBDA g : g # "none")
  IN  IF DropsFirstSpace /\ text # << >> /\ text[1] = Space THEN Tail(text) ELSE text

\* find_printable_text (its newline is a character like any other here, for it
\* is not called with a text that ends in one)
Printable(text) ==
  LET n == Len(text)
      blanks == {i \in DOMAIN text : text[i] = Space}
  IN  CASE n > 0 /\ text[n] \in Chinese -> text
        [] n > 1 /\ text[n - 1] \in Chinese /\ text[n] \notin Chinese -> SubSeq(text, 1, n - 1)
        [] OTHER -> SubSeq(text, 1, IF blanks = {} THEN 0
                                    ELSE CHOOSE i \in blanks : \A j \in blanks : j <= i)

-----------------------------------------------------------------------------
Fresh == [decoded_ids |-> << >>, decoded_str |-> << >>, read |-> 0, surr |-> 0, sent |-> 0]

AppendAlways(map, msg) ==       \* mutant: the last token is printed, whatever it is
  LET s == IF msg.uid \in DOMAIN map THEN map[msg.uid] ELSE Fresh
  IN  (msg.uid :> [s EXCEPT !.decoded_ids = Append(@, msg.token)]) @@ map

\* The first loop: ids are appended, and both slices are taken, for all messages
\* before any text is
Append1(map, msg) ==
  LET s == IF msg.uid \in DOMAIN map THEN map[msg.uid] ELSE Fresh
      printed == ~(msg.finished /\ msg.token = Eos)
  IN  (msg.uid :> [s EXCEPT !.decoded_ids = IF printed THEN Append(@, msg.token) ELSE @]) @@ map

Slices(s) ==
  [read |-> SubSeq(s.decoded_ids, s.surr + 1, Len(s.decoded_ids)),
   surr |-> SubSeq(s.decoded_ids, s.surr + 1, s.read)]

\* The second loop: the status after new text, and the text up to which it is told
Show(s, new) ==
  IF new # << >> /\ Last(new) # Bad
  THEN [s EXCEPT !.decoded_str = @ \o new, !.surr = s.read,
                 !.read = Len(s.decoded_ids), !.sent = Len(s.decoded_str \o new)]
  ELSE [s EXCEPT !.sent = Len(s.decoded_str \o Printable(new))]

Output(s, new) ==
  s.decoded_str \o (IF new # << >> /\ Last(new) # Bad THEN new ELSE Printable(new))

\* The entry goes with the final message
Drop(map, uid, finished) ==
  IF finished THEN [u \in DOMAIN map \ {uid} |-> map[u]] ELSE map

Detokenize(msgs) ==
  LET maps == FoldLeft(LAMBDA acc, m : Append(acc, Append1(Last(acc), m)),
                       << decode_map >>, msgs)
      NewText(k) == LET sl == Slices(maps[k + 1][msgs[k].uid])
                    IN  SubSeq(Decode(sl.read), Len(Decode(sl.surr)) + 1, Len(Decode(sl.read)))
      Tell(acc, k) ==
        LET uid == msgs[k].uid
            s == acc.map[uid]
            output == Output(s, NewText(k))
        IN  [map |-> Drop([acc.map EXCEPT ![uid] = Show(s, NewText(k))], uid, msgs[k].finished),
             told |-> [acc.told EXCEPT ![uid] = @ \o SubSeq(output, s.sent + 1, Len(output))]]
      end == FoldLeft(Tell, [map |-> Last(maps), told |-> told], [k \in DOMAIN msgs |-> k])
  IN  /\ decode_map' = end.map
      /\ told' = end.told

-----------------------------------------------------------------------------
Init ==
  /\ decode_map = << >>
  /\ told = [u \in Uids |-> << >>] /\ ids = [u \in Uids |-> << >>]
  /\ done = {}

Messages == [uid : Uids, token : Tokens, finished : BOOLEAN]

\* A model emits well-formed text, which may stop inside a character
WellFormed(tokens) ==
  LET bytes == FlattenSeq(tokens)
  IN  \A i \in DOMAIN bytes :
        /\ bytes[i][2] = 2 <=> (i > 1 /\ bytes[i - 1][2] = 1)
        /\ bytes[i][2] = 2 => bytes[i][1] = bytes[i - 1][1]

\* What a scheduler sends: a token each of one or two running requests (its batch
\* holds a request once, and local_bs is 1); the last token may be Eos or another
Call ==
  \E msgs \in {<< m >> : m \in Messages} \cup (Messages \X Messages) :
    /\ Len(msgs) = 2 => msgs[1].uid # msgs[2].uid
    /\ \A k \in DOMAIN msgs :
         msgs[k].uid \notin done /\ Len(ids[msgs[k].uid]) < MaxTokens
    /\ Detokenize(msgs)
    /\ ids' = [u \in Uids |->
                 ids[u] \o FlattenSeq([k \in DOMAIN msgs |->
                             IF msgs[k].uid = u /\ ~(msgs[k].finished /\ msgs[k].token = Eos)
                             THEN << msgs[k].token >> ELSE << >>])]
    /\ \A u \in Uids : WellFormed(ids'[u])
    /\ done' = done \cup {msgs[k].uid : k \in {j \in DOMAIN msgs : msgs[j].finished}}

Next == Call

Spec == Init /\ [][Next]_vars

-----------------------------------------------------------------------------
\* What a client has been sent is the beginning of the text of its tokens: no
\* piece is sent twice, none is left out, and none is taken back.
ToldIsPrefix == \A u \in Uids : IsPrefix(told[u], Decode(ids[u]))

\* Whenever the text does not end inside a character, the client has all of it.
ToldAll ==
  \A u \in Uids :
    LET text == Decode(ids[u])
    IN  text = << >> \/ Last(text) # Bad => told[u] = text

\* An entry does not outlive its request: the map is as large as the number of
\* running requests.
EntriesAreRunning == DOMAIN decode_map \cap done = {}
=============================================================================
