-------------------------------- MODULE Chunking --------------------------------
(***************************************************************************)
(* Splitting a text into chunks that fit a LoRa packet (chunking.py).  A   *)
(* text is a sequence of characters, of which only the width in UTF-8      *)
(* bytes and whether it is a space matter; a chunk is a body with the      *)
(* numbers of its [i/n] prefix, or no numbers when the text is sent whole. *)
(***************************************************************************)
EXTENDS Integers, Sequences, SequencesExt, Optional

CONSTANTS
  Wide,          \* bytes of a wide character; the others have one
  Default,       \* DEFAULT_CHUNK_BYTES
  Floor,         \* MIN_CHUNK_BYTES
  Ceiling,       \* MAX_MESSAGE_LENGTH
  MaxChunks,     \* MAX_CHUNKS_PER_MESSAGE
  Punctuation,   \* bytes of a prefix that are no digits
  PrefixBudget,  \* what the estimate takes a prefix for (12)
  MinCapacity,   \* the least room for a body (10)
  Radix          \* of the numbers in a prefix (10)

ASSUME ChunkingAssumption ==
  /\ {Default, Floor, Ceiling, MaxChunks, MinCapacity} \subseteq Nat \ {0}
  /\ Floor <= Default /\ Default <= Ceiling /\ Radix \in Nat \ {0, 1}
  /\ {Punctuation, PrefixBudget} \subseteq Nat /\ Wide \in 1..MinCapacity

\* _effective_chunk_bytes: an unset, blank or unreadable setting is the default.
ChunkBytes(setting) ==
  IF setting = None THEN Default ELSE Min({Max({setting, Floor}), Ceiling})

\* The digits of a number, and the prefix [i/n] with its space.
Digits(n) == 1 + Max({0} \cup {d \in 1..n : Radix^d <= n})
PrefixBytes(i, n) == Punctuation + Digits(i) + Digits(n)

\* MIN_CHUNK_BYTES has room for a body and any prefix, no prefix is longer than the
\* estimate takes it for, and the rounds are more than the digits of a count.
ASSUME NumberingAssumption ==
  /\ PrefixBytes(MaxChunks, MaxChunks) <= PrefixBudget
  /\ MinCapacity + PrefixBytes(MaxChunks, MaxChunks) <= Floor
  /\ Digits(MaxChunks) <= 6

-----------------------------------------------------------------------------
(* Where a text is cut.                                                    *)

Width(char) == IF char = "wide" THEN Wide ELSE 1

\* The bytes up to each character.
Offsets(text) ==
  LET offset[i \in 0..Len(text)] == IF i = 0 THEN 0 ELSE offset[i - 1] + Width(text[i])
  IN  offset

Bytes(text) == Offsets(text)[Len(text)]

\* The characters behind a place that fit into so many bytes, one at least.
Fitting(text, at, room) ==
  {i \in at + 1..Len(text) : i = at + 1 \/ Offsets(text)[i] - Offsets(text)[at] <= room}

\* The next part of split_utf8 ends with the text if that fits, with the last space
\* that fits unless it is the part's first character, and else where the bytes end.
Cut(text, at, room) ==
  LET end == Max(Fitting(text, at, room))
      spaces == {i \in at + 2..end : text[i] = "space"}
  IN  IF end = Len(text) \/ spaces = {} THEN end ELSE Max(spaces)

\* The ends of all parts, each with its own room; the last one is repeated.
Cuts(text, rooms) ==
  LET cut[i \in 0..Len(text)] ==
        IF i = 0 THEN 0
        ELSE LET at == cut[i - 1]
             IN  IF at = Len(text) THEN at ELSE Cut(text, at, rooms[i])
  IN  cut

Count(text, rooms) == Min({n \in 0..Len(text) : Cuts(text, rooms)[n] = Len(text)})

-----------------------------------------------------------------------------
(* The messages.                                                           *)

Room(limit, prefix) == Max({MinCapacity, limit - prefix})

\* The count that is tried first takes each prefix for the longest.
Estimate(text, limit) == Count(text, [i \in 1..Len(text) |-> Room(limit, PrefixBudget)])

\* _numbered_split: the room for a body depends on its own prefix.
Rooms(text, limit, total) == [i \in 1..Len(text) |-> Room(limit, PrefixBytes(i, total))]

Numbered(text, limit, total) ==
  LET rooms == Rooms(text, limit, total)
      cut == Cuts(text, rooms)
  IN  [i \in 1..Count(text, rooms) |->
         [index |-> i, total |-> total, body |-> SubSeq(text, cut[i - 1] + 1, cut[i])]]

\* Mutant: the numbers are those of the estimate.
NumberedOnce(text, limit, total) == Numbered(text, limit, total)

\* The prefixes change the count, which changes the prefixes.  A round that finds the
\* total it began with changes nothing, so that the code may stop there.
Rounds(text, limit, total) ==
  LET counted[k \in 0..6] ==
        IF k = 0 THEN total ELSE Count(text, Rooms(text, limit, counted[k - 1]))
  IN  counted

Renumbered(text, limit, total) == Numbered(text, limit, Rounds(text, limit, total)[6])

Blank(text) == \A i \in DOMAIN text : text[i] = "space"

\* chunk_message: the chunks, or that there would be too many.  Five rounds, then
\* one more, then a last split with the count that gave.
ChunkMessage(text, setting) ==
  LET limit == ChunkBytes(setting)
  IN  CASE Blank(text) -> [tooLong |-> FALSE, chunks |-> << >>]
        [] ~Blank(text) /\ Bytes(text) <= limit ->
             [tooLong |-> FALSE, chunks |-> <<[index |-> 0, total |-> 0, body |-> text]>>]
        [] OTHER ->
             IF Estimate(text, limit) > MaxChunks THEN [tooLong |-> TRUE, chunks |-> << >>]
             ELSE [tooLong |-> FALSE, chunks |-> Renumbered(text, limit, Estimate(text, limit))]

\* The text of a message's chunks, one after the other.
Joined(chunks) ==
  LET joined[i \in 0..Len(chunks)] ==
        IF i = 0 THEN << >> ELSE joined[i - 1] \o chunks[i].body
  IN  joined[Len(chunks)]

ChunkSize(chunk) ==
  Bytes(chunk.body) + IF chunk.total = 0 THEN 0 ELSE PrefixBytes(chunk.index, chunk.total)
================================================================================
