------------------------------- MODULE Speech -------------------------------
(***************************************************************************)
(* The text-to-speech worker: requests in threads of their own share one   *)
(* engine under a lock.  The engine reads a text chunk by chunk; when the  *)
(* GPU has no memory for one, it halves its limit, which later requests    *)
(* share, and cuts again all that has not been spoken.                     *)
(*                                                                         *)
(* A text is a row of letters.  After some of them there is a space, and   *)
(* after some a clause or a sentence ends, with or without one.            *)
(***************************************************************************)
EXTENDS Integers, Sequences, FiniteSets, SequencesExt

CONSTANTS
  Speeches,    \* requests
  Texts,       \* their texts: [letters, spaces, clauses, sentences]
  Voices,
  NoVoice,     \* a voice the engine does not have
  Floor,       \* CHUNK_FLOOR
  ChunkLimit   \* chunk_limit of the engine as it is built

ASSUME SpeechAssumption ==
  /\ {Floor, ChunkLimit} \subseteq Nat \ {0} /\ Floor <= ChunkLimit
  /\ Voices # {} /\ NoVoice \notin Voices \cup Speeches
  /\ \A t \in Texts :
       /\ t \in [letters : Nat \ {0}, spaces : SUBSET Nat, clauses : SUBSET Nat,
                 sentences : SUBSET Nat]
       /\ t.spaces \cup t.clauses \cup t.sentences \subseteq 1..(t.letters - 1)

-----------------------------------------------------------------------------
(* split_sentences.  A piece of a text is an interval of its letters, a    *)
(* group a sequence of pieces, joined by spaces.                           *)

First(piece) == piece[1]
Final(piece) == piece[2]

\* Its length in characters, with the spaces inside.
Length(piece, spaces) ==
  Final(piece) - First(piece) + 1 + Cardinality(spaces \cap First(piece)..(Final(piece) - 1))

\* The parts of a piece that end at the given letters.
Parts(piece, ends) ==
  LET EndOf(n) == Min((ends \cap n..Final(piece)) \cup {Final(piece)})
      from[n \in First(piece)..Final(piece)] ==
        <<<<n, EndOf(n)>>>> \o IF EndOf(n) = Final(piece) THEN <<>> ELSE from[EndOf(n) + 1]
  IN  from[First(piece)]

\* As many pieces of `limit` letters as a word has more than it, and the rest.
Chop(word, limit) ==
  LET full == (Length(word, {}) - 1) \div limit
  IN  [i \in 1..(full + 1) |->
         <<First(word) + (i - 1) * limit,
           IF i > full THEN Final(word) ELSE First(word) + i * limit - 1>>]

\* One word after the other; `current` is what they have been collected into.
Flush(acc) == IF acc.current = <<>> THEN acc.pieces ELSE Append(acc.pieces, acc.current)

AddWord(acc, word, spaces, limit) ==
  LET chopped == Chop(word, limit)
      rest    == Last(chopped)
      joined  == <<First(acc.current), Final(rest)>>
  IN  IF Len(chopped) = 1 /\ acc.current # <<>> /\ Length(joined, spaces) <= limit
      THEN [pieces |-> acc.pieces, current |-> joined]
      ELSE [pieces |-> Flush(acc) \o Front(chopped), current |-> rest]

HardSplit(piece, spaces, limit) ==
  Flush(FoldLeft(LAMBDA acc, word : AddWord(acc, word, spaces, limit),
                 [pieces |-> <<>>, current |-> <<>>], Parts(piece, spaces)))

Units(text, piece, limit) ==
  LET ofClause(c) == IF Length(c, text.spaces) <= limit THEN <<c>>
                     ELSE HardSplit(c, text.spaces, limit)
      ofSentence(s) == IF Length(s, text.spaces) <= limit THEN <<s>>
                       ELSE FlattenSeq([i \in DOMAIN Parts(s, text.clauses) |->
                                          ofClause(Parts(s, text.clauses)[i])])
      sentences == Parts(piece, text.sentences)
  IN  FlattenSeq([i \in DOMAIN sentences |-> ofSentence(sentences[i])])

GroupLength(group, spaces) ==
  FoldLeft(LAMBDA n, unit : n + Length(unit, spaces) + 1, -1, group)

\* Greedily, into groups of at most `size` characters where the units allow it.
AddUnit(acc, unit, spaces, size) ==
  IF /\ acc.current # <<>>
     /\ GroupLength(acc.current, spaces) + Length(unit, spaces) + 1 > size
  THEN [groups |-> Append(acc.groups, acc.current), current |-> <<unit>>]
  ELSE [groups |-> acc.groups, current |-> Append(acc.current, unit)]

Pack(units, spaces, size) ==
  LET packed == FoldLeft(LAMBDA acc, unit : AddUnit(acc, unit, spaces, size),
                         [groups |-> <<>>, current |-> <<>>], units)
  IN  IF packed.current = <<>> THEN packed.groups ELSE Append(packed.groups, packed.current)

SplitSentences(text, piece, limit) ==
  LET length == Length(piece, text.spaces)
      units  == Units(text, piece, limit)
      count  == (length + limit - 1) \div limit
      search[r \in (1..limit) \X (1..limit)] ==  \* the smallest size that will do
        LET mid == (r[1] + r[2]) \div 2
        IN  IF r[1] >= r[2] THEN r[1]
            ELSE search[IF Len(Pack(units, text.spaces, mid)) <= count THEN <<r[1], mid>>
                        ELSE <<mid + 1, r[2]>>]
  IN  IF length <= limit THEN << <<piece>> >>
      ELSE Pack(units, text.spaces, search[<<(length + count - 1) \div count, limit>>])

-----------------------------------------------------------------------------

VARIABLES
  speech,      \* of each request its text and voice, where it is, the groups it has yet to
               \* speak and what it has spoken
  engine       \* [voice, limit, lock]: the holder of the lock, or NoVoice

speechVars == <<speech, engine>>

Whole(text) == <<1, text.letters>>

SpeechInit ==
  /\ speech \in [Speeches -> [text : Texts, voice : Voices \cup {NoVoice}, at : {"waiting"},
                              groups : {<<>>}, spoken : {<<>>}]]
  /\ engine = [voice |-> CHOOSE v \in Voices : TRUE, limit |-> ChunkLimit, lock |-> NoVoice]

\* A request that is malformed, or asks for what the server cannot encode, never gets to
\* the engine.
RefuseSpeech(r) ==
  /\ speech[r].at = "waiting"
  /\ speech' = [speech EXCEPT ![r].at = "refused"]
  /\ UNCHANGED engine

\* synthesize sets the voice and cuts the text at the limit of the moment.
Begin(r) ==
  LET s == speech[r]
  IN  IF s.voice = NoVoice THEN speech' = [speech EXCEPT ![r].at = "refused"] /\ UNCHANGED engine
      ELSE /\ speech' = [speech EXCEPT ![r].at = "speaking",
                           ![r].groups = SplitSentences(s.text, Whole(s.text), engine.limit)]
           /\ engine' = [engine EXCEPT !.voice = s.voice, !.lock = r]

BeginUnlocked(r) == speech[r].at = "waiting" /\ Begin(r)  \* mutant: no lock

BeginSpeech(r) ==
  /\ speech[r].at = "waiting" /\ engine.lock = NoVoice
  /\ Begin(r)

SpeakGroup(r) ==
  LET s == speech[r]
  IN  /\ s.at = "speaking" /\ s.groups # <<>>
      /\ speech' = [speech EXCEPT
           ![r].spoken = Append(@, [group |-> Head(s.groups), voice |-> engine.voice,
                                    limit |-> engine.limit,
                                    length |-> GroupLength(Head(s.groups), s.text.spaces)]),
           ![r].groups = Tail(@)]
      /\ UNCHANGED engine

\* The groups left are joined by spaces, so a word that was cut stays cut.
Rejoined(s) ==
  LET units == FlattenSeq(s.groups)
  IN  [text  |-> [s.text EXCEPT !.spaces = @ \cup {Final(u) : u \in ToSet(Front(units))}],
       piece |-> <<First(Head(units)), Final(Last(units))>>]

EndSpeech(r, how) ==
  /\ speech' = [speech EXCEPT ![r].at = how, ![r].groups = <<>>]
  /\ engine' = [engine EXCEPT !.lock = NoVoice]

OutOfMemory(r) ==
  LET s      == speech[r]
      limit  == IF engine.limit \div 2 < Floor THEN Floor ELSE engine.limit \div 2
      again  == Rejoined(s)
  IN  /\ s.at = "speaking" /\ s.groups # <<>>
      /\ IF engine.limit <= Floor THEN EndSpeech(r, "failed")
         ELSE /\ engine' = [engine EXCEPT !.limit = limit]
              /\ speech' = [speech EXCEPT
                   ![r].text = again.text,
                   ![r].groups = SplitSentences(again.text, again.piece, limit)]

SpeechFails(r) ==  \* in the engine or in ffmpeg
  /\ speech[r].at = "speaking"
  /\ EndSpeech(r, "failed")

AnswerSpeech(r) ==
  /\ speech[r].at = "speaking" /\ speech[r].groups = <<>>
  /\ EndSpeech(r, "answered")

SpeechNext ==
  \E r \in Speeches : \/ RefuseSpeech(r) \/ BeginSpeech(r) \/ SpeakGroup(r)
                      \/ OutOfMemory(r) \/ SpeechFails(r) \/ AnswerSpeech(r)

SpeechSpec == SpeechInit /\ [][SpeechNext]_speechVars

-----------------------------------------------------------------------------
(* What must hold.                                                         *)

\* Type invariant of the worker.
SpeechTypeOK ==
  /\ \A r \in Speeches :
       /\ speech[r].at \in {"waiting", "speaking", "answered", "refused", "failed"}
       /\ speech[r].text.spaces \subseteq 1..speech[r].text.letters
  /\ engine.voice \in Voices /\ engine.limit \in Floor..ChunkLimit
  /\ engine.lock \in Speeches \cup {NoVoice}

\* Every letter once and in order.
Covers(units, piece) ==
  units # <<>> /\ First(units[1]) = First(piece) /\ Final(Last(units)) = Final(piece)
  /\ \A i \in DOMAIN units : /\ First(units[i]) <= Final(units[i])
                             /\ i > 1 => First(units[i]) = Final(units[i - 1]) + 1

\* An answer speaks the whole of its text, nothing twice and in order, in the voice that was
\* asked for, in chunks within the engine's limit of the moment, however often the engine
\* ran out of memory and whoever else was asking for speech.
SpokenInFull ==
  \A r \in Speeches :
    LET s == speech[r]
    IN  /\ s.at = "answered" =>
             Covers(FlattenSeq([i \in DOMAIN s.spoken |-> s.spoken[i].group]), Whole(s.text))
        /\ \A i \in DOMAIN s.spoken : /\ s.spoken[i].voice = s.voice
                                      /\ s.spoken[i].length <= s.spoken[i].limit
=============================================================================
