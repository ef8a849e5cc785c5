----------------------------- MODULE ReplyStream -----------------------------
(***************************************************************************)
(* A model's reply on its way through the proxy, and its three readers:    *)
(* the chat shows it line by line (tui.py), the proxy counts its tokens    *)
(* from the last bytes it kept (proxy.py), and the observe record is put   *)
(* together from the first ones (observe.py).                              *)
(*                                                                         *)
(* A reply is a sequence of lines, each two units long; the bytes of the   *)
(* code are units, so chunks and both limits cut lines in half.  What a    *)
(* line says of usage and timings is in its second half.                   *)
(***************************************************************************)
EXTENDS Integers, Sequences, FiniteSets, FiniteSetsExt, SequencesExt

CONSTANTS
  Replies,    \* replies backends send, see Line
  BodyLimit,  \* MAX_BODY_BYTES
  TailLimit,  \* _USAGE_TAIL_BYTES
  MaxChunk,   \* bound: units a chunk has
  NoTokens    \* a line that reports no tokens

\* "event" is a JSON object after `data: `, "done" is `data: [DONE]`, "noise" anything else
\* that is no event, and "body" a line of a JSON body, of a reply that is not streamed.  A
\* piece of a call has id 0 when it does not name one.
Line ==
  [shape : {"event", "done", "noise", "body"},
   thinking : Seq(Nat), content : Seq(Nat),
   calls : Seq([index : Nat, id : Nat, args : Seq(Nat)]),
   usage : {NoTokens} \cup [prompt : Nat, completion : Nat],
   timings : {NoTokens} \cup [prompt : Nat, completion : Nat]]

\* The lines of a reply that report tokens, and what a line reports.
Reports(lines) == {i \in DOMAIN lines : {lines[i].usage, lines[i].timings} # {NoTokens}}
ReportOf(line) == IF line.usage # NoTokens THEN line.usage ELSE line.timings

Fill(tokens, more) ==
  [prompt     |-> IF tokens.prompt # 0 THEN tokens.prompt ELSE more.prompt,
   completion |-> IF tokens.completion # 0 THEN tokens.completion ELSE more.completion]

\* A reply as backends send it.  [DONE] is its end, and the pieces of a call name one id.
\* Tokens are reported by events, or by one line of a body; if the last report is not the
\* only one, something was generated, and where it has timings too they add nothing.
WellFormed(lines) ==
  LET latest == Max(Reports(lines))
      report == lines[latest]
  IN  /\ \A i \in DOMAIN lines : lines[i].shape = "done" => i = Len(lines)
      /\ \A i, j \in DOMAIN lines : \A p \in ToSet(lines[i].calls), q \in ToSet(lines[j].calls) :
           p.index = q.index /\ 0 \notin {p.id, q.id} => p.id = q.id
      /\ \A i \in Reports(lines) :
           lines[i].shape = "event" \/ (lines[i].shape = "body" /\ Reports(lines) = {i})
      /\ Reports(lines) # {} =>
           /\ ReportOf(report).completion # 0 \/ Reports(lines) = {latest}
           /\ \/ NoTokens \in {report.usage, report.timings}
              \/ Fill(report.usage, report.timings) = report.usage

ASSUME StreamAssumption ==
  /\ BodyLimit \in Nat \ {0} /\ TailLimit \in Nat \ {0} /\ MaxChunk \in Nat \ {0}
  /\ \A s \in Replies : s \in Seq(Line) /\ s # <<>> /\ WellFormed(s)

VARIABLES
  reply,     \* what the backend sends
  relayed,   \* units the proxy has forwarded
  captured,  \* units it keeps for the record, the first ones
  tail,      \* units it keeps for the token count, the last ones
  relay,     \* where _counting_stream stands
  counted,   \* the tokens it added to the statistics
  logged,    \* the record it submitted
  chat,      \* where the chat's reading stands
  heard,     \* lines the chat has read
  answer     \* what it made of them

streamVars == <<reply, relayed, captured, tail, relay, counted, logged, chat, heard, answer>>

Size == 2 * Len(reply)

ZeroTokens == [prompt |-> 0, completion |-> 0]
NoAnswer == [thinking |-> <<>>, content |-> <<>>, calls |-> <<>>, usage |-> NoTokens]
NoRecord == [form |-> "none"]

StreamInit ==
  /\ reply \in Replies
  /\ relayed = 0 /\ captured = <<>> /\ tail = <<>> /\ relay = "streaming"
  /\ counted = ZeroTokens /\ logged = NoRecord
  /\ chat = "reading" /\ heard = 0 /\ answer = NoAnswer

-----------------------------------------------------------------------------
(* The chat: _stream_chat and _send_message.                               *)

\* A piece continues the call of its index, or starts one at the end of the dict.
ChatGathers(calls, piece) ==
  IF \E i \in DOMAIN calls : calls[i].index = piece.index
  THEN [i \in DOMAIN calls |->
          IF calls[i].index # piece.index THEN calls[i]
          ELSE [calls[i] EXCEPT !.id = IF piece.id # 0 THEN piece.id ELSE @,
                                !.args = @ \o piece.args]]
  ELSE Append(calls, piece)

ById(calls) ==  \* sorted by id, the sort is stable
  LET UpTo(j) == {i \in DOMAIN calls : \/ calls[i].id < calls[j].id
                                       \/ calls[i].id = calls[j].id /\ i <= j}
      Nth(k)  == CHOOSE j \in DOMAIN calls : Cardinality(UpTo(j)) = k
  IN  [k \in DOMAIN calls |-> calls[Nth(k)]]

Hear(line) ==
  [thinking |-> answer.thinking \o line.thinking,
   content  |-> answer.content \o line.content,
   calls    |-> FoldLeft(ChatGathers, answer.calls, line.calls),
   usage    |-> IF line.usage # NoTokens THEN line.usage ELSE answer.usage]

HearLine ==
  /\ chat = "reading" /\ 2 * (heard + 1) <= relayed
  /\ heard' = heard + 1
  /\ LET line == reply[heard + 1]
     IN  CASE line.shape = "done"  -> chat' = "done" /\ answer' = answer
           [] line.shape = "event" -> chat' = chat /\ answer' = Hear(line)
           [] OTHER -> UNCHANGED <<chat, answer>>
  /\ UNCHANGED <<reply, relayed, captured, tail, relay, counted, logged>>

\* The stream ends without [DONE], which the chat takes for the reply's end, or it breaks.
HearEnd ==
  /\ chat = "reading" /\ relayed < 2 * (heard + 1)
  /\ \/ relay = "ended" /\ chat' = "done"
     \/ relay = "failed" /\ chat' = "failed"
  /\ UNCHANGED <<reply, relayed, captured, tail, relay, counted, logged, heard, answer>>

StopReading ==
  /\ chat = "reading" /\ chat' = "left"
  /\ UNCHANGED <<reply, relayed, captured, tail, relay, counted, logged, heard, answer>>

-----------------------------------------------------------------------------
(* Reading what was kept.                                                  *)

\* The lines a run of units has whole, which follow one another; the rest of a cut line is
\* no event.
Intact(units) ==
  LET whole == {i \in DOMAIN reply : {2 * i - 1, 2 * i} \subseteq ToSet(units)}
  IN  IF whole = {} THEN <<>> ELSE SubSeq(reply, Min(whole), Max(whole))

\* _extract_tokens_from_obj: usage goes over what is known, timings fill what is missing.
ExtractTokens(usage, timings, tokens) ==
  LET used == IF usage = NoTokens THEN tokens ELSE Fill(usage, tokens)
  IN  IF timings = NoTokens THEN used ELSE Fill(used, timings)

\* The scan from the end back to the last line that says what was generated.
ScanBack(tokens, line) ==
  IF tokens.completion # 0 \/ line.shape # "event" THEN tokens
  ELSE ExtractTokens(line.usage, line.timings, tokens)

\* _extract_trailing_objects: the last "usage" and "timings", even of a line cut in front.
TrailingTokens(units, tokens) ==
  LET ends(i)  == 2 * i \in ToSet(units)
      usages   == {i \in DOMAIN reply : ends(i) /\ reply[i].usage # NoTokens}
      timings  == {i \in DOMAIN reply : ends(i) /\ reply[i].timings # NoTokens}
  IN  ExtractTokens(IF usages = {} THEN NoTokens ELSE reply[Max(usages)].usage,
                    IF timings = {} THEN NoTokens ELSE reply[Max(timings)].timings, tokens)

\* _record_usage.  A body that is whole is parsed, which finds what is looked for last.
RecordUsage(units) ==
  LET tokens == FoldLeft(ScanBack, ZeroTokens, Reverse(Intact(units)))
  IN  IF tokens.completion # 0 THEN tokens ELSE TrailingTokens(units, tokens)

RecordGathers(calls, piece) ==
  LET known == {i \in DOMAIN calls : calls[i].index = piece.index}
      at    == IF known = {} THEN Len(calls) + 1 ELSE Max(known)
      old   == IF known = {} THEN [index |-> piece.index, id |-> 0, args |-> <<>>] ELSE calls[at]
      new   == [old EXCEPT !.id = IF piece.id = 0 THEN @ ELSE piece.id, !.args = @ \o piece.args]
  IN  SubSeq(calls, 1, at - 1) \o <<new>> \o SubSeq(calls, at + 1, Len(calls))

NoText == [found |-> FALSE, thinking |-> <<>>, content |-> <<>>, calls |-> <<>>, usage |-> NoTokens]
Collect(text, line) ==
  IF line.shape # "event" THEN text
  ELSE [found    |-> TRUE,
        thinking |-> text.thinking \o line.thinking,
        content  |-> text.content \o line.content,
        calls    |-> FoldLeft(RecordGathers, text.calls, line.calls),
        usage    |-> IF line.usage # NoTokens THEN line.usage ELSE text.usage]

\* _assemble_response: the events of a stream put together, or what there is as it is.
Assemble(units) ==
  LET text == FoldLeft(Collect, NoText, Intact(units))
  IN  IF text.found
      THEN [form |-> "assembled", thinking |-> text.thinking, content |-> text.content,
            calls |-> ById(text.calls), usage |-> text.usage]
      ELSE [form |-> "raw", units |-> units]

-----------------------------------------------------------------------------
(* The proxy: _counting_stream and to_record.                              *)

LastUnits(units, n) == SubSeq(units, Len(units) - Min({n, Len(units)}) + 1, Len(units))

KeptForRecord(chunk) == captured \o SubSeq(chunk, 1, Min({Len(chunk), BodyLimit - Len(captured)}))

Trimmed(units) == IF Len(units) > 2 * TailLimit THEN LastUnits(units, TailLimit) ELSE units

Recorded(units, total, tokens) ==  \* to_record
  [form |-> "record", text |-> Assemble(units), tokens |-> tokens,
   shortened |-> total > Len(units)]

ForwardChunk ==
  /\ relay = "streaming"
  /\ \E n \in 1..MaxChunk :
       LET chunk == [k \in 1..n |-> relayed + k]
       IN  /\ relayed + n <= Size
           /\ relayed' = relayed + n
           /\ captured' = KeptForRecord(chunk)
           /\ tail' = Trimmed(tail \o chunk)
  /\ UNCHANGED <<reply, relay, counted, logged, chat, heard, answer>>

StreamEnds ==
  /\ relay = "streaming" /\ relayed = Size
  /\ relay' = "ended"
  /\ counted' = RecordUsage(LastUnits(tail, TailLimit))
  /\ logged' = Recorded(captured, relayed, counted')
  /\ UNCHANGED <<reply, relayed, captured, tail, chat, heard, answer>>

\* The backend breaks the stream off, or the client that has left is noticed; whatever was
\* forwarded, nothing is counted and nothing recorded.
StreamAbandoned ==
  /\ relay = "streaming"
  /\ \/ relay' = "failed"
     \/ chat \in {"left", "done"} /\ relay' = "left"
  /\ UNCHANGED <<reply, relayed, captured, tail, counted, logged, chat, heard, answer>>

StreamNext ==
  HearLine \/ HearEnd \/ StopReading \/ ForwardChunk \/ StreamEnds \/ StreamAbandoned

StreamSpec == StreamInit /\ [][StreamNext]_streamVars

-----------------------------------------------------------------------------
(* What must hold.                                                         *)

\* Type invariant of the stream.
StreamTypeOK ==
  /\ reply \in Replies
  /\ relayed \in 0..Size /\ heard \in 0..Len(reply)
  /\ ToSet(captured) \cup ToSet(tail) \subseteq 1..relayed
  /\ Len(captured) <= BodyLimit /\ Len(tail) <= 2 * TailLimit
  /\ relay \in {"streaming", "ended", "failed", "left"}
  /\ chat \in {"reading", "done", "failed", "left"}

\* The record is what the chat made of the reply, if the reply was not too long to be kept
\* whole; of a longer one it is the beginning, no call of it is another's, and it says so.
RecordIsFaithful ==
  relay = "ended" =>
    LET text  == logged.text
        calls == ById(answer.calls)
    IN  /\ logged.shortened <=> Size > BodyLimit
        /\ chat = "done" /\ answer # NoAnswer /\ ~logged.shortened =>
             text = [form |-> "assembled", thinking |-> answer.thinking,
                     content |-> answer.content, calls |-> calls, usage |-> answer.usage]
        /\ chat = "done" /\ text.form = "assembled" =>
             /\ IsPrefix(text.thinking, answer.thinking) /\ IsPrefix(text.content, answer.content)
             /\ \A i \in DOMAIN text.calls : \E j \in DOMAIN calls :
                  /\ text.calls[i].index = calls[j].index /\ text.calls[i].id \in {0, calls[j].id}
                  /\ IsPrefix(text.calls[i].args, calls[j].args)

\* The tokens counted are those the reply reported last, which the chat shows too, if the
\* report ends within the last TailLimit units; otherwise there are none.
TokensAreTheLast ==
  relay = "ended" =>
    LET reports == {i \in Reports(reply) : 2 * i > Size - TailLimit}
    IN  IF reports = {} THEN counted = ZeroTokens
        ELSE LET last == reply[Max(reports)]
             IN  /\ counted = ReportOf(last)
                 /\ chat = "done" /\ last.usage # NoTokens /\ last.shape = "event" =>
                      answer.usage = counted
=============================================================================
